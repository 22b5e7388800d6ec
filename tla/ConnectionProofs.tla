-------------------------- MODULE ConnectionProofs --------------------------
(***************************************************************************)
(* Proofs about logins, the profile lock and the operator handoff, for     *)
(* every set of login sessions and every number of resets, lost replies    *)
(* and gateway restarts.                                                   *)
(***************************************************************************)
EXTENDS Connection, TLAPS

-----------------------------------------------------------------------------
(* The inductive invariant *)

\* No login gives the account back as "connecting".
PriorSettled == \A s \in Sessions : login[s].prior # "connecting"

\* A verification that has not navigated yet, or may be started again, is not
\* counted in navs, but every reply that was lost is.
VerificationCounted ==
    /\ verifying \subseteq started
    /\ \A s \in Sessions :
          /\ navs[s] <= 1 + lost
          /\ s \in verifying \/ s \notin started => navs[s] <= lost

\* Nobody holds a lock file that does not exist yet, and no two processes hold
\* the same one.
LockExclusive ==
    /\ \A p \in Processes : held[p] <= inode
    /\ \A p, q \in Processes : held[p] = held[q] /\ held[p] # 0 => p = q

\* Whoever has a Chromium on the profile, or has not yet released the lock after
\* one, holds a lock.
UsersHoldLock ==
    /\ browser # "down" => held["browser"] # 0
    /\ CollectorUp \/ worker.pc \in {"undo", "unlock"} => held["collector"] # 0

\* A confirmation in the file, or on its way to it, is the operator's; only a
\* plain run waits for the operator in the browser.
HandoffInv ==
    /\ handoff.state = "confirmed" => confirmed
    /\ decision = "confirmed" => confirmed
    /\ worker.kind = "handoff" => worker.pc # "wait"
    /\ HandoffConfirmed

Inv ==
    /\ TypeOK
    /\ PriorSettled
    /\ LoginOwnsAccount
    /\ VerificationCounted
    /\ LockExclusive
    /\ UsersHoldLock
    /\ HandoffInv

LEMMA InitInv == Init => Inv
<1> SUFFICES ASSUME Init PROVE Inv
  OBVIOUS
<1>1. TypeOK
  <2>1. /\ account \in Accounts /\ browser \in BrowserStates
        /\ handoff \in [state : Handoffs, due : BOOLEAN] /\ decision \in Handoffs
        /\ worker \in [pc : WorkerLabels, kind : {"plain", "handoff"}]
    BY DEF Init, Accounts, Handoffs, BrowserStates, WorkerLabels
  <2>2. login \in [Sessions -> Logins]
    BY DEF Init, Logins, Accounts
  <2>3. /\ request \in [Sessions -> {"idle", "readiness", "complete", "close"}]
        /\ verifying \subseteq Sessions /\ started \subseteq Sessions
        /\ navs \in [Sessions -> Nat] /\ lost \in Nat
        /\ inode \in Nat \ {0} /\ held \in [Processes -> Nat]
        /\ reset \in {"idle", "delete", "update"}
    BY DEF Init
  <2>4. confirmed \in BOOLEAN /\ meddled \in BOOLEAN
    BY DEF Init
  <2> QED BY <2>1, <2>2, <2>3, <2>4 DEF TypeOK
<1>2. PriorSettled /\ LoginOwnsAccount
  BY DEF Init, PriorSettled, LoginOwnsAccount, IsOpen, Open
<1>3. VerificationCounted /\ LockExclusive
  BY DEF Init, VerificationCounted, LockExclusive
<1>4. UsersHoldLock /\ HandoffInv
  BY DEF Init, UsersHoldLock, CollectorUp, Holding, HandoffInv, HandoffConfirmed
<1> QED BY <1>1, <1>2, <1>3, <1>4 DEF Inv

-----------------------------------------------------------------------------
(* Login rows *)

\* What Ended makes of the rows.
LEMMA EndedType ==
    ASSUME login \in [Sessions -> Logins], NEW s \in Sessions, NEW st \in {"none"} \cup Open \cup Closed
    PROVE  /\ Ended(s, st) \in [Sessions -> Logins]
           /\ Ended(s, st)[s].status = st /\ Ended(s, st)[s].prior = login[s].prior
           /\ \A t \in Sessions : t # s => Ended(s, st)[t] = login[t]
BY DEF Ended, Logins

LEMMA RestoredType ==
    ASSUME login \in [Sessions -> Logins], NEW s \in Sessions, Restored(s)
    PROVE  account' \in Accounts /\ account' = login[s].prior
BY DEF Restored, Logins

\* The rows a new session leaves: it is open, no other one is.
LEMMA CreateRows ==
    ASSUME TypeOK, LoginOwnsAccount, PriorSettled, NEW s \in Sessions, NEW check \in BOOLEAN, Create(s, check)
    PROVE  /\ account' \in Accounts /\ login' \in [Sessions -> Logins]
           /\ login'[s].status = "pending" /\ login'[s].prior # "connecting"
           /\ account' = "connecting" <=> login'[s].prior # "connected"
           /\ \A t \in Sessions : t # s =>
                 /\ login'[t].status = IF IsOpen(t) THEN "expired" ELSE login[t].status
                 /\ login'[t].prior = login[t].prior
<1> DEFINE others == {o \in Sessions : IsOpen(o)}
           before == IF others = {} THEN account ELSE login[CHOOSE o \in others : TRUE].prior
           swept == [o \in Sessions |->
                       IF o \in others
                       THEN [status |-> "expired", prior |-> login[o].prior, due |-> FALSE]
                       ELSE login[o]]
<1>1. /\ before \in {"disconnected", "reauth_required", "connected"}
      /\ account' = IF before = "connected" THEN before ELSE "connecting"
      /\ login' = [swept EXCEPT ![s] = [status |-> "pending", prior |-> before, due |-> FALSE]]
  BY DEF Create
<1>2. swept \in [Sessions -> Logins]
  BY DEF TypeOK, Logins, Closed
<1>3. \A t \in Sessions :
         /\ swept[t].status = IF IsOpen(t) THEN "expired" ELSE login[t].status
         /\ swept[t].prior = login[t].prior
  BY DEF TypeOK, Logins
<1> HIDE DEF before, swept
<1>4. [status |-> "pending", prior |-> before, due |-> FALSE] \in Logins
  BY <1>1 DEF Logins, Open, Accounts
<1>5. login' \in [Sessions -> Logins] /\ login'[s] = [status |-> "pending", prior |-> before, due |-> FALSE]
      /\ \A t \in Sessions : t # s => login'[t] = swept[t]
  BY <1>1, <1>2, <1>4
<1>6. account' \in Accounts
  BY <1>1 DEF Accounts
<1> QED BY <1>1, <1>3, <1>5, <1>6

-----------------------------------------------------------------------------
(* Types *)

LEMMA LoginTypes ==
    ASSUME TypeOK, LoginOwnsAccount, PriorSettled, LoginNext
    PROVE  TypeOK'
<1> PICK s \in Sessions :
        \/ \E check \in BOOLEAN : Create(s, check)
        \/ Activate(s) \/ Status(s) \/ Cancel(s) \/ ExpiryPasses(s)
        \/ VerifyProfile(s) \/ VerifyReply(s)
        \/ StateAsked(s) \/ StateReadiness(s) \/ StateComplete(s) \/ StateClose(s)
  BY DEF LoginNext
<1> USE DEF TypeOK, gatewayVars, lockVars, handoffVars
<1>1. ASSUME NEW check \in BOOLEAN, Create(s, check) PROVE TypeOK'
  <2>1. account' \in Accounts /\ login' \in [Sessions -> Logins]
    BY <1>1, CreateRows
  <2> QED BY <1>1, <2>1 DEF Create
<1>2. CASE Activate(s)
  <2>1. login' \in [Sessions -> Logins]
    BY <1>2, EndedType DEF Activate, Open
  <2> QED BY <1>2, <2>1 DEF Activate
<1>3. CASE Status(s)
  <2>1. login' \in [Sessions -> Logins] /\ account' \in Accounts
    BY <1>3, EndedType, RestoredType DEF Status, Expire, Closed
  <2> QED BY <1>3, <2>1 DEF Status
<1>4. CASE Cancel(s)
  <2>1. login' \in [Sessions -> Logins] /\ account' \in Accounts
    BY <1>4, EndedType, RestoredType DEF Cancel, Closed
  <2> QED BY <1>4, <2>1 DEF Cancel
<1>5. CASE ExpiryPasses(s)
  <2>1. login' \in [Sessions -> Logins]
    BY <1>5 DEF ExpiryPasses, Logins
  <2> QED BY <1>5, <2>1 DEF ExpiryPasses
<1>6. CASE VerifyProfile(s)
  BY <1>6 DEF VerifyProfile
<1>7. CASE VerifyReply(s)
  BY <1>7 DEF VerifyReply, VerifyOutcome
<1>8. CASE StateAsked(s)
  BY <1>8 DEF StateAsked
<1>9. CASE StateReadiness(s)
  BY <1>9 DEF StateReadiness
<1>10. CASE StateComplete(s)
  <2>1. login' \in [Sessions -> Logins] /\ account' \in Accounts
    <3>1. CASE UNCHANGED <<account, login>>
      BY <3>1
    <3>2. CASE Expire(s)
      BY <3>2, EndedType, RestoredType DEF Expire, Closed
    <3>3. CASE account' = "connected" /\ login' = Ended(s, "completed")
      BY <3>3, EndedType DEF Closed, Accounts
    <3> QED BY <1>10, <3>1, <3>2, <3>3 DEF StateComplete, CompletedOrNot
  <2>2. request' \in [Sessions -> {"idle", "readiness", "complete", "close"}]
    BY <1>10 DEF StateComplete
  <2> QED BY <1>10, <2>1, <2>2 DEF StateComplete
<1>11. CASE StateClose(s)
  BY <1>11 DEF StateClose, BrowserStates, BrowserUp
<1> QED BY <1>1, <1>2, <1>3, <1>4, <1>5, <1>6, <1>7, <1>8, <1>9, <1>10, <1>11

LEMMA BrowserTypes ==
    ASSUME TypeOK, BrowserNext
    PROVE  TypeOK'
<1> USE DEF TypeOK, gatewayVars, lockVars, handoffVars, browserFrame, Processes, BrowserStates, BrowserUp
<1>1. CASE BrowserStart
  BY <1>1 DEF BrowserStart, Take
<1>2. CASE BrowserLaunch
  BY <1>2 DEF BrowserLaunch
<1>3. CASE BrowserStop \/ ChromiumGone
  BY <1>3 DEF BrowserStop, ChromiumGone
<1>4. CASE BrowserRelease \/ BrowserKilled
  BY <1>4 DEF BrowserRelease, BrowserKilled, Release
<1>5. CASE Browse
  BY <1>5 DEF Browse
<1>6. CASE GatewayRestart
  BY <1>6 DEF GatewayRestart, Handoffs
<1> QED BY <1>1, <1>2, <1>3, <1>4, <1>5, <1>6 DEF BrowserNext

LEMMA SetAccountType ==
    ASSUME account \in Accounts, meddled \in BOOLEAN, NEW st \in Accounts, SetAccount(st)
    PROVE  account' \in Accounts /\ meddled' \in BOOLEAN
BY DEF SetAccount

LEMMA SafeStateType ==
    ASSUME account \in Accounts, meddled \in BOOLEAN, SafeState
    PROVE  account' \in Accounts /\ meddled' \in BOOLEAN
BY SetAccountType DEF SafeState, Accounts

LEMMA WorkerTypes ==
    ASSUME TypeOK, WorkerNext
    PROVE  TypeOK'
<1> USE DEF TypeOK, gatewayVars, lockVars, handoffVars, workerFrame, Goto, WorkerLabels, Holding, Processes
<1>1. CASE WorkerStart
  BY <1>1 DEF WorkerStart
<1>2. CASE WorkerBegin
  <2>1. account' \in Accounts /\ meddled' \in BOOLEAN
    BY <1>2, SetAccountType DEF WorkerBegin, Accounts
  <2> QED BY <1>2, <2>1 DEF WorkerBegin
<1>3. CASE WorkerOpen
  BY <1>3 DEF WorkerOpen, Take
<1>4. CASE WorkerOpenFails
  <2>1. account' \in Accounts /\ meddled' \in BOOLEAN
    BY <1>4, SafeStateType DEF WorkerOpenFails
  <2> QED BY <1>4, <2>1 DEF WorkerOpenFails, WorkerLeaves
<1>5. CASE WorkerReady
  BY <1>5 DEF WorkerReady
<1>6. CASE WorkerConnected
  <2>1. account' \in Accounts /\ meddled' \in BOOLEAN
    BY <1>6, SafeStateType, SetAccountType DEF WorkerConnected, Accounts
  <2> QED BY <1>6, <2>1 DEF WorkerConnected
<1>7. CASE WorkerConfirm
  BY <1>7 DEF WorkerConfirm
<1>8. CASE WorkerCollected
  <2>1. account' \in Accounts /\ meddled' \in BOOLEAN
    BY <1>8, SafeStateType DEF WorkerCollected
  <2> QED BY <1>8, <2>1 DEF WorkerCollected
<1>9. CASE WorkerLaunch \/ WorkerLaunchFails \/ WorkerClose
  BY <1>9 DEF WorkerLaunch, WorkerLaunchFails, WorkerClose
<1>10. CASE WorkerUnlock \/ WorkerKilled
  BY <1>10 DEF WorkerUnlock, WorkerKilled, WorkerLeaves, Release
<1> QED BY <1>1, <1>2, <1>3, <1>4, <1>5, <1>6, <1>7, <1>8, <1>9, <1>10 DEF WorkerNext

LEMMA HandoffTypes ==
    ASSUME TypeOK, HandoffNext
    PROVE  TypeOK'
<1> USE DEF TypeOK, gatewayVars, lockVars, handoffVars, workerFrame, Goto, WorkerLabels, Holding, Handoffs
<1>1. CASE HandoffCreate
  <2>1. confirmed' \in BOOLEAN
    BY <1>1, Zenon DEF HandoffCreate
  <2>2. handoff' \in [state : Handoffs, due : BOOLEAN] /\ decision' \in Handoffs
    <3>1. \/ handoff' = [state |-> "pending", due |-> FALSE] /\ decision' = "none"
          \/ handoff' = handoff /\ decision' = decision
      BY <1>1, Zenon DEF HandoffCreate
    <3>2. [state |-> "pending", due |-> FALSE] \in [state : Handoffs, due : BOOLEAN]
      OBVIOUS
    <3>3. "none" \in Handoffs
      OBVIOUS
    <3>4. handoff \in [state : Handoffs, due : BOOLEAN] /\ decision \in Handoffs
      OBVIOUS
    <3> HIDE DEF Handoffs
    <3> QED BY <3>1, <3>2, <3>3, <3>4, Zenon
  <2>3. worker' \in [pc : WorkerLabels, kind : {"plain", "handoff"}]
    BY <1>1 DEF HandoffCreate
  <2> QED BY <1>1, <2>1, <2>2, <2>3 DEF HandoffCreate
<1>2. CASE HandoffPoll
  BY <1>2 DEF HandoffPoll
<1>3. CASE HandoffExpire
  BY <1>3 DEF HandoffExpire, Written
<1>4. CASE HandoffAsked
  <2>1. confirmed' \in BOOLEAN
    BY <1>4, Zenon DEF HandoffAsked
  <2>2. decision' \in Handoffs
    BY <1>4 DEF HandoffAsked
  <2> QED BY <1>4, <2>1, <2>2 DEF HandoffAsked
<1>5. CASE HandoffAnswered
  BY <1>5 DEF HandoffAnswered, Written
<1>6. CASE HandoffDue
  BY <1>6 DEF HandoffDue
<1> QED BY <1>1, <1>2, <1>3, <1>4, <1>5, <1>6 DEF HandoffNext

LEMMA ResetTypes ==
    ASSUME TypeOK, ResetNext
    PROVE  TypeOK'
<1> USE DEF TypeOK, gatewayVars, lockVars, handoffVars
<1>1. CASE ResetAsked
  BY <1>1 DEF ResetAsked
<1>2. CASE ResetDeletes
  BY <1>2 DEF ResetDeletes
<1>3. CASE ResetUpdates
  <2>1. account' \in Accounts /\ meddled' \in BOOLEAN
    BY <1>3, SetAccountType DEF ResetUpdates, Accounts
  <2> QED BY <1>3, <2>1 DEF ResetUpdates
<1> QED BY <1>1, <1>2, <1>3 DEF ResetNext

-----------------------------------------------------------------------------
(* Logins and the account *)

\* A session that ends gives the account back, and no other session is open.
LEMMA EndsOwned ==
    ASSUME TypeOK, LoginOwnsAccount, PriorSettled, NEW s \in Sessions, IsOpen(s),
           NEW st \in Closed, login' = Ended(s, st), account' # "connecting", meddled' = meddled
    PROVE  PriorSettled' /\ LoginOwnsAccount'
<1>0. st \in {"none"} \cup Open \cup Closed /\ login \in [Sessions -> Logins]
  BY DEF TypeOK
<1>1. /\ login'[s].status = st /\ login'[s].prior = login[s].prior
      /\ \A t \in Sessions : t # s => login'[t] = login[t]
  BY <1>0, EndedType, Zenon
<1>2. \A t \in Sessions : ~IsOpen(t)'
  BY <1>1 DEF LoginOwnsAccount, IsOpen, Open, Closed
<1>3. PriorSettled'
  BY <1>1 DEF PriorSettled
<1> QED BY <1>2, <1>3 DEF LoginOwnsAccount

\* A step that keeps who is open, and every prior status.
LEMMA SameOpenOwned ==
    ASSUME LoginOwnsAccount, PriorSettled,
           \A t \in Sessions : (IsOpen(t)' <=> IsOpen(t)) /\ login'[t].prior = login[t].prior,
           \/ account' = account /\ meddled' = meddled
           \/ meddled' = TRUE
    PROVE  PriorSettled' /\ LoginOwnsAccount'
<1>1. PriorSettled'
  BY DEF PriorSettled
<1>2. \A s, t \in Sessions : IsOpen(s)' /\ IsOpen(t)' => s = t
  BY DEF LoginOwnsAccount
<1>3. CASE meddled' = TRUE
  BY <1>1, <1>2, <1>3 DEF LoginOwnsAccount
<1>4. CASE account' = account /\ meddled' = meddled
  BY <1>1, <1>2, <1>4 DEF LoginOwnsAccount
<1> QED BY <1>3, <1>4

LEMMA SetAccountOwned ==
    ASSUME meddled \in BOOLEAN, NEW st, SetAccount(st)
    PROVE  (account' = account /\ meddled' = meddled) \/ meddled' = TRUE
<1>1. CASE account = st
  BY <1>1, Zenon DEF SetAccount
<1>2. CASE account # st
  BY <1>2, Zenon DEF SetAccount
<1> QED BY <1>1, <1>2

LEMMA LoginSteps ==
    ASSUME TypeOK, LoginOwnsAccount, PriorSettled, LoginNext
    PROVE  PriorSettled' /\ LoginOwnsAccount'
<1> PICK s \in Sessions :
        \/ \E check \in BOOLEAN : Create(s, check)
        \/ Activate(s) \/ Status(s) \/ Cancel(s) \/ ExpiryPasses(s)
        \/ VerifyProfile(s) \/ VerifyReply(s)
        \/ StateAsked(s) \/ StateReadiness(s) \/ StateComplete(s) \/ StateClose(s)
  BY DEF LoginNext
<1>0. login[s].prior # "connecting"
  BY DEF PriorSettled
<1>1. ASSUME NEW check \in BOOLEAN, Create(s, check) PROVE PriorSettled' /\ LoginOwnsAccount'
  <2>1. /\ login'[s].status = "pending" /\ login'[s].prior # "connecting"
        /\ account' = "connecting" <=> login'[s].prior # "connected"
        /\ \A t \in Sessions : t # s =>
              /\ login'[t].status = IF IsOpen(t) THEN "expired" ELSE login[t].status
              /\ login'[t].prior = login[t].prior
    BY <1>1, CreateRows
  <2>2. \A t \in Sessions : IsOpen(t)' <=> t = s
    BY <2>1 DEF IsOpen, Open
  <2>3. PriorSettled'
    BY <2>1 DEF PriorSettled
  <2> QED BY <2>1, <2>2, <2>3 DEF LoginOwnsAccount
<1>2. CASE Activate(s)
  <2>1. /\ login'[s].status = "active" /\ login'[s].prior = login[s].prior
        /\ \A t \in Sessions : t # s => login'[t] = login[t]
    BY <1>2, EndedType DEF Activate, Open, TypeOK
  <2>2. \A t \in Sessions : (IsOpen(t)' <=> IsOpen(t)) /\ login'[t].prior = login[t].prior
    BY <1>2, <2>1 DEF Activate, IsOpen, Open
  <2> QED BY <1>2, <2>2, SameOpenOwned DEF Activate
<1>3. ASSUME IsOpen(s), Expire(s), meddled' = meddled PROVE PriorSettled' /\ LoginOwnsAccount'
  BY <1>0, <1>3, EndsOwned DEF Expire, Restored, Closed
<1>4. CASE Status(s)
  BY <1>3, <1>4 DEF Status, Overdue
<1>5. CASE Cancel(s)
  BY <1>0, <1>5, EndsOwned DEF Cancel, Restored, Closed
<1>6. CASE ExpiryPasses(s)
  <2>1. \A t \in Sessions : (IsOpen(t)' <=> IsOpen(t)) /\ login'[t].prior = login[t].prior
    BY <1>6 DEF ExpiryPasses, IsOpen, TypeOK, Logins
  <2> QED BY <1>6, <2>1, SameOpenOwned DEF ExpiryPasses
<1>7. ASSUME UNCHANGED <<login, account, meddled>> PROVE PriorSettled' /\ LoginOwnsAccount'
  BY <1>7 DEF PriorSettled, LoginOwnsAccount, IsOpen
<1>8. CASE StateComplete(s)
  <2>1. meddled' = meddled
    BY <1>8 DEF StateComplete
  <2>2. CASE UNCHANGED <<account, login>>
    BY <1>7, <2>1, <2>2
  <2>3. CASE Overdue(s) /\ Expire(s)
    BY <1>3, <2>1, <2>3 DEF Overdue
  <2>4. CASE login[s].status = "active" /\ account' = "connected" /\ login' = Ended(s, "completed")
    BY <2>1, <2>4, EndsOwned DEF IsOpen, Open, Closed
  <2> QED BY <1>8, <2>2, <2>3, <2>4 DEF StateComplete, CompletedOrNot
<1> QED BY <1>1, <1>2, <1>4, <1>5, <1>6, <1>7, <1>8
        DEF VerifyProfile, VerifyReply, StateAsked, StateReadiness, StateClose

LEMMA WorkerAccount ==
    ASSUME TypeOK, WorkerNext \/ HandoffNext \/ ResetNext \/ BrowserNext
    PROVE  /\ login' = login
           /\ (account' = account /\ meddled' = meddled) \/ meddled' = TRUE
<1>1. meddled \in BOOLEAN
  BY DEF TypeOK
<1>2. login' = login
  <2>1. CASE WorkerNext
    BY <2>1, Zenon DEF WorkerNext, WorkerStart, WorkerBegin, WorkerOpen, WorkerLaunch,
       WorkerLaunchFails, WorkerOpenFails, WorkerReady, WorkerConnected, WorkerConfirm,
       WorkerCollected, WorkerClose, WorkerUnlock, WorkerKilled, workerFrame
  <2>2. CASE HandoffNext
    BY <2>2, Zenon DEF HandoffNext, HandoffCreate, HandoffPoll, HandoffExpire, HandoffAsked,
       HandoffAnswered, HandoffDue, workerFrame
  <2>3. CASE ResetNext
    BY <2>3 DEF ResetNext, ResetAsked, ResetDeletes, ResetUpdates
  <2>4. CASE BrowserNext
    BY <2>4 DEF BrowserNext, BrowserStart, BrowserLaunch, BrowserStop,
         ChromiumGone, BrowserRelease, BrowserKilled, Browse, GatewayRestart, browserFrame
  <2> QED BY <2>1, <2>2, <2>3, <2>4
<1> SUFFICES (account' = account /\ meddled' = meddled) \/ meddled' = TRUE
  BY <1>2
<1>3. ASSUME SafeState PROVE (account' = account /\ meddled' = meddled) \/ meddled' = TRUE
  BY <1>1, <1>3, SetAccountOwned, Zenon DEF SafeState
<1>4. CASE WorkerNext
  <2>1. CASE WorkerBegin
    BY <1>1, <2>1, SetAccountOwned, Zenon DEF WorkerBegin
  <2>2. CASE WorkerOpenFails
    BY <1>3, <2>2, Zenon DEF WorkerOpenFails
  <2>3. CASE WorkerConnected
    BY <1>1, <1>3, <2>3, SetAccountOwned, Zenon DEF WorkerConnected
  <2>4. CASE WorkerCollected
    BY <1>3, <2>4, Zenon DEF WorkerCollected
  <2> QED BY <1>4, <2>1, <2>2, <2>3, <2>4, Zenon DEF WorkerNext, WorkerStart, WorkerOpen, WorkerLaunch,
          WorkerLaunchFails, WorkerReady, WorkerConfirm, WorkerClose, WorkerUnlock, WorkerKilled
<1>5. CASE HandoffNext
  BY <1>5, Zenon DEF HandoffNext, HandoffCreate, HandoffPoll, HandoffExpire, HandoffAsked,
     HandoffAnswered, HandoffDue
<1>6. CASE ResetNext
  BY <1>1, <1>6, SetAccountOwned, Zenon DEF ResetNext, ResetAsked, ResetDeletes, ResetUpdates
<1>7. CASE BrowserNext
  BY <1>7, Zenon DEF BrowserNext, BrowserStart, BrowserLaunch, BrowserStop,
         ChromiumGone, BrowserRelease, BrowserKilled, Browse, GatewayRestart, browserFrame
<1> QED BY <1>4, <1>5, <1>6, <1>7, Zenon

LEMMA OwnedStep ==
    ASSUME TypeOK, LoginOwnsAccount, PriorSettled, Next
    PROVE  PriorSettled' /\ LoginOwnsAccount'
<1>1. CASE LoginNext
  BY <1>1, LoginSteps
<1>2. CASE WorkerNext \/ HandoffNext \/ ResetNext \/ BrowserNext
  <2>1. login' = login /\ ((account' = account /\ meddled' = meddled) \/ meddled' = TRUE)
    BY <1>2, WorkerAccount
  <2>2. \A t \in Sessions : (IsOpen(t)' <=> IsOpen(t)) /\ login'[t].prior = login[t].prior
    BY <2>1 DEF IsOpen
  <2> QED BY <2>1, <2>2, SameOpenOwned
<1> QED BY <1>1, <1>2 DEF Next

-----------------------------------------------------------------------------
(* Verifications *)

\* A reply or a restart makes up for the navigation it may hide.
LEMMA VerificationStep ==
    ASSUME TypeOK, VerificationCounted, Next
    PROVE  VerificationCounted'
<1> USE DEF gatewayVars
<1>t. navs \in [Sessions -> Nat] /\ lost \in Nat
  BY DEF TypeOK
<1>1. ASSUME NEW s \in Sessions, VerifyProfile(s) PROVE VerificationCounted'
  BY <1>1 DEF VerifyProfile, VerificationCounted
<1>2. ASSUME NEW s \in Sessions, VerifyReply(s) PROVE VerificationCounted'
  <2>1. PICK navigated, answered \in BOOLEAN :
           /\ navs' = IF navigated THEN [navs EXCEPT ![s] = navs[s] + 1] ELSE navs
           /\ VerifyOutcome(s, navigated, answered)
    BY <1>2 DEF VerifyReply
  <2>2. s \in verifying /\ verifying' = verifying \ {s} /\ navs[s] <= lost
    BY <1>2 DEF VerifyReply, VerificationCounted
  <2>3. CASE navigated /\ answered
    BY <1>t, <2>1, <2>2, <2>3 DEF VerifyOutcome, VerificationCounted
  <2>4. CASE navigated /\ ~answered
    <3>1. started' = started \ {s} /\ lost' = lost + 1
      BY <2>1, <2>4 DEF VerifyOutcome
    <3>2. navs'[s] <= lost' /\ \A t \in Sessions : t # s => navs'[t] = navs[t]
      BY <1>t, <2>1, <2>2, <2>4, <3>1
    <3>3. ASSUME NEW t \in Sessions, t # s
          PROVE  navs'[t] <= 1 + lost' /\ (t \in verifying' \/ t \notin started' => navs'[t] <= lost')
      BY <1>t, <2>2, <3>1, <3>2, <3>3 DEF VerificationCounted
    <3>4. navs'[s] <= 1 + lost'
      BY <1>t, <2>1, <2>4, <3>1, <3>2
    <3>5. verifying' \subseteq started'
      BY <2>2, <3>1 DEF VerificationCounted
    <3> QED BY <3>2, <3>3, <3>4, <3>5 DEF VerificationCounted
  <2>5. CASE ~navigated
    BY <1>t, <2>1, <2>2, <2>5 DEF VerifyOutcome, VerificationCounted
  <2> QED BY <2>3, <2>4, <2>5
<1>3. CASE GatewayRestart
  <2>1. lost' = lost + 1 /\ verifying' = {} /\ started' = {}
    BY <1>3 DEF GatewayRestart
  <2>2. \A s \in Sessions : navs'[s] <= lost'
    BY <1>3, <1>t, <2>1 DEF GatewayRestart, VerificationCounted
  <2>3. \A s \in Sessions : navs'[s] \in Nat
    BY <1>3, <1>t DEF GatewayRestart
  <2> QED BY <1>t, <2>1, <2>2, <2>3 DEF VerificationCounted
<1>4. ASSUME UNCHANGED <<verifying, started, navs, lost>> PROVE VerificationCounted'
  BY <1>4 DEF VerificationCounted
<1>5. CASE LoginNext
  <2> PICK s \in Sessions :
        \/ \E check \in BOOLEAN : Create(s, check)
        \/ Activate(s) \/ Status(s) \/ Cancel(s) \/ ExpiryPasses(s)
        \/ VerifyProfile(s) \/ VerifyReply(s)
        \/ StateAsked(s) \/ StateReadiness(s) \/ StateComplete(s) \/ StateClose(s)
    BY <1>5 DEF LoginNext
  <2> QED BY <1>1, <1>2, <1>4, Zenon DEF Create, Activate, Status, Cancel, ExpiryPasses, StateAsked,
          StateReadiness, StateComplete, StateClose
<1>6. CASE BrowserNext
  BY <1>3, <1>4, <1>6, Zenon DEF BrowserNext, BrowserStart, BrowserLaunch, BrowserStop,
     ChromiumGone, BrowserRelease, BrowserKilled, Browse, browserFrame
<1>7. CASE WorkerNext
  BY <1>4, <1>7, Zenon DEF WorkerNext, WorkerStart, WorkerBegin, WorkerOpen, WorkerLaunch,
     WorkerLaunchFails, WorkerOpenFails, WorkerReady, WorkerConnected, WorkerConfirm,
     WorkerCollected, WorkerClose, WorkerUnlock, WorkerKilled, workerFrame
<1>8. CASE HandoffNext
  BY <1>4, <1>8, Zenon DEF HandoffNext, HandoffCreate, HandoffPoll, HandoffExpire, HandoffAsked,
     HandoffAnswered, HandoffDue, workerFrame
<1>9. CASE ResetNext
  BY <1>4, <1>9, Zenon DEF ResetNext, ResetAsked, ResetDeletes, ResetUpdates
<1> QED BY <1>5, <1>6, <1>7, <1>8, <1>9 DEF Next

-----------------------------------------------------------------------------
(* The profile lock *)

LEMMA TakeExclusive ==
    ASSUME TypeOK, LockExclusive, NEW p \in Processes, Take(p)
    PROVE  LockExclusive' /\ held'[p] # 0 /\ \A q \in Processes : q # p => held'[q] = held[q]
BY DEF TypeOK, LockExclusive, Take

LEMMA ReleaseExclusive ==
    ASSUME TypeOK, LockExclusive, NEW p \in Processes, Release(p)
    PROVE  LockExclusive' /\ \A q \in Processes : q # p => held'[q] = held[q]
BY DEF TypeOK, LockExclusive, Release

LEMMA LockStep ==
    ASSUME TypeOK, LockExclusive, UsersHoldLock, Next
    PROVE  LockExclusive' /\ UsersHoldLock'
<1> DEFINE Locked == CollectorUp \/ worker.pc \in {"undo", "unlock"}
<1> USE DEF lockVars
<1>0. {"browser", "collector"} = Processes
  BY DEF Processes
<1>1. ASSUME UNCHANGED lockVars, browser' # "down" => browser # "down", Locked' => Locked
      PROVE  LockExclusive' /\ UsersHoldLock'
  BY <1>1 DEF LockExclusive, UsersHoldLock
<1>2. CASE LoginNext
  <2> PICK s \in Sessions :
        \/ \E check \in BOOLEAN : Create(s, check)
        \/ Activate(s) \/ Status(s) \/ Cancel(s) \/ ExpiryPasses(s)
        \/ VerifyProfile(s) \/ VerifyReply(s)
        \/ StateAsked(s) \/ StateReadiness(s) \/ StateComplete(s) \/ StateClose(s)
    BY <1>2 DEF LoginNext
  <2>1. CASE StateClose(s)
    BY <1>1, <2>1 DEF StateClose, CollectorUp
  <2>2. CASE UNCHANGED <<lockVars, browser, worker>>
    BY <1>1, <2>2 DEF CollectorUp
  <2> QED BY <2>1, <2>2, Zenon DEF Create, Activate, Status, Cancel, ExpiryPasses, VerifyProfile,
          VerifyReply, StateAsked, StateReadiness, StateComplete
<1>3. CASE BrowserNext
  <2>0. worker' = worker
    BY <1>3 DEF BrowserNext, BrowserStart, BrowserLaunch, BrowserStop, ChromiumGone,
       BrowserRelease, BrowserKilled, Browse, GatewayRestart, browserFrame
  <2>1. CASE BrowserStart
    <3>1. LockExclusive' /\ held'["browser"] # 0 /\ held'["collector"] = held["collector"]
      BY <1>0, <2>1, TakeExclusive DEF BrowserStart
    <3> QED BY <2>0, <3>1 DEF UsersHoldLock, CollectorUp
  <2>2. CASE BrowserRelease \/ BrowserKilled
    <3>1. LockExclusive' /\ held'["collector"] = held["collector"] /\ browser' = "down"
      BY <1>0, <2>2, ReleaseExclusive DEF BrowserRelease, BrowserKilled
    <3> QED BY <2>0, <3>1 DEF UsersHoldLock, CollectorUp
  <2>3. CASE BrowserLaunch \/ BrowserStop \/ ChromiumGone \/ Browse
    BY <1>1, <2>0, <2>3 DEF BrowserLaunch, BrowserStop, ChromiumGone, Browse, CollectorUp
  <2>4. CASE GatewayRestart
    BY <1>1, <2>0, <2>4 DEF GatewayRestart, CollectorUp
  <2> QED BY <1>3, <2>1, <2>2, <2>3, <2>4 DEF BrowserNext
<1>4. CASE WorkerNext
  <2>0. browser' = browser
    BY <1>4, Zenon DEF WorkerNext, WorkerStart, WorkerBegin, WorkerOpen, WorkerLaunch,
       WorkerLaunchFails, WorkerOpenFails, WorkerReady, WorkerConnected, WorkerConfirm,
       WorkerCollected, WorkerClose, WorkerUnlock, WorkerKilled, workerFrame
  <2>1. CASE WorkerOpen
    <3>1. LockExclusive' /\ held'["collector"] # 0 /\ held'["browser"] = held["browser"]
      BY <1>0, <2>1, TakeExclusive DEF WorkerOpen
    <3> QED BY <2>0, <3>1 DEF UsersHoldLock
  <2>2. CASE WorkerUnlock \/ WorkerKilled
    <3>1. LockExclusive' /\ held'["browser"] = held["browser"]
      BY <1>0, <2>2, ReleaseExclusive DEF WorkerUnlock, WorkerKilled
    <3>2. ~Locked'
      BY <2>2 DEF WorkerUnlock, WorkerKilled, WorkerLeaves, Goto, CollectorUp, Holding
    <3> QED BY <2>0, <3>1, <3>2 DEF UsersHoldLock
  <2>3. CASE WorkerStart
    BY <1>1, <2>0, <2>3 DEF WorkerStart, CollectorUp, Holding
  <2>4. CASE WorkerBegin
    BY <1>1, <2>0, <2>4 DEF WorkerBegin, Goto, CollectorUp, Holding
  <2>5. CASE WorkerOpenFails
    BY <1>1, <2>0, <2>5 DEF WorkerOpenFails, WorkerLeaves, CollectorUp, Holding
  <2>6. CASE WorkerReady \/ WorkerLaunch \/ WorkerLaunchFails \/ WorkerClose
    BY <1>1, <2>0, <2>6
    DEF WorkerReady, WorkerLaunch, WorkerLaunchFails, WorkerClose, Goto, CollectorUp, Holding
  <2>7. CASE WorkerConnected
    BY <1>1, <2>0, <2>7 DEF WorkerConnected, Goto, CollectorUp, Holding
  <2>8. CASE WorkerConfirm
    BY <1>1, <2>0, <2>8 DEF WorkerConfirm, Goto, CollectorUp, Holding
  <2>9. CASE WorkerCollected
    BY <1>1, <2>0, <2>9 DEF WorkerCollected, Goto, CollectorUp, Holding
  <2> QED BY <1>4, <2>1, <2>2, <2>3, <2>4, <2>5, <2>6, <2>7, <2>8, <2>9 DEF WorkerNext
<1>5. CASE HandoffNext
  <2>0. UNCHANGED <<lockVars, browser>>
    BY <1>5, Zenon DEF HandoffNext, HandoffCreate, HandoffPoll, HandoffExpire, HandoffAsked,
       HandoffAnswered, HandoffDue, workerFrame
  <2>1. CASE HandoffCreate \/ HandoffPoll \/ HandoffExpire
    BY <1>1, <2>0, <2>1 DEF HandoffCreate, HandoffPoll, HandoffExpire, Goto, CollectorUp, Holding
  <2>2. CASE worker' = worker
    BY <1>1, <2>0, <2>2 DEF CollectorUp
  <2> QED BY <1>5, <2>1, <2>2, Zenon DEF HandoffNext, HandoffAsked, HandoffAnswered, HandoffDue
<1>6. CASE ResetNext
  <2>0. UNCHANGED <<held, browser, worker>>
    BY <1>6, Zenon DEF ResetNext, ResetAsked, ResetDeletes, ResetUpdates
  <2>1. inode' = inode \/ inode' = inode + 1
    BY <1>6 DEF ResetNext, ResetAsked, ResetDeletes, ResetUpdates
  <2>2. LockExclusive'
    BY <2>0, <2>1 DEF LockExclusive, TypeOK
  <2> QED BY <2>0, <2>2 DEF UsersHoldLock, CollectorUp
<1> QED BY <1>2, <1>3, <1>4, <1>5, <1>6 DEF Next

-----------------------------------------------------------------------------
(* The handoff *)

LEMMA HandoffStep ==
    ASSUME TypeOK, HandoffInv, Next
    PROVE  HandoffInv'
<1> USE DEF handoffVars
<1>t. confirmed \in BOOLEAN
  BY DEF TypeOK
<1>1. ASSUME UNCHANGED <<worker, handoff, confirmed>>, decision' = decision \/ decision' = "none"
      PROVE  HandoffInv'
  BY <1>1, Zenon DEF HandoffInv, HandoffConfirmed
<1>2. ASSUME UNCHANGED handoffVars,
             worker'.kind = "handoff" => worker'.pc # "wait" /\
                (worker'.pc \in {"begin", "ready", "confirm", "collect"} => confirmed)
      PROVE  HandoffInv'
  BY <1>2, Zenon DEF HandoffInv, HandoffConfirmed
<1>3. CASE LoginNext \/ BrowserNext \/ ResetNext
  <2>1. /\ UNCHANGED <<worker, handoff, confirmed>>
        /\ decision' = decision \/ decision' = "none"
    <3>1. CASE LoginNext
      BY <3>1, Zenon DEF LoginNext, Create, Activate, Status, Cancel, ExpiryPasses, VerifyProfile,
         VerifyReply, StateAsked, StateReadiness, StateComplete, StateClose
    <3>2. CASE BrowserNext
      BY <3>2, Zenon DEF BrowserNext, BrowserStart, BrowserLaunch, BrowserStop,
         ChromiumGone, BrowserRelease, BrowserKilled, Browse, GatewayRestart, browserFrame
    <3>3. CASE ResetNext
      BY <3>3, Zenon DEF ResetNext, ResetAsked, ResetDeletes, ResetUpdates
    <3> QED BY <1>3, <3>1, <3>2, <3>3
  <2> QED BY <1>1, <2>1
<1>4. CASE WorkerNext
  <2>0. UNCHANGED handoffVars
    BY <1>4, Zenon DEF WorkerNext, WorkerStart, WorkerBegin, WorkerOpen, WorkerLaunch,
       WorkerLaunchFails, WorkerOpenFails, WorkerReady, WorkerConnected, WorkerConfirm,
       WorkerCollected, WorkerClose, WorkerUnlock, WorkerKilled
  <2>1. worker'.kind = "handoff" => worker'.pc # "wait" /\
           (worker'.pc \in {"begin", "ready", "confirm", "collect"} =>
               worker.kind = "handoff" /\ worker.pc \in {"begin", "ready", "confirm", "collect"})
    <3> USE DEF Goto, HandoffInv, TypeOK
    <3>1. CASE WorkerStart
      BY <3>1 DEF WorkerStart
    <3>2. CASE WorkerBegin
      BY <3>2 DEF WorkerBegin
    <3>3. CASE WorkerOpen
      BY <3>3 DEF WorkerOpen
    <3>4. CASE WorkerOpenFails \/ WorkerUnlock \/ WorkerKilled
      BY <3>4 DEF WorkerOpenFails, WorkerUnlock, WorkerKilled, WorkerLeaves
    <3>5. CASE WorkerReady \/ WorkerLaunch \/ WorkerLaunchFails \/ WorkerClose
      BY <3>5 DEF WorkerReady, WorkerLaunch, WorkerLaunchFails, WorkerClose
    <3>6. CASE WorkerConnected
      BY <3>6 DEF WorkerConnected
    <3>7. CASE WorkerConfirm
      BY <3>7 DEF WorkerConfirm
    <3>8. CASE WorkerCollected
      BY <3>8 DEF WorkerCollected
    <3> QED BY <1>4, <3>1, <3>2, <3>3, <3>4, <3>5, <3>6, <3>7, <3>8 DEF WorkerNext
  <2>2. worker.kind = "handoff" /\ worker.pc \in {"begin", "ready", "confirm", "collect"} => confirmed
    BY DEF HandoffInv, HandoffConfirmed
  <2> QED BY <1>2, <2>0, <2>1, <2>2, Zenon
<1>5. CASE HandoffCreate
  <2>1. worker.kind = "handoff" => worker.pc # "wait"
    BY DEF HandoffInv
  <2>2. CASE UNCHANGED handoffVars /\ worker' = [pc |-> "close", kind |-> worker.kind]
    BY <1>2, <2>2
  <2>3. CASE /\ handoff'.state = "pending" /\ decision' = "none"
             /\ worker' = [pc |-> "poll", kind |-> worker.kind]
    BY <2>3 DEF HandoffInv, HandoffConfirmed
  <2>4. \/ UNCHANGED handoffVars /\ worker' = [pc |-> "close", kind |-> worker.kind]
        \/ /\ handoff' = [state |-> "pending", due |-> FALSE] /\ decision' = "none"
           /\ worker' = [pc |-> "poll", kind |-> worker.kind]
    BY <1>5, Zenon DEF HandoffCreate, Goto
  <2> QED BY <2>2, <2>3, <2>4
<1>6. CASE HandoffPoll
  <2>1. /\ UNCHANGED handoffVars
        /\ \/ worker' = [pc |-> "expire", kind |-> worker.kind]
           \/ handoff.state = "confirmed" /\ worker' = [pc |-> "begin", kind |-> worker.kind]
           \/ worker' = [pc |-> "close", kind |-> worker.kind]
    BY <1>6, Zenon DEF HandoffPoll, Granted, Goto
  <2>2. handoff.state = "confirmed" => confirmed
    BY DEF HandoffInv
  <2> QED BY <1>2, <2>1, <2>2
<1>7. CASE HandoffExpire
  <2>1. handoff'.state = "expired" /\ worker'.pc = "close" /\ decision' = decision /\ confirmed' = confirmed
    BY <1>7 DEF HandoffExpire, Goto, Written
  <2>2. decision = "confirmed" => confirmed
    BY DEF HandoffInv
  <2> QED BY <2>1, <2>2 DEF HandoffInv, HandoffConfirmed
<1>8. CASE HandoffAsked
  <2>1. UNCHANGED <<worker, handoff>> /\ (confirmed => confirmed') /\ (decision' = "confirmed" => confirmed')
    <3>1. CASE \E to \in {"active", "confirmed", "cancelled"} :
                  decision' = to /\ confirmed' = (confirmed \/ to = "confirmed")
      BY <1>8, <3>1, Zenon DEF HandoffAsked
    <3>2. CASE decision' = "expired" /\ confirmed' = confirmed
      BY <1>8, <3>2 DEF HandoffAsked
    <3> QED BY <1>8, <3>1, <3>2, Zenon DEF HandoffAsked
  <2> QED BY <2>1, Zenon DEF HandoffInv, HandoffConfirmed
<1>9. CASE HandoffAnswered
  <2>1. handoff'.state = decision /\ decision' = "none" /\ UNCHANGED <<worker, confirmed>>
    BY <1>9 DEF HandoffAnswered, Written
  <2> QED BY <2>1 DEF HandoffInv, HandoffConfirmed
<1>10. CASE HandoffDue
  <2>1. handoff'.state = handoff.state /\ UNCHANGED <<worker, confirmed, decision>>
    BY <1>10 DEF HandoffDue
  <2> QED BY <2>1, Zenon DEF HandoffInv, HandoffConfirmed
<1> QED BY <1>3, <1>4, <1>5, <1>6, <1>7, <1>8, <1>9, <1>10 DEF Next, HandoffNext

-----------------------------------------------------------------------------
(* The theorems *)

LEMMA StutterInv == Inv /\ UNCHANGED vars => Inv'
<1> SUFFICES ASSUME Inv, UNCHANGED vars PROVE Inv'
  OBVIOUS
<1> USE DEF vars, Inv
<1>1. TypeOK'
  BY DEF TypeOK
<1>2. PriorSettled' /\ LoginOwnsAccount' /\ VerificationCounted'
  BY DEF PriorSettled, LoginOwnsAccount, IsOpen, VerificationCounted
<1>3. LockExclusive' /\ UsersHoldLock'
  BY DEF LockExclusive, UsersHoldLock, CollectorUp
<1>4. HandoffInv'
  BY Zenon DEF HandoffInv, HandoffConfirmed
<1> QED BY <1>1, <1>2, <1>3, <1>4

\* The inductive invariant of logins, lock and handoff (login_sessions.py,
\* login_gateway.py, profile_lock.py, handoff_state.py).
THEOREM Invariance == Spec => []Inv
<1>1. Init => Inv
  BY InitInv
<1>2. Inv /\ [Next]_vars => Inv'
  <2> SUFFICES ASSUME Inv, [Next]_vars PROVE Inv'
    OBVIOUS
  <2>1. CASE Next
    <3>1. TypeOK'
      BY <2>1, LoginTypes, BrowserTypes, WorkerTypes, HandoffTypes, ResetTypes DEF Inv, Next
    <3>2. PriorSettled' /\ LoginOwnsAccount'
      BY <2>1, OwnedStep DEF Inv
    <3>3. VerificationCounted'
      BY <2>1, VerificationStep DEF Inv
    <3>4. LockExclusive' /\ UsersHoldLock'
      BY <2>1, LockStep DEF Inv
    <3>5. HandoffInv'
      BY <2>1, HandoffStep DEF Inv
    <3> QED BY <3>1, <3>2, <3>3, <3>4, <3>5 DEF Inv
  <2>2. CASE UNCHANGED vars
    BY <2>2, StutterInv
  <2> QED BY <2>1, <2>2
<1> QED BY <1>1, <1>2, PTL DEF Spec

\* Every variable keeps its type.
THEOREM TypeCorrect == Spec => []TypeOK
<1>1. Inv => TypeOK
  BY DEF Inv
<1> QED BY <1>1, Invariance, PTL

\* At most one login session is open, and it alone makes the account
\* "connecting", until a Collector or a reset moves it (_restore_account,
\* create_in_transaction).
THEOREM LoginAlwaysOwnsAccount == Spec => []LoginOwnsAccount
<1>1. Inv => LoginOwnsAccount
  BY DEF Inv
<1> QED BY <1>1, Invariance, PTL

\* One verification navigation for each session, and one for every lost reply or
\* restart (profile_verifications_started).
THEOREM AlwaysVerifiedOnce == Spec => []VerifiedOnce
<1>1. Inv => VerifiedOnce
  BY DEF Inv, VerificationCounted, VerifiedOnce
<1> QED BY <1>1, Invariance, PTL

\* Login browser and Collector have Chromium on the profile at the same time only
\* if one of them still holds a lock file that a reset has deleted
\* (profile_lock.py, browser_service.py, browser_feed.py, the reset job).
THEOREM ProfileAlwaysExclusive == Spec => []ExclusiveProfile
<1>1. Inv => ExclusiveProfile
  <2> SUFFICES ASSUME Inv, browser \in BrowserUp, CollectorUp
               PROVE  \E p \in Processes : held[p] \in 1 .. inode - 1
    BY DEF ExclusiveProfile
  <2>1. "browser" \in Processes /\ "collector" \in Processes
    BY DEF Processes
  <2>2. held["browser"] # 0 /\ held["collector"] # 0
    BY DEF Inv, UsersHoldLock, BrowserUp
  <2>3. held["browser"] # held["collector"]
    BY <2>1, <2>2 DEF Inv, LockExclusive
  <2>4. /\ held["browser"] \in Nat /\ held["browser"] <= inode
        /\ held["collector"] \in Nat /\ held["collector"] <= inode /\ inode \in Nat
    BY <2>1 DEF Inv, TypeOK, LockExclusive
  <2>5. held["browser"] \in 1 .. inode - 1 \/ held["collector"] \in 1 .. inode - 1
    BY <2>2, <2>3, <2>4
  <2> QED BY <2>1, <2>5
<1> QED BY <1>1, Invariance, PTL

\* A run that a handoff was offered for begins only after the operator confirmed
\* it (run_instagram_collector_handoff.py).
THEOREM HandoffAlwaysConfirmed == Spec => []HandoffConfirmed
<1>1. Inv => HandoffConfirmed
  BY DEF Inv, HandoffInv
<1> QED BY <1>1, Invariance, PTL

\* A closed session is never opened or closed again (login_sessions.py).
THEOREM ClosedAlwaysStays == Spec => ClosedStays
<1>1. Inv /\ [Next]_vars =>
        [\A s \in Sessions : login[s].status \in Closed => login'[s].status = login[s].status]_vars
  <2> SUFFICES ASSUME Inv, Next, NEW t \in Sessions, login[t].status \in Closed
               PROVE  login'[t].status = login[t].status
    BY DEF vars
  <2>0. ~IsOpen(t) /\ login[t].status # "none" /\ login \in [Sessions -> Logins]
    BY DEF IsOpen, Open, Closed, Inv, TypeOK
  <2>1. CASE WorkerNext \/ HandoffNext \/ ResetNext \/ BrowserNext
    BY <2>1, WorkerAccount DEF Inv
  <2>2. CASE LoginNext
    <3>1. PICK s \in Sessions :
             \/ \E check \in BOOLEAN : Create(s, check)
             \/ Activate(s) \/ Status(s) \/ Cancel(s) \/ ExpiryPasses(s)
             \/ VerifyProfile(s) \/ VerifyReply(s)
             \/ StateAsked(s) \/ StateReadiness(s) \/ StateComplete(s) \/ StateClose(s)
      BY <2>2 DEF LoginNext
    <3>2. ASSUME NEW check \in BOOLEAN, Create(s, check) PROVE login'[t].status = login[t].status
      <4>1. s # t
        BY <2>0, <3>2 DEF Create
      <4> QED BY <2>0, <3>2, <4>1, CreateRows DEF Inv
    <3>3. ASSUME IsOpen(s), NEW st \in {"none"} \cup Open \cup Closed, login' = Ended(s, st)
          PROVE  login'[t].status = login[t].status
      BY <2>0, <3>3, EndedType
    <3>4. CASE Activate(s)
      BY <3>3, <3>4 DEF Activate, IsOpen, Open
    <3>5. CASE Status(s)
      BY <3>3, <3>5 DEF Status, Overdue, Expire, Closed
    <3>6. CASE Cancel(s)
      BY <3>3, <3>6 DEF Cancel, Closed
    <3>7. CASE ExpiryPasses(s)
      BY <2>0, <3>7 DEF ExpiryPasses, Logins
    <3>8. CASE StateComplete(s)
      BY <3>3, <3>8 DEF StateComplete, CompletedOrNot, Overdue, Expire, IsOpen, Open, Closed
    <3> QED BY <3>1, <3>2, <3>4, <3>5, <3>6, <3>7, <3>8
            DEF VerifyProfile, VerifyReply, StateAsked, StateReadiness, StateClose
  <2> QED BY <2>1, <2>2 DEF Next
<1> QED BY <1>1, Invariance, PTL DEF Spec, ClosedStays
=============================================================================
