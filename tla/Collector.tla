----------------------------- MODULE Collector ------------------------------
(***************************************************************************)
(* The Collector of apps/api/app/instagram/collector: operator processes   *)
(* (runtime/operator.py, runtime/stage3c1.py) that claim or create a       *)
(* collection run, walk the feed with CollectorEngine.collect (service.py),*)
(* publish source objects (runtime/minio_storage.py) and record what they  *)
(* did (persistence.py); the management API that queues and cancels runs;  *)
(* and the recovery command scripts/cancel_instagram_collector_run.py.     *)
(*                                                                         *)
(* A database transaction is one step and so is a call to the object       *)
(* store.  The feed, the download and the deadline are nondeterministic.   *)
(***************************************************************************)
EXTENDS Naturals, Sequences, FiniteSets

CONSTANTS
    Reels,       \* shortcodes
    Contents,    \* the bytes a download of a Reel may yield
    Accounts,
    Collectors,  \* operator processes
    AccountOf,   \* the account of a process (its workspace)
    Continuing,  \* the ones that run stage 3C1: continue to a durable total
    Target,      \* STAGE_3B_TARGET
    Requests,    \* target_count values the API accepts
    Desired,     \* STAGE_3C1_DESIRED_TOTAL
    Minimum,     \* STAGE_3C1_INITIAL_MINIMUM
    MaxAdvances, \* STAGE_3C1_MAX_TRANSITIONS
    MaxRuns,     \* bound: collection runs
    Killable,    \* the processes that may be killed or interrupted
    CancelLive,  \* is the recovery command used on a run that is being worked on?
    LostCommits, \* may the answer to a durable commit_source be lost?
    None         \* no content, no Reel

ASSUME ConstantsAssumption ==
    /\ AccountOf \in [Collectors -> Accounts]
    /\ Continuing \subseteq Collectors
    /\ Killable \subseteq Collectors
    /\ Target \in Nat \ {0}
    /\ Requests \subseteq Nat \ {0}
    /\ Desired \in Nat /\ Minimum \in Nat /\ MaxAdvances \in Nat /\ MaxRuns \in Nat
    /\ CancelLive \in BOOLEAN /\ LostCommits \in BOOLEAN
    /\ None \notin Reels \cup Contents

VARIABLES
    status,   \* InstagramReel.pipeline_status, "absent" without a row
    digest,   \* InstagramReel.source_sha256, as the content it stands for
    object,   \* the source object of a Reel in the object store
    runs,     \* InstagramCollectionRun rows with their items, oldest first
    pc,       \* what a process does next
    run,      \* the number of the run a process works on, 0 for none
    want,     \* target_count of collect()
    cand,     \* candidate
    seen,     \* the shortcodes seen in this run
    looks,    \* observations of this run, one more than confirmed_advances
    copy,     \* the content of the temporary file
    created,  \* published.created_by_attempt
    after     \* where the exception handler goes once it has compensated

reelVars == <<status, digest, object>>
feedVars == <<want, cand, seen, looks>>
fetchVars == <<copy, created, after>>
vars == <<status, digest, object, runs, pc, run, want, cand, seen, looks,
          copy, created, after>>

Durable == {"source_ready", "normalizing", "ready"}
ReelStatuses == Durable \cup {"absent", "failed"}
RunStatuses == {"queued", "running", "completed", "cancelled", "failed"}
Outcomes == {"source_committed", "already_available", "failed"}
Acquired == {"source_committed", "already_available"}
Item == [reel : Reels, position : Nat, outcome : Outcomes]
Run == [account : Accounts, status : RunStatuses, target : Nat,
        committed : Nat, available : Nat, failed : Nat, cancel : BOOLEAN,
        items : Seq(Item)]

\* The labels inside collect()'s try block, and those of its handlers.
Walking == {"look", "reuse", "download", "publish", "put", "commit", "undo",
            "record", "tally", "complete", "advance"}
Labels == {"off", "refuse", "setup", "fail", "cancel"} \cup Walking

TypeOK ==
    /\ status \in [Reels -> ReelStatuses]
    /\ digest \in [Reels -> Contents \cup {None}]
    /\ object \in [Reels -> Contents \cup {None}]
    /\ runs \in Seq(Run)
    /\ pc \in [Collectors -> Labels]
    /\ run \in [Collectors -> 0 .. Len(runs)]
    /\ want \in [Collectors -> Nat]
    /\ cand \in [Collectors -> Reels \cup {None}]
    /\ seen \in [Collectors -> SUBSET Reels]
    /\ looks \in [Collectors -> Nat]
    /\ copy \in [Collectors -> Contents \cup {None}]
    /\ created \in [Collectors -> BOOLEAN]
    /\ after \in [Collectors -> {"record", "cancel"}]

-----------------------------------------------------------------------------
(* Rows and queries *)

ActiveRun(row) == row.status \in {"queued", "running"}

Active(a) == \E i \in DOMAIN runs : runs[i].account = a /\ ActiveRun(runs[i])

NewRun(a, st, n) ==
    [account |-> a, status |-> st, target |-> n, committed |-> 0,
     available |-> 0, failed |-> 0, cancel |-> FALSE, items |-> <<>>]

SetRun(i, row) == runs' = [runs EXCEPT ![i] = row]

Counted(row) == row.committed + row.available + row.failed

\* The constraints on an item: one per Reel and position, no more than the target.
Fits(row, r) ==
    /\ Counted(row) < row.target
    /\ \A x \in DOMAIN row.items :
           row.items[x].reel # r /\ row.items[x].position # Counted(row) + 1

\* _add_item: the item and the counter it belongs to.
Added(row, r, outcome) ==
    LET item == [reel |-> r, position |-> Counted(row) + 1, outcome |-> outcome]
        put == [row EXCEPT !.items = Append(row.items, item)]
    IN  CASE outcome = "source_committed" -> [put EXCEPT !.committed = row.committed + 1]
          [] outcome = "already_available" -> [put EXCEPT !.available = row.available + 1]
          [] outcome = "failed" -> [put EXCEPT !.failed = row.failed + 1]

\* The durable Reels that the runs of an account acquired.
Owned(a) ==
    {r \in Reels :
        /\ status[r] \in Durable
        /\ \E i \in DOMAIN runs : \E x \in DOMAIN runs[i].items :
              /\ runs[i].account = a
              /\ runs[i].items[x].reel = r
              /\ runs[i].items[x].outcome \in Acquired}

MyRun(c) == runs[run[c]]

CancelRequested(c) == MyRun(c).cancel

Goto(c, label) == pc' = [pc EXCEPT ![c] = label]

\* The process ends: the locals of run_stage_3b and collect are gone.
Leave(c) ==
    /\ Goto(c, "off")
    /\ run' = [run EXCEPT ![c] = 0]
    /\ want' = [want EXCEPT ![c] = 0]
    /\ cand' = [cand EXCEPT ![c] = None]
    /\ seen' = [seen EXCEPT ![c] = {}]
    /\ looks' = [looks EXCEPT ![c] = 0]
    /\ copy' = [copy EXCEPT ![c] = None]
    /\ created' = [created EXCEPT ![c] = FALSE]
    /\ after' = [after EXCEPT ![c] = "record"]

\* Mutant: only a command nobody has claimed can be cancelled.
CancellableQueued(row) == row.status = "queued"

\* cancel_run leaves a terminal run alone.
Cancellable(row) == row.status \in {"queued", "running"}

\* Mutant: fail_run does not look at the status.
FailedRunBlindly(c) ==
    IF run[c] # 0
    THEN SetRun(run[c], [MyRun(c) EXCEPT !.status = "failed"])
    ELSE UNCHANGED runs

\* fail_run and cancel_run on the run of a process, if it has one.
FailedRun(c) ==
    IF run[c] # 0 /\ MyRun(c).status = "running"
    THEN SetRun(run[c], [MyRun(c) EXCEPT !.status = "failed"])
    ELSE UNCHANGED runs

CancelledRun(c) ==
    IF run[c] # 0 /\ Cancellable(MyRun(c))
    THEN SetRun(run[c], [MyRun(c) EXCEPT !.status = "cancelled"])
    ELSE UNCHANGED runs
-----------------------------------------------------------------------------
(* The environment: the management API, the recovery command, the normalizer *)

Init ==
    /\ status = [r \in Reels |-> "absent"]
    /\ digest = [r \in Reels |-> None]
    /\ object = [r \in Reels |-> None]
    /\ runs = <<>>
    /\ pc = [c \in Collectors |-> "off"]
    /\ run = [c \in Collectors |-> 0]
    /\ want = [c \in Collectors |-> 0]
    /\ cand = [c \in Collectors |-> None]
    /\ seen = [c \in Collectors |-> {}]
    /\ looks = [c \in Collectors |-> 0]
    /\ copy = [c \in Collectors |-> None]
    /\ created = [c \in Collectors |-> FALSE]
    /\ after = [c \in Collectors |-> "record"]

\* POST /instagram/collection-runs; whether the account is connected is left open.
CreateCollectionRun(a, n) ==
    /\ Len(runs) < MaxRuns
    /\ ~Active(a)
    /\ runs' = Append(runs, NewRun(a, "queued", n))
    /\ UNCHANGED <<reelVars, pc, run, feedVars, fetchVars>>

\* POST /instagram/collection-runs/{run_id}/cancel
CancelCollectionRun(i) ==
    /\ ActiveRun(runs[i])
    /\ SetRun(i, [runs[i] EXCEPT
                    !.cancel = TRUE,
                    !.status = IF runs[i].status = "queued" THEN "cancelled" ELSE @])
    /\ UNCHANGED <<reelVars, pc, run, feedVars, fetchVars>>

Abandoned(i) == \A c \in Collectors : run[c] # i

\* The recovery command of an operator.
CancelCommand(i) ==
    /\ Cancellable(runs[i])
    /\ CancelLive \/ Abandoned(i)
    /\ SetRun(i, [runs[i] EXCEPT !.status = "cancelled"])
    /\ UNCHANGED <<reelVars, pc, run, feedVars, fetchVars>>

\* What the normalizer does to a Reel (module Normalizer).
NormalizerStep(r) ==
    /\ \/ status[r] = "source_ready" /\ status' = [status EXCEPT ![r] = "normalizing"]
       \/ /\ status[r] = "normalizing"
          /\ \E st \in {"source_ready", "ready", "failed"} : status' = [status EXCEPT ![r] = st]
    /\ UNCHANGED <<digest, object, runs, pc, run, feedVars, fetchVars>>

NormalizerCleanup(r) ==
    /\ status[r] = "ready"
    /\ object[r] # None
    /\ object' = [object EXCEPT ![r] = None]
    /\ UNCHANGED <<status, digest, runs, pc, run, feedVars, fetchVars>>

Crash(c) ==
    /\ c \in Killable
    /\ pc[c] # "off"
    /\ Leave(c)
    /\ UNCHANGED <<reelVars, runs>>

-----------------------------------------------------------------------------
(* run_stage_3b and run_stage3c1, up to the engine *)

\* claim_queued_run; a command with another target is refused in a later step.
ClaimQueuedRun(c, i) ==
    /\ pc[c] = "off"
    /\ c \notin Continuing
    /\ runs[i].account = AccountOf[c] /\ runs[i].status = "queued" /\ ~runs[i].cancel
    /\ SetRun(i, [runs[i] EXCEPT !.status = "running"])
    /\ run' = [run EXCEPT ![c] = i]
    /\ want' = [want EXCEPT ![c] = Target]
    /\ Goto(c, IF runs[i].target = Target THEN "setup" ELSE "refuse")
    /\ UNCHANGED <<reelVars, cand, seen, looks, fetchVars>>

RefuseTarget(c) ==
    /\ pc[c] = "refuse"
    /\ FailedRun(c)
    /\ Leave(c)
    /\ UNCHANGED reelVars

\* prepare_stage3c1: the account has enough Reels, their sources are in place,
\* and some are still missing.
Prepared(a) ==
    /\ Cardinality(Owned(a)) \in Minimum .. (Desired - 1)
    /\ \A r \in Owned(a) : object[r] = digest[r]

\* Nothing is queued or active: the process will create a run of its own.
NoQueuedRun(c) ==
    LET a == AccountOf[c] IN
    /\ pc[c] = "off"
    /\ Len(runs) < MaxRuns
    /\ ~Active(a)
    /\ c \in Continuing => Prepared(a)
    /\ want' = [want EXCEPT ![c] =
           IF c \in Continuing THEN Desired - Cardinality(Owned(a)) ELSE Target]
    /\ Goto(c, "setup")
    /\ UNCHANGED <<reelVars, runs, run, cand, seen, looks, fetchVars>>

\* The operator does not get ready in time, or opening the feed raises.
SetupFails(c) ==
    /\ pc[c] = "setup"
    /\ FailedRun(c)
    /\ Leave(c)
    /\ UNCHANGED reelVars

\* The operator does not confirm.
SetupDeclined(c) ==
    /\ pc[c] = "setup"
    /\ CancelledRun(c)
    /\ Leave(c)
    /\ UNCHANGED reelVars

\* The account status cannot be read or set (outside the try block), or the
\* database refuses the update: the run stays as it is.
SetupBreaks(c) ==
    /\ pc[c] \in {"refuse", "setup"}
    /\ Leave(c)
    /\ UNCHANGED <<reelVars, runs>>

-----------------------------------------------------------------------------
(* CollectorEngine.collect *)

\* create_run, unless the operator claimed one, and the first candidate.
BeginRun(c) ==
    /\ pc[c] = "setup"
    /\ IF run[c] # 0
       THEN UNCHANGED <<runs, run>>
       ELSE /\ ~Active(AccountOf[c])
            /\ Len(runs) < MaxRuns
            /\ runs' = Append(runs, NewRun(AccountOf[c], "running", want[c]))
            /\ run' = [run EXCEPT ![c] = Len(runs) + 1]
    /\ \E r \in Reels : cand' = [cand EXCEPT ![c] = r]
    /\ Goto(c, "look")
    /\ UNCHANGED <<reelVars, want, seen, looks, fetchVars>>

\* _raise_if_cancel_requested at each of its places; nothing is published yet.
CancelSeen(c) ==
    /\ pc[c] \in {"look", "download", "publish", "advance"}
    /\ CancelRequested(c)
    /\ Goto(c, "cancel")
    /\ UNCHANGED <<reelVars, runs, run, feedVars, fetchVars>>

\* A deadline or limit is reached, the feed raises or has no next candidate,
\* the candidate is invalid or the database does not answer.
Stops(c) ==
    /\ pc[c] \in {"look", "tally", "advance"}
    /\ Goto(c, "fail")
    /\ UNCHANGED <<reelVars, runs, run, feedVars, fetchVars>>

\* The feed raises BROWSER_CLOSED.
BrowserCloses(c) ==
    /\ pc[c] \in {"look", "advance"}
    /\ Goto(c, "cancel")
    /\ UNCHANGED <<reelVars, runs, run, feedVars, fetchVars>>

\* The operator presses Ctrl-C; only a published object is compensated.
Interrupt(c) ==
    /\ c \in Killable
    /\ pc[c] \in Walking
    /\ IF pc[c] = "commit" /\ created[c]
       THEN Goto(c, "undo") /\ after' = [after EXCEPT ![c] = "cancel"]
       ELSE Goto(c, "cancel") /\ UNCHANGED after
    /\ UNCHANGED <<reelVars, runs, run, feedVars, copy, created>>

\* The top of the loop, up to the branch on the status of the candidate.
Look(c) ==
    /\ pc[c] = "look"
    /\ ~CancelRequested(c)
    /\ c \in Continuing \/ cand[c] \notin seen[c]
    /\ looks' = [looks EXCEPT ![c] = @ + 1]
    /\ seen' = [seen EXCEPT ![c] = @ \cup {cand[c]}]
    /\ Goto(c, IF c \in Continuing /\ cand[c] \in Owned(AccountOf[c]) THEN "tally"
               ELSE IF status[cand[c]] \in Durable THEN "reuse"
               ELSE "download")
    /\ UNCHANGED <<reelVars, runs, run, want, cand, fetchVars>>

\* commit_available; an exception that comes after the commit ends the run too.
Reuse(c) ==
    /\ pc[c] = "reuse"
    /\ status[cand[c]] \in Durable
    /\ Fits(MyRun(c), cand[c])
    /\ SetRun(run[c], Added(MyRun(c), cand[c], "already_available"))
    /\ \E label \in {"tally", "fail"} : Goto(c, label)
    /\ UNCHANGED <<reelVars, run, feedVars, fetchVars>>

ReuseFails(c) ==
    /\ pc[c] = "reuse"
    /\ Goto(c, "fail")
    /\ UNCHANGED <<reelVars, runs, run, feedVars, fetchVars>>

\* download and validate, and the byte limit.
Download(c) ==
    /\ pc[c] = "download"
    /\ ~CancelRequested(c)
    /\ \E v \in Contents : copy' = [copy EXCEPT ![c] = v]
    /\ Goto(c, "publish")
    /\ UNCHANGED <<reelVars, runs, run, feedVars, created, after>>

\* They raise, or the object store does not answer.
FetchFails(c) ==
    /\ pc[c] \in {"download", "publish"}
    /\ Goto(c, "record")
    /\ UNCHANGED <<reelVars, runs, run, feedVars, fetchVars>>

\* publish(): an object that is there must be the same; it is not created.
Publish(c) ==
    /\ pc[c] = "publish"
    /\ ~CancelRequested(c)
    /\ Goto(c, CASE object[cand[c]] = None -> "put"
                 [] object[cand[c]] = copy[c] -> "commit"
                 [] OTHER -> "record")
    /\ UNCHANGED <<reelVars, runs, run, feedVars, fetchVars>>

Put(c) ==
    /\ pc[c] = "put"
    /\ object' = [object EXCEPT ![cand[c]] = copy[c]]
    /\ created' = [created EXCEPT ![c] = TRUE]
    /\ Goto(c, "commit")
    /\ UNCHANGED <<status, digest, runs, run, feedVars, copy, after>>

\* fput_object raises or is interrupted, done or not; published is None.
PutFails(c) ==
    /\ pc[c] = "put"
    /\ object' \in {object, [object EXCEPT ![cand[c]] = copy[c]]}
    /\ \E label \in {"record"} \cup IF c \in Killable THEN {"cancel"} ELSE {} : Goto(c, label)
    /\ UNCHANGED <<status, digest, runs, run, feedVars, fetchVars>>

\* The transaction of commit_source.
SourceCommitted(c) ==
    /\ status[cand[c]] \in {"absent", "failed"}
    /\ Fits(MyRun(c), cand[c])
    /\ status' = [status EXCEPT ![cand[c]] = "source_ready"]
    /\ digest' = [digest EXCEPT ![cand[c]] = copy[c]]
    /\ SetRun(run[c], Added(MyRun(c), cand[c], "source_committed"))

\* Mutant: the handler does not look at db_committed.
AfterCommitUndone == {"tally", "undo"}

\* The deadline may be over after the commit: no compensation, no failed item.
AfterCommit == {"tally", "fail"}

CommitSource(c) ==
    /\ pc[c] = "commit"
    /\ SourceCommitted(c)
    /\ \E label \in AfterCommit : Goto(c, label)
    /\ created' = [created EXCEPT ![c] = FALSE]
    /\ UNCHANGED <<object, run, feedVars, copy, after>>

\* Where an exception of commit_source, or before it, is handled.
Compensate(c, then) ==
    /\ Goto(c, IF created[c] THEN "undo" ELSE then)
    /\ after' = [after EXCEPT ![c] = then]
    /\ UNCHANGED <<object, run, feedVars, copy, created>>

\* The transaction is durable, but the process does not learn it or is
\* interrupted before it sets db_committed.
CommitAnswerLost(c) ==
    /\ LostCommits
    /\ pc[c] = "commit"
    /\ SourceCommitted(c)
    /\ \E then \in {"record"} \cup IF c \in Killable THEN {"cancel"} ELSE {} :
           Compensate(c, then)

CommitFails(c) ==
    /\ pc[c] = "commit"
    /\ Compensate(c, "record")
    /\ UNCHANGED <<status, digest, runs>>

Undo(c) ==
    /\ pc[c] = "undo"
    /\ object' = [object EXCEPT ![cand[c]] = None]
    /\ Goto(c, after[c])
    /\ UNCHANGED <<status, digest, runs, run, feedVars, fetchVars>>

UndoFails(c) ==
    /\ pc[c] = "undo"
    /\ Goto(c, after[c])
    /\ UNCHANGED <<reelVars, runs, run, feedVars, fetchVars>>

\* Mutants: the new row stays as it was inserted; every Reel is failed.
FailedReelUnmoved(st) == IF st = "absent" THEN "discovered" ELSE st
FailedReelAlways(st) == "failed"

\* record_failure fails a Reel only if it is new.
FailedReel(st) == IF st = "absent" THEN "failed" ELSE st

RecordFailure(c) ==
    /\ pc[c] = "record"
    /\ Fits(MyRun(c), cand[c])
    /\ status' = [status EXCEPT ![cand[c]] = FailedReel(status[cand[c]])]
    /\ SetRun(run[c], Added(MyRun(c), cand[c], "failed"))
    /\ Goto(c, "fail")
    /\ UNCHANGED <<digest, object, run, feedVars, fetchVars>>

\* "The original operation failure remains authoritative."
RecordFailureFails(c) ==
    /\ pc[c] = "record"
    /\ Goto(c, "fail")
    /\ UNCHANGED <<reelVars, runs, run, feedVars, fetchVars>>

\* Mutant: one Reel too few is enough.
EnoughTooEarly(c) == MyRun(c).committed + MyRun(c).available + 1 >= want[c]

Enough(c) == MyRun(c).committed + MyRun(c).available >= want[c]

Tally(c) ==
    /\ pc[c] = "tally"
    /\ Goto(c, IF Enough(c) THEN "complete" ELSE "advance")
    /\ UNCHANGED <<reelVars, runs, run, feedVars, fetchVars>>

\* complete_run asks for nothing; complete_if_account_durable_total does.
MayComplete(c) ==
    c \in Continuing =>
        /\ MyRun(c).status = "running"
        /\ Cardinality(Owned(AccountOf[c])) = Desired

CompletedRun(c) == SetRun(run[c], [MyRun(c) EXCEPT !.status = "completed"])

Complete(c) ==
    /\ pc[c] = "complete"
    /\ IF MayComplete(c)
       THEN CompletedRun(c) /\ Leave(c)
       ELSE Goto(c, "fail") /\ UNCHANGED <<runs, run, feedVars, fetchVars>>
    /\ UNCHANGED reelVars

\* The database fails, before or after the transaction is durable.
CompleteFails(c) ==
    /\ pc[c] = "complete"
    /\ UNCHANGED runs \/ (MayComplete(c) /\ CompletedRun(c))
    /\ Goto(c, "fail")
    /\ UNCHANGED <<reelVars, run, feedVars, fetchVars>>

\* max_advances: stage 3B allows just enough to see its target.
Advances(c) == IF c \in Continuing THEN MaxAdvances ELSE Target - 1

\* _confirm_transition yields another Reel; one seen before ends an ordinary run.
Advance(c) ==
    /\ pc[c] = "advance"
    /\ ~CancelRequested(c)
    /\ looks[c] <= Advances(c)
    /\ \E r \in Reels \ {cand[c]} :
          IF c \notin Continuing /\ r \in seen[c]
          THEN Goto(c, "fail") /\ UNCHANGED cand
          ELSE Goto(c, "look") /\ cand' = [cand EXCEPT ![c] = r]
    /\ UNCHANGED <<reelVars, runs, run, want, seen, looks, fetchVars>>

\* _safe_fail_run and _safe_cancel_run; a database error is swallowed.
FailRun(c) ==
    /\ pc[c] = "fail"
    /\ FailedRun(c)
    /\ Leave(c)
    /\ UNCHANGED reelVars

CancelRun(c) ==
    /\ pc[c] = "cancel"
    /\ CancelledRun(c)
    /\ Leave(c)
    /\ UNCHANGED reelVars

EndSwallowed(c) ==
    /\ pc[c] \in {"fail", "cancel"}
    /\ Leave(c)
    /\ UNCHANGED <<reelVars, runs>>

Operate(c) ==
    \/ \E i \in DOMAIN runs : ClaimQueuedRun(c, i)
    \/ RefuseTarget(c) \/ NoQueuedRun(c)
    \/ SetupFails(c) \/ SetupDeclined(c) \/ SetupBreaks(c)

Collect(c) ==
    \/ BeginRun(c) \/ CancelSeen(c) \/ Stops(c) \/ BrowserCloses(c)
    \/ Look(c) \/ Reuse(c) \/ ReuseFails(c)
    \/ Download(c) \/ FetchFails(c) \/ Publish(c) \/ Put(c) \/ PutFails(c)
    \/ CommitSource(c) \/ CommitAnswerLost(c) \/ CommitFails(c)
    \/ Undo(c) \/ UndoFails(c) \/ RecordFailure(c) \/ RecordFailureFails(c)
    \/ Tally(c) \/ Complete(c) \/ CompleteFails(c) \/ Advance(c)
    \/ FailRun(c) \/ CancelRun(c) \/ EndSwallowed(c)

Next ==
    \/ \E a \in Accounts, n \in Requests : CreateCollectionRun(a, n)
    \/ \E i \in DOMAIN runs : CancelCollectionRun(i) \/ CancelCommand(i)
    \/ \E r \in Reels : NormalizerStep(r) \/ NormalizerCleanup(r)
    \/ \E c \in Collectors : Operate(c) \/ Collect(c) \/ Interrupt(c) \/ Crash(c)

Spec == Init /\ [][Next]_vars

\* A process goes on until it ends or dies, and the operator cancels a run that
\* nobody works on any more.
Fairness ==
    /\ \A c \in Collectors : WF_vars(pc[c] # "off" /\ (Operate(c) \/ Collect(c)))
    /\ \A i \in 1 .. MaxRuns :
           WF_vars(/\ i \in DOMAIN runs
                   /\ runs[i].status = "running"
                   /\ CancelCommand(i))

FairSpec == Spec /\ Fairness

-----------------------------------------------------------------------------
(* Properties *)

OfOutcome(row, outcomes) ==
    Cardinality({x \in DOMAIN row.items : row.items[x].outcome \in outcomes})

\* A run adds up: its counters are the numbers of its items, whose positions
\* are 1, 2, 3 ... and whose Reels differ, and it is completed only with exactly
\* as many Reels as were asked for and without a failure.
RunAddsUp ==
    \A i \in DOMAIN runs :
        LET row == runs[i] IN
        /\ row.committed = OfOutcome(row, {"source_committed"})
        /\ row.available = OfOutcome(row, {"already_available"})
        /\ row.failed = OfOutcome(row, {"failed"})
        /\ \A x \in DOMAIN row.items : row.items[x].position = x
        /\ \A x, y \in DOMAIN row.items : row.items[x].reel = row.items[y].reel => x = y
        /\ row.status = "completed" =>
              row.committed + row.available = row.target /\ row.failed = 0

\* Terminal means terminal: the status, the counters and the items of a run that
\* is completed, cancelled or failed never change again, although fail_run,
\* cancel_run and complete_run come after lost answers, interrupts and cancel
\* requests of the API.
TerminalFrozen ==
    [][\A i \in DOMAIN runs : ~ActiveRun(runs[i]) => runs'[i] = runs[i]]_vars

\* A failure recorded by one collector never takes a Reel away that another one
\* committed meanwhile: only the normalizer fails a durable Reel.
DurableKept ==
    [][\A r \in Reels : status[r] \in Durable =>
          \/ status'[r] \in Durable
          \/ status[r] = "normalizing" /\ UNCHANGED <<runs, pc>>]_vars

\* A Reel waiting for the normalizer has the source object its row describes:
\* neither compensation nor a second publication takes it away.  By RISKS.md:13
\* keys are immutable and metadata without its object needs a loss "outside the
\* application".
SourceDurable ==
    \A r \in Reels : status[r] \in {"source_ready", "normalizing"} =>
        digest[r] # None /\ object[r] = digest[r]

\* A running run ends, whether its process stops, is cancelled, is killed or
\* cannot write its last status: collect() takes boundedly many looks, and what
\* is left running is ended by the recovery command.
RunEnds ==
    \A i \in 1 .. MaxRuns :
        (i \in DOMAIN runs /\ runs[i].status = "running") ~>
        (i \in DOMAIN runs /\ ~ActiveRun(runs[i]))
=============================================================================
