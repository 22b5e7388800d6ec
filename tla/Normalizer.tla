----------------------------- MODULE Normalizer -----------------------------
(***************************************************************************)
(* The normalizer of apps/api/app/instagram/normalizer/worker.py: worker   *)
(* processes that claim normalization jobs from PostgreSQL, turn a source  *)
(* object into a canonical video, publish it in the object store, commit   *)
(* it, and compensate when they cannot; the reconcile pass that recovers   *)
(* expired leases; and the process loop of                                 *)
(* apps/api/app/scripts/run_instagram_normalizer_worker.py.                *)
(*                                                                         *)
(* A database transaction is one step: it locks the rows it writes.  A     *)
(* call to the object store is one step.  Nothing else is atomic.          *)
(***************************************************************************)
EXTENDS Naturals, Sequences

CONSTANTS
    Reels,        \* Reel rows, named by shortcode
    Keys,         \* final object keys: videos/<sha256 of the output>.mp4
    Outputs,      \* Outputs[r]: the keys normalizing r may produce
    Workers,      \* worker processes; every one has a worker_id of its own
    Commands,     \* processes running `--reconcile`, which claim nothing
    Killable,     \* the processes that may be killed or told to stop
    MaxAttempts,  \* MAX_NORMALIZATION_ATTEMPTS
    MaxCollects,  \* bound: commits of the source of one Reel
    SlowWorkers,  \* may a lease expire while its owner is still at the job?
    None          \* no video, no worker, no Reel, no key

Procs == Workers \cup Commands

ASSUME ConstantsAssumption ==
    /\ MaxAttempts \in Nat \ {0}
    /\ MaxCollects \in Nat
    /\ SlowWorkers \in BOOLEAN
    /\ Outputs \in [Reels -> SUBSET Keys]
    /\ Killable \subseteq Procs
    /\ Workers \cap Commands = {}
    /\ None \notin Reels \cup Keys \cup Workers

VARIABLES
    status,    \* InstagramReel.pipeline_status
    video,     \* InstagramReel.video_id, as the object key of that Video row
    cleanup,   \* InstagramReel.source_cleanup_pending
    collects,  \* how often the source of a Reel was committed (bound only)
    jobs,      \* the InstagramNormalizationJob rows of a Reel, oldest first
    videos,    \* the object keys that have a Video row
    source,    \* the Reels whose source object exists
    staging,   \* the jobs <<reel, number>> whose staging object exists
    final,     \* the final keys whose object exists
    pc,        \* what a process does next
    reel, job, \* the Reel and the job number a process is working on
    key,       \* final_key of the output a worker holds
    created,   \* created_final
    again,     \* is the exception being handled retryable?
    cancelled, \* the workers whose cancellation Event is set
    stale,     \* the staging prefixes a reconcile pass must still remove
    todo       \* the Reels whose source a reconcile pass must still remove

reelVars == <<status, video, cleanup, collects>>
dbVars == <<status, video, cleanup, collects, jobs, videos>>
storeVars == <<source, staging, final>>
passVars == <<stale, todo>>
claimVars == <<reel, job, key, created, again>>
vars == <<status, video, cleanup, collects, jobs, videos, source, staging,
          final, pc, reel, job, key, created, again, cancelled, stale, todo>>

JobStatuses == {"pending", "running", "completed", "failed"}
ReelStatuses == {"discovered", "source_ready", "normalizing", "ready", "failed"}
JobRow == [status : JobStatuses, attempt : Nat,
           worker : Workers \cup {None}, expired : BOOLEAN]

\* The labels at which a worker is inside _process or its exception handler.
Attempting == {"download", "upload", "stat", "copy", "verify", "commit",
               "check", "unpublish", "finish"}
\* After the commit: the source is removed, then the flag, then the staging.
Closing == {"remove", "unflag", "unstage"}
Reconciling == {"recover", "sweep", "scan", "scrub", "scrubbed"}
Labels == {"off", "idle", "dead"} \cup Attempting \cup Closing \cup Reconciling

TypeOK ==
    /\ status \in [Reels -> ReelStatuses]
    /\ video \in [Reels -> Keys \cup {None}]
    /\ cleanup \in [Reels -> BOOLEAN]
    /\ collects \in [Reels -> Nat]
    /\ jobs \in [Reels -> Seq(JobRow)]
    /\ videos \subseteq Keys
    /\ source \subseteq Reels
    /\ staging \subseteq Reels \X Nat
    /\ final \subseteq Keys
    /\ pc \in [Procs -> Labels]
    /\ reel \in [Procs -> Reels \cup {None}]
    /\ job \in [Procs -> Nat]
    /\ key \in [Procs -> Keys \cup {None}]
    /\ created \in [Procs -> BOOLEAN]
    /\ again \in [Procs -> BOOLEAN]
    /\ cancelled \subseteq Workers
    /\ stale \in [Procs -> SUBSET (Reels \X Nat)]
    /\ todo \in [Procs -> SUBSET Reels]

-----------------------------------------------------------------------------
(* Rows and steps *)

PendingJob(n) ==
    [status |-> "pending", attempt |-> n, worker |-> None, expired |-> FALSE]

\* A job row reaches a terminal status; its lease and its owner are cleared.
Closed(row, outcome) ==
    [row EXCEPT !.status = outcome, !.worker = None, !.expired = FALSE]

LeaseOver(row) == [row EXCEPT !.expired = TRUE]

SetRow(r, i, row) == jobs' = [jobs EXCEPT ![r] = [jobs[r] EXCEPT ![i] = row]]

Retries(row, retryable) == retryable /\ row.attempt < MaxAttempts

\* Mutants: the retry is not queued; the retry forgets the attempts made.
FailedRowsUnqueued(rows, i, retryable) ==
    [rows EXCEPT ![i] = Closed(rows[i], "failed")]
FailedRowsFresh(rows, i, retryable) ==
    LET closed == [rows EXCEPT ![i] = Closed(rows[i], "failed")]
    IN  IF retryable THEN Append(closed, PendingJob(0)) ELSE closed

\* The job rows after job i failed, with the new row when it is to be retried.
FailedRows(rows, i, retryable) ==
    LET closed == [rows EXCEPT ![i] = Closed(rows[i], "failed")]
    IN  IF Retries(rows[i], retryable)
        THEN Append(closed, PendingJob(rows[i].attempt))
        ELSE closed

\* Mutant: the job's status is stored in the Reel.
StatusAfterFailureOfJob(row, retryable) ==
    IF Retries(row, retryable) THEN "pending" ELSE "failed"

StatusAfterFailure(row, retryable) ==
    IF Retries(row, retryable) THEN "source_ready" ELSE "failed"

MyRow(w) == jobs[reel[w]][job[w]]

\* Mutant: only the status of the job is looked at again.
OwnedOrRecovered(w) == MyRow(w).status \in {"running", "failed"}

OwnedRunning(w) == MyRow(w).status = "running" /\ MyRow(w).worker = w

Goto(p, label) == pc' = [pc EXCEPT ![p] = label]

\* An exception leaves the try block; the handler at `label` knows its class.
Raise(w, label, retryable) ==
    /\ Goto(w, label)
    /\ again' = [again EXCEPT ![w] = retryable]
    /\ UNCHANGED <<reel, job, key, created>>

\* The local variables of run_once and of reconcile go out of scope.
Forget(p) ==
    /\ reel' = [reel EXCEPT ![p] = None]
    /\ job' = [job EXCEPT ![p] = 0]
    /\ key' = [key EXCEPT ![p] = None]
    /\ created' = [created EXCEPT ![p] = FALSE]
    /\ again' = [again EXCEPT ![p] = FALSE]
-----------------------------------------------------------------------------
(* The environment: the Collector, the operating system and the clock *)

Init ==
    /\ status = [r \in Reels |-> "discovered"]
    /\ video = [r \in Reels |-> None]
    /\ cleanup = [r \in Reels |-> FALSE]
    /\ collects = [r \in Reels |-> 0]
    /\ jobs = [r \in Reels |-> <<>>]
    /\ videos = {} /\ source = {} /\ staging = {} /\ final = {}
    /\ pc = [p \in Procs |-> "off"]
    /\ reel = [p \in Procs |-> None]
    /\ job = [p \in Procs |-> 0]
    /\ key = [p \in Procs |-> None]
    /\ created = [p \in Procs |-> FALSE]
    /\ again = [p \in Procs |-> FALSE]
    /\ cancelled = {}
    /\ stale = [p \in Procs |-> {}]
    /\ todo = [p \in Procs |-> {}]

\* commit_source of the Collector, after its source object was published: the
\* Reel is new or failed before, and a job that was never tried is queued.
CommitSource(r) ==
    /\ status[r] \in {"discovered", "failed"}
    /\ collects[r] < MaxCollects
    /\ collects' = [collects EXCEPT ![r] = @ + 1]
    /\ status' = [status EXCEPT ![r] = "source_ready"]
    /\ jobs' = [jobs EXCEPT ![r] = Append(jobs[r], PendingJob(0))]
    /\ source' = source \cup {r}
    /\ UNCHANGED <<video, cleanup, videos, staging, final, pc, claimVars,
                   cancelled, passVars>>

\* SIGTERM or SIGINT sets the cancellation Event.
Cancel(w) ==
    /\ w \in (Killable \cap Workers) \ cancelled
    /\ pc[w] \notin {"off", "dead"}
    /\ cancelled' = cancelled \cup {w}
    /\ UNCHANGED <<dbVars, storeVars, pc, claimVars, passVars>>

\* A process dies between two steps.  A worker never comes back under the same
\* worker_id: the restarted process is another element of Workers.  A
\* `--reconcile` command writes no identity anywhere, so it may run again.
Crash(p) ==
    /\ p \in Killable
    /\ pc[p] \notin {"off", "dead"}
    /\ Goto(p, IF p \in Workers THEN "dead" ELSE "off")
    /\ Forget(p)
    /\ stale' = [stale EXCEPT ![p] = {}]
    /\ todo' = [todo EXCEPT ![p] = {}]
    /\ UNCHANGED <<dbVars, storeVars, cancelled>>

AtJob(w, r, i) == pc[w] \in Attempting /\ reel[w] = r /\ job[w] = i

\* lease_expires_at passes.  Nothing renews a lease, so this can happen under a
\* worker that is still busy; with SlowWorkers = FALSE every attempt is shorter
\* than its lease.
LeaseExpires(r, i) ==
    /\ jobs[r][i].status = "running"
    /\ ~jobs[r][i].expired
    /\ SlowWorkers \/ \A w \in Workers : ~AtJob(w, r, i)
    /\ SetRow(r, i, LeaseOver(jobs[r][i]))
    /\ UNCHANGED <<reelVars, videos, storeVars, pc, claimVars, cancelled, passVars>>

-----------------------------------------------------------------------------
(* reconcile(), run by every worker as it starts and by `--reconcile` *)

\* main(): daemon and bounded workers reconcile once, before their first claim.
Start(p) ==
    /\ pc[p] = "off"
    /\ Goto(p, "recover")
    /\ UNCHANGED <<dbVars, storeVars, claimVars, cancelled, passVars>>

\* Mutant: lease_expires_at is not compared with the clock.
StaleJobUnleased(row) == row.status = "running" /\ row.worker = None

StaleJob(row) == row.status = "running" /\ row.expired

StaleJobs == {x \in UNION {{r} \X DOMAIN jobs[r] : r \in Reels} :
                  StaleJob(jobs[x[1]][x[2]])}

\* The number of the stale job of r, if it has one.
StaleNo(r) == CHOOSE i \in DOMAIN jobs[r] : StaleJob(jobs[r][i])

IsStale(r) == \E i \in DOMAIN jobs[r] : StaleJob(jobs[r][i])

\* One transaction fails every stale job and requeues or fails its Reel.
Recover(p) ==
    /\ pc[p] = "recover"
    /\ jobs' = [r \in Reels |-> IF IsStale(r)
                                THEN FailedRows(jobs[r], StaleNo(r), TRUE)
                                ELSE jobs[r]]
    /\ status' = [r \in Reels |-> IF IsStale(r)
                                  THEN StatusAfterFailure(jobs[r][StaleNo(r)], TRUE)
                                  ELSE status[r]]
    /\ stale' = [stale EXCEPT ![p] = StaleJobs]
    /\ Goto(p, "sweep")
    /\ UNCHANGED <<video, cleanup, collects, videos, storeVars, claimVars,
                   cancelled, todo>>

\* _cleanup_staging of every stale prefix; what cannot be removed is left.
SweepStaging(p) ==
    /\ pc[p] = "sweep"
    /\ \E kept \in SUBSET (stale[p] \cap staging) :
           staging' = (staging \ stale[p]) \cup kept
    /\ stale' = [stale EXCEPT ![p] = {}]
    /\ Goto(p, "scan")
    /\ UNCHANGED <<dbVars, source, final, claimVars, cancelled, todo>>

\* Mutant: the query asks for the flag's default.
CleanupPendingInverted == {r \in Reels : status[r] = "ready" /\ ~cleanup[r]}

CleanupPending == {r \in Reels : status[r] = "ready" /\ cleanup[r]}

\* _reconcile_source_cleanup reads its list of Reels in one query.
ScanCleanup(p) ==
    /\ pc[p] = "scan"
    /\ todo' = [todo EXCEPT ![p] = CleanupPending]
    /\ Goto(p, "scrub")
    /\ UNCHANGED <<dbVars, storeVars, claimVars, cancelled, stale>>

ScrubSource(p, r) ==
    /\ pc[p] = "scrub"
    /\ r \in todo[p]
    /\ source' = source \ {r}
    /\ reel' = [reel EXCEPT ![p] = r]
    /\ Goto(p, "scrubbed")
    /\ UNCHANGED <<dbVars, staging, final, job, key, created, again, cancelled,
                   passVars>>

\* The object store refused the removal; the next Reel is tried.
SkipSource(p, r) ==
    /\ pc[p] = "scrub"
    /\ r \in todo[p]
    /\ todo' = [todo EXCEPT ![p] = @ \ {r}]
    /\ UNCHANGED <<dbVars, storeVars, pc, claimVars, cancelled, stale>>

ClearScrubbed(p) ==
    /\ pc[p] = "scrubbed"
    /\ cleanup' = [cleanup EXCEPT ![reel[p]] = FALSE]
    /\ todo' = [todo EXCEPT ![p] = @ \ {reel[p]}]
    /\ Goto(p, "scrub")
    /\ Forget(p)
    /\ UNCHANGED <<status, video, collects, jobs, videos, storeVars, cancelled,
                   stale>>

\* reconcile() returns: a worker enters its loop, a command ends.
Reconciled(p) ==
    /\ pc[p] = "scrub"
    /\ todo[p] = {}
    /\ Goto(p, IF p \in Workers THEN "idle" ELSE "off")
    /\ UNCHANGED <<dbVars, storeVars, claimVars, cancelled, passVars>>

Reconcile(p) ==
    \/ Start(p) \/ Recover(p) \/ SweepStaging(p) \/ ScanCleanup(p)
    \/ \E r \in Reels : ScrubSource(p, r) \/ SkipSource(p, r)
    \/ ClearScrubbed(p) \/ Reconciled(p)
-----------------------------------------------------------------------------
(* run_once(): one job from its claim to its last cleanup *)

Claimable(r, i) == status[r] = "source_ready" /\ jobs[r][i].status = "pending"

ClaimedRow(row, w) ==
    [status |-> "running", attempt |-> row.attempt + 1, worker |-> w,
     expired |-> FALSE]

\* claim(): a row whose attempts are used up is failed instead of claimed.
Claim(w, r, i) ==
    /\ pc[w] = "idle"
    /\ w \notin cancelled
    /\ Claimable(r, i)
    /\ IF jobs[r][i].attempt + 1 > MaxAttempts
       THEN /\ SetRow(r, i, Closed(jobs[r][i], "failed"))
            /\ status' = [status EXCEPT ![r] = "failed"]
            /\ UNCHANGED <<pc, reel, job>>
       ELSE /\ SetRow(r, i, ClaimedRow(jobs[r][i], w))
            /\ status' = [status EXCEPT ![r] = "normalizing"]
            /\ reel' = [reel EXCEPT ![w] = r]
            /\ job' = [job EXCEPT ![w] = i]
            /\ Goto(w, "download")
    /\ UNCHANGED <<video, cleanup, collects, videos, storeVars, key, created,
                   again, cancelled, passVars>>

\* The loop of main() ends: the Event is set.
Exit(w) ==
    /\ pc[w] = "idle"
    /\ w \in cancelled
    /\ Goto(w, "dead")
    /\ UNCHANGED <<dbVars, storeVars, claimVars, cancelled, passVars>>

\* _raise_if_cancelled at each of its places, and every other exception of the
\* steps before publication: a source that is missing or does not verify, a
\* probe, decode, transcode or upload that fails.
AttemptFails(w) ==
    /\ pc[w] \in {"download", "upload", "stat"}
    /\ \E retryable \in BOOLEAN : Raise(w, "finish", retryable)
    /\ UNCHANGED <<dbVars, storeVars, cancelled, passVars>>

DownloadSource(w) ==
    /\ pc[w] = "download"
    /\ w \notin cancelled
    /\ reel[w] \in source
    /\ Goto(w, "upload")
    /\ UNCHANGED <<dbVars, storeVars, claimVars, cancelled, passVars>>

\* Mutant: the source is given up once its output is staged.
UploadStagingMoves(w) ==
    /\ pc[w] = "upload"
    /\ w \notin cancelled
    /\ \E k \in Outputs[reel[w]] : key' = [key EXCEPT ![w] = k]
    /\ staging' = staging \cup {<<reel[w], job[w]>>}
    /\ source' = source \ {reel[w]}
    /\ Goto(w, "stat")
    /\ UNCHANGED <<dbVars, final, reel, job, created, again, cancelled, passVars>>

\* normalize_video, then the upload to the attempt's own staging prefix.
UploadStaging(w) ==
    /\ pc[w] = "upload"
    /\ w \notin cancelled
    /\ \E k \in Outputs[reel[w]] : key' = [key EXCEPT ![w] = k]
    /\ staging' = staging \cup {<<reel[w], job[w]>>}
    /\ Goto(w, "stat")
    /\ UNCHANGED <<dbVars, source, final, reel, job, created, again, cancelled,
                   passVars>>

\* _publish_final asks whether the final object exists.
StatFinal(w) ==
    /\ pc[w] = "stat"
    /\ Goto(w, IF key[w] \in final THEN "verify" ELSE "copy")
    /\ UNCHANGED <<dbVars, storeVars, claimVars, cancelled, passVars>>

CopyFinal(w) ==
    /\ pc[w] = "copy"
    /\ <<reel[w], job[w]>> \in staging
    /\ final' = final \cup {key[w]}
    /\ created' = [created EXCEPT ![w] = TRUE]
    /\ Goto(w, "verify")
    /\ UNCHANGED <<dbVars, source, staging, reel, job, key, again, cancelled,
                   passVars>>

\* The copy raises, done or not; this is outside the try that compensates.
CopyFails(w) ==
    /\ pc[w] = "copy"
    /\ \/ final' = final
       \/ <<reel[w], job[w]>> \in staging /\ final' = final \cup {key[w]}
    /\ Raise(w, "finish", TRUE)
    /\ UNCHANGED <<dbVars, source, staging, cancelled, passVars>>

\* The final object is downloaded and compared; then the last cancellation
\* check, whose exception no longer passes the compensation.
VerifyFinal(w) ==
    /\ pc[w] = "verify"
    /\ key[w] \in final
    /\ IF w \in cancelled
       THEN Raise(w, "finish", TRUE)
       ELSE Goto(w, "commit") /\ UNCHANGED claimVars
    /\ UNCHANGED <<dbVars, storeVars, cancelled, passVars>>

\* Verification fails; an object this attempt created is compensated.
VerifyFails(w) ==
    /\ pc[w] = "verify"
    /\ \E retryable \in BOOLEAN :
           Raise(w, IF created[w] THEN "check" ELSE "finish", retryable)
    /\ UNCHANGED <<dbVars, storeVars, cancelled, passVars>>

\* Another Reel already owns the Video row: video_id is unique.
VideoTaken(r, k) == \E other \in Reels \ {r} : video[other] = k

Published(w) ==
    /\ OwnedRunning(w)
    /\ ~VideoTaken(reel[w], key[w])
    /\ videos' = videos \cup {key[w]}
    /\ video' = [video EXCEPT ![reel[w]] = key[w]]
    /\ status' = [status EXCEPT ![reel[w]] = "ready"]
    /\ cleanup' = [cleanup EXCEPT ![reel[w]] = TRUE]
    /\ SetRow(reel[w], job[w], Closed(MyRow(w), "completed"))
    /\ UNCHANGED collects

\* _commit_ready, in one transaction.
CommitReady(w) ==
    /\ pc[w] = "commit"
    /\ Published(w)
    /\ Goto(w, "remove")
    /\ UNCHANGED <<storeVars, claimVars, cancelled, passVars>>

\* The transaction is durable but its answer is lost: the worker sees an error.
CommitAnswerLost(w) ==
    /\ pc[w] = "commit"
    /\ Published(w)
    /\ Raise(w, "check", TRUE)
    /\ UNCHANGED <<storeVars, cancelled, passVars>>

\* Not the owner any more, the Video row taken or of another file, or the
\* database unavailable.
CommitFails(w) ==
    /\ pc[w] = "commit"
    /\ \E retryable \in BOOLEAN : Raise(w, "check", retryable)
    /\ UNCHANGED <<dbVars, storeVars, cancelled, passVars>>

\* Mutant: every object this attempt created is compensated.
CheckReferenceSkipped(w) ==
    /\ pc[w] = "check"
    /\ Goto(w, IF created[w] THEN "unpublish" ELSE "finish")
    /\ UNCHANGED <<dbVars, storeVars, claimVars, cancelled, passVars>>

\* _compensate_final_if_unreferenced reads the Video rows ...
CheckReference(w) ==
    /\ pc[w] = "check"
    /\ Goto(w, IF created[w] /\ key[w] \notin videos THEN "unpublish" ELSE "finish")
    /\ UNCHANGED <<dbVars, storeVars, claimVars, cancelled, passVars>>

\* ... and removes the object in a later step.
RemoveUnreferenced(w) ==
    /\ pc[w] = "unpublish"
    /\ final' = final \ {key[w]}
    /\ Goto(w, "finish")
    /\ UNCHANGED <<dbVars, source, staging, claimVars, cancelled, passVars>>

\* Any exception of the compensation is swallowed.
CompensationFails(w) ==
    /\ pc[w] \in {"check", "unpublish"}
    /\ Goto(w, "finish")
    /\ UNCHANGED <<dbVars, storeVars, claimVars, cancelled, passVars>>

\* _finish_failure: only the owner of the running job may close it.
FinishFailure(w) ==
    /\ pc[w] = "finish"
    /\ IF OwnedRunning(w)
       THEN /\ jobs' = [jobs EXCEPT ![reel[w]] = FailedRows(jobs[reel[w]], job[w], again[w])]
            /\ status' = [status EXCEPT ![reel[w]] = StatusAfterFailure(MyRow(w), again[w])]
       ELSE UNCHANGED <<jobs, status>>
    /\ Goto(w, "unstage")
    /\ UNCHANGED <<video, cleanup, collects, videos, storeVars, claimVars,
                   cancelled, passVars>>

\* A database error is swallowed: the job stays running until its lease expires.
FinishFailureFails(w) ==
    /\ pc[w] = "finish"
    /\ Goto(w, "unstage")
    /\ UNCHANGED <<dbVars, storeVars, claimVars, cancelled, passVars>>

\* _cleanup_source_after_commit: first the object ...
RemoveSource(w) ==
    /\ pc[w] = "remove"
    /\ source' = source \ {reel[w]}
    /\ Goto(w, "unflag")
    /\ UNCHANGED <<dbVars, staging, final, claimVars, cancelled, passVars>>

\* Mutant: every error of the removal is taken for StorageObjectNotFound.
RemoveSourceIgnored(w) ==
    /\ pc[w] = "remove"
    /\ Goto(w, "unflag")
    /\ UNCHANGED <<dbVars, storeVars, claimVars, cancelled, passVars>>

RemoveSourceFails(w) ==
    /\ pc[w] = "remove"
    /\ Goto(w, "unstage")
    /\ UNCHANGED <<dbVars, storeVars, claimVars, cancelled, passVars>>

\* ... then the flag.
ClearCleanup(w) ==
    /\ pc[w] = "unflag"
    /\ cleanup' = [cleanup EXCEPT ![reel[w]] = @ /\ status[reel[w]] # "ready"]
    /\ Goto(w, "unstage")
    /\ UNCHANGED <<status, video, collects, jobs, videos, storeVars, claimVars,
                   cancelled, passVars>>

\* Its transaction fails: run_once handles that like any other exception.
ClearCleanupFails(w) ==
    /\ pc[w] = "unflag"
    /\ Raise(w, "finish", TRUE)
    /\ UNCHANGED <<dbVars, storeVars, cancelled, passVars>>

\* The finally clause of run_once; an object it cannot remove is left behind.
CleanupStaging(w) ==
    /\ pc[w] = "unstage"
    /\ \/ staging' = staging \ {<<reel[w], job[w]>>}
       \/ staging' = staging
    /\ Goto(w, "idle")
    /\ Forget(w)
    /\ UNCHANGED <<dbVars, source, final, cancelled, passVars>>

RunOnce(w) ==
    \/ \E r \in Reels : \E i \in DOMAIN jobs[r] : Claim(w, r, i)
    \/ Exit(w)
    \/ AttemptFails(w) \/ DownloadSource(w) \/ UploadStaging(w)
    \/ StatFinal(w) \/ CopyFinal(w) \/ CopyFails(w)
    \/ VerifyFinal(w) \/ VerifyFails(w)
    \/ CommitReady(w) \/ CommitAnswerLost(w) \/ CommitFails(w)
    \/ CheckReference(w) \/ RemoveUnreferenced(w) \/ CompensationFails(w)
    \/ FinishFailure(w) \/ FinishFailureFails(w)
    \/ RemoveSource(w) \/ RemoveSourceFails(w)
    \/ ClearCleanup(w) \/ ClearCleanupFails(w)
    \/ CleanupStaging(w)

Next ==
    \/ \E r \in Reels : CommitSource(r)
    \/ \E r \in Reels : \E i \in DOMAIN jobs[r] : LeaseExpires(r, i)
    \/ \E p \in Procs : Reconcile(p) \/ Crash(p)
    \/ \E w \in Workers : RunOnce(w) \/ Cancel(w)

Spec == Init /\ [][Next]_vars
\* A started process keeps taking steps until it dies; the ones nobody kills are
\* started (docker-compose.prod.yml restarts the daemon, the operator repeats
\* `--reconcile`); leases run out; and the object store does not refuse the
\* removal of one source for ever.
Fairness ==
    /\ \A p \in Procs : WF_vars(pc[p] # "off" /\ Reconcile(p))
    /\ \A p \in Procs \ Killable : WF_vars(Start(p))
    /\ \A w \in Workers : WF_vars(RunOnce(w))
    /\ \A r \in Reels : WF_vars(\E i \in DOMAIN jobs[r] : LeaseExpires(r, i))
    /\ \A p \in Commands, r \in Reels : SF_vars(ScrubSource(p, r))

FairSpec == Spec /\ Fairness

-----------------------------------------------------------------------------
(* Properties *)

Active(row) == row.status \in {"pending", "running"}

\* The job rows of a Reel agree with its pipeline status.
RowsMatch(rows, st) ==
    /\ \A i \in DOMAIN rows : Active(rows[i]) => i = Len(rows)
    /\ st = "source_ready" <=> \E i \in DOMAIN rows : rows[i].status = "pending"
    /\ st = "normalizing" <=> \E i \in DOMAIN rows : rows[i].status = "running"

\* The two tables that claim, reconcile, _commit_ready and _finish_failure write
\* separately never disagree: a Reel has at most one job that is pending or
\* running, it is the youngest, and it is pending exactly while the Reel is
\* source_ready and running exactly while the Reel is normalizing.  So no Reel
\* is queued without a job a worker can find, and none is worked on twice.
JobsMatchReel == \A r \in Reels : RowsMatch(jobs[r], status[r])

\* Retries are bounded (ADR 011): over all workers, recoveries and failures a
\* Reel gets at most MaxAttempts jobs for each time its source was committed,
\* and a pending job always has an attempt left, so that the branch of claim()
\* that fails an exhausted job is never taken.
RetriesBounded ==
    \A r \in Reels :
        /\ Len(jobs[r]) <= MaxAttempts * collects[r]
        /\ \A i \in DOMAIN jobs[r] :
              jobs[r][i].status = "pending" => jobs[r][i].attempt < MaxAttempts

\* The source object is deleted only after the Reel is durably ready (ADR 011),
\* whichever worker or reconcile pass does it: a Reel that still has to be
\* normalized, now or by a retry, has its source.
SourceKept ==
    \A r \in Reels : status[r] \in {"source_ready", "normalizing"} => r \in source

\* source_cleanup_pending "stays true until object deletion succeeds, including
\* crash windows" (worker.py:414): a ready Reel that is not marked for cleanup
\* has no source object left.
CleanupRemembered ==
    \A r \in Reels : status[r] = "ready" /\ ~cleanup[r] => r \notin source

\* A Reel is ready exactly when it has a Video row, and no two Reels share one,
\* also when two attempts produced the same bytes.
ReadyHasOwnVideo ==
    \A r \in Reels :
        /\ status[r] = "ready" <=> video[r] # None
        /\ video[r] # None =>
              video[r] \in videos /\ \A o \in Reels \ {r} : video[o] # video[r]

\* NORMALIZATION_JOB_TRANSITIONS without pending -> failed, and staying as it is.
JobMoves ==
    {<<st, st>> : st \in JobStatuses} \cup
    {<<"pending", "running">>, <<"running", "completed">>, <<"running", "failed">>}

\* The rows `new` continue the history `old`.
Continues(old, new) ==
    /\ Len(new) >= Len(old)
    /\ \A i \in DOMAIN old : /\ <<old[i].status, new[i].status>> \in JobMoves
                              /\ old[i].attempt <= new[i].attempt

\* Job rows are a history: no step removes one, each changes only along
\* NORMALIZATION_JOB_TRANSITIONS (transitions.py), a failed or completed one
\* never changes again, and the attempt number never shrinks.  The table also
\* allows pending -> failed, which only the exhausted branch of claim() would
\* do; leaving it out says that no job fails without having been claimed.
JobHistoryKept == [][\A r \in Reels : Continues(jobs[r], jobs'[r])]_vars

\* The worker that runs the youngest job of r right now.
Owner(w, r) ==
    /\ AtJob(w, r, Len(jobs[r]))
    /\ jobs[r][Len(jobs[r])].worker = w

\* The step is one of worker w in its attempt; every such step moves it on.
Acts(w) == pc[w] \in Attempting /\ pc'[w] # pc[w]

\* The step is taken by the worker that owns the running job of r.
OwnerActs(r) == \E w \in Workers : Acts(w) /\ Owner(w, r)

MovesProperly(r) ==
    /\ status'[r] = "ready" /\ status[r] # "ready" => OwnerActs(r)
    /\ status[r] = "normalizing" /\ status'[r] # "normalizing" =>
          OwnerActs(r) \/ jobs[r][Len(jobs[r])].expired

\* An attempt that lost its job to a recovery, and perhaps to another worker,
\* changes no row any more, whatever it still commits, fails or compensates
\* (_commit_ready, _finish_failure).  A Reel becomes ready only by a step of the
\* worker that owns its running job, and leaves normalizing only by one of that
\* worker or when the lease of that job has expired.
StaleWorkerHarmless ==
    [][/\ \A w \in Workers : Acts(w) /\ ~Owner(w, reel[w]) => UNCHANGED dbVars
       /\ \A r \in Reels : MovesProperly(r)]_vars

\* The attempts made since the source of a Reel was last committed: the number
\* its youngest job carries, through every retry and recovery.
Takes == [r \in Reels |-> IF jobs[r] = <<>> THEN 0 ELSE jobs[r][Len(jobs[r])].attempt]

Life == INSTANCE ReelLife WITH state <- status, takes <- Takes, shown <- video

\* Seen from the Reel rows and the youngest jobs, workers, leases, retries,
\* crashes and reconcile passes do what ReelLife says: a Reel is taken at most
\* MaxAttempts times for each commit of its source and shown at most once, with
\* a Video row that no other Reel has.
ImplementsReelLife == Life!LifeSpec

\* Every Reel in the catalogue has its media: verify() counts the exceptions as
\* missing_ready_final_objects, and by ADR 011 a compensation removes only an
\* object without a durable reference.
ReadyHasFinal == \A r \in Reels : status[r] = "ready" => video[r] \in final

\* A Reel that was committed for normalization is eventually ready or failed.
Settles ==
    \A r \in Reels :
        status[r] \in {"source_ready", "normalizing"} ~> status[r] \in {"ready", "failed"}

\* A source that a crash or an outage left behind is eventually removed.
SourceRemoved ==
    \A r \in Reels : status[r] = "ready" /\ cleanup[r] ~> r \notin source /\ ~cleanup[r]
=============================================================================
