--------------------------- MODULE ReelLifeProofs ---------------------------
(***************************************************************************)
(* The normalizer implements ReelLife: under the mapping of Normalizer!Life*)
(* every step of a worker, a reconcile pass, the Collector, the clock or a *)
(* crash is one step of ReelLife, or changes nothing that ReelLife sees.   *)
(***************************************************************************)
EXTENDS NormalizerProofs

\* The attempts of the youngest job, 0 when there is none: Takes of one Reel.
Youngest(rows) == IF rows = <<>> THEN 0 ELSE rows[Len(rows)].attempt

LEMMA TakesAre == /\ Takes = [r \in Reels |-> Youngest(jobs[r])]
                  /\ Takes' = [r \in Reels |-> Youngest(jobs'[r])]
BY DEF Takes, Youngest

\* A sequence with a row is not empty.
LEMMA YoungestRow ==
    ASSUME NEW rows \in Seq(JobRow), NEW i \in DOMAIN rows
    PROVE  Youngest(rows) = rows[Len(rows)].attempt
<1>1. rows # <<>>
  OBVIOUS
<1> QED BY <1>1 DEF Youngest

\* Replacing a row by one of the same attempt does not count as a take ...
LEMMA YoungestReplaced ==
    ASSUME NEW rows \in Seq(JobRow), NEW i \in DOMAIN rows, NEW row \in JobRow,
           row.attempt = rows[i].attempt
    PROVE  Youngest([rows EXCEPT ![i] = row]) = Youngest(rows)
<1> DEFINE new == [rows EXCEPT ![i] = row]
<1>1. /\ new \in Seq(JobRow) /\ Len(new) = Len(rows) /\ DOMAIN new = DOMAIN rows
      /\ new[i] = row
      /\ \A j \in DOMAIN rows : j # i => new[j] = rows[j]
  BY UpdateRow
<1>2. Len(rows) \in DOMAIN rows
  BY LenProperties
<1> HIDE DEF new
<1>3. Youngest(rows) = rows[Len(rows)].attempt /\ Youngest(new) = new[Len(rows)].attempt
  BY <1>1, YoungestRow
<1>4. new[Len(rows)].attempt = rows[Len(rows)].attempt
  BY <1>1, <1>2
<1>5. Youngest(new) = Youngest(rows)
  BY <1>3, <1>4
<1> QED BY <1>5 DEF new

\* ... replacing the last row sets the attempts ...
LEMMA YoungestSet ==
    ASSUME NEW rows \in Seq(JobRow), NEW i \in DOMAIN rows, i = Len(rows), NEW row \in JobRow
    PROVE  Youngest([rows EXCEPT ![i] = row]) = row.attempt
<1> DEFINE new == [rows EXCEPT ![i] = row]
<1>1. new \in Seq(JobRow) /\ Len(new) = Len(rows) /\ DOMAIN new = DOMAIN rows /\ new[i] = row
  BY UpdateRow
<1> HIDE DEF new
<1>2. Youngest(new) = new[Len(rows)].attempt
  BY <1>1, YoungestRow
<1>3. Youngest(new) = row.attempt
  BY <1>1, <1>2
<1> QED BY <1>3 DEF new

\* ... and so does a new row.
LEMMA YoungestAppended ==
    ASSUME NEW rows \in Seq(JobRow), NEW row \in JobRow
    PROVE  Youngest(Append(rows, row)) = row.attempt
<1> DEFINE new == Append(rows, row)
<1>1. /\ new \in Seq(JobRow) /\ Len(new) = Len(rows) + 1 /\ DOMAIN new = 1 .. (Len(rows) + 1)
      /\ new[Len(rows) + 1] = row
  BY AppendRow
<1>2. Len(rows) + 1 \in DOMAIN new
  BY <1>1, LenProperties
<1> HIDE DEF new
<1>3. Youngest(new) = new[Len(rows) + 1].attempt
  BY <1>1, <1>2, YoungestRow
<1>4. Youngest(new) = row.attempt
  BY <1>1, <1>3
<1> QED BY <1>4 DEF new

\* The job that follows a failed one carries its attempts on.
LEMMA YoungestFailed ==
    ASSUME NEW rows \in Seq(JobRow), NEW i \in DOMAIN rows, i = Len(rows), NEW b \in BOOLEAN
    PROVE  Youngest(FailedRows(rows, i, b)) = Youngest(rows) /\ Youngest(rows) = rows[i].attempt
<1> DEFINE new == FailedRows(rows, i, b)
<1>1. /\ new \in Seq(JobRow) /\ Len(new) >= Len(rows)
      /\ new[i] = Closed(rows[i], "failed")
      /\ \A j \in DOMAIN rows : j \in DOMAIN new
      /\ Retries(rows[i], b) =>
            Len(new) = Len(rows) + 1 /\ new[Len(new)] = PendingJob(rows[i].attempt)
      /\ ~Retries(rows[i], b) => Len(new) = Len(rows)
  BY FailedRowsType
<1>r. rows[i] \in JobRow
  BY ElementOfSeq, LenProperties
<1>2. rows[i] \in JobRow /\ rows[i].attempt \in Nat
  BY <1>r DEF JobRow
<1>3. /\ Closed(rows[i], "failed").attempt = rows[i].attempt
      /\ PendingJob(rows[i].attempt).attempt = rows[i].attempt
  BY <1>2, ClosedType, PendingJobType
<1> HIDE DEF new
<1>4. Youngest(new) = new[Len(new)].attempt /\ Youngest(rows) = rows[i].attempt
  BY <1>1, YoungestRow
<1>5. new[Len(new)].attempt = rows[i].attempt
  BY <1>1, <1>3
<1>6. Youngest(new) = Youngest(rows) /\ Youngest(rows) = rows[i].attempt
  BY <1>4, <1>5
<1> QED BY <1>6 DEF new

-----------------------------------------------------------------------------
(* The steps *)

\* A step that replaces one job row by one of the same attempt takes nothing.
LEMMA SetRowTakes ==
    ASSUME TypeInv, NEW r \in Reels, NEW i \in DOMAIN jobs[r], NEW row \in JobRow,
           row.attempt = jobs[r][i].attempt, SetRow(r, i, row)
    PROVE  Takes' = Takes
<1>0. jobs \in [Reels -> Seq(JobRow)]
  BY DEF TypeInv, TypeOK
<1>1. /\ jobs'[r] = [jobs[r] EXCEPT ![i] = row]
      /\ \A q \in Reels : q # r => jobs'[q] = jobs[q]
  BY <1>0, SetRowType
<1>2. Youngest(jobs'[r]) = Youngest(jobs[r])
  BY <1>0, <1>1, YoungestReplaced
<1>3. \A q \in Reels : Youngest(jobs'[q]) = Youngest(jobs[q])
  BY <1>1, <1>2
<1> QED BY <1>3, TakesAre

\* A failed job gives its Reel back.
LEMMA FailedLeaves ==
    ASSUME TypeInv, JobInv, NEW r \in Reels, NEW i \in DOMAIN jobs[r],
           jobs[r][i].status = "running", NEW b \in BOOLEAN,
           jobs'[r] = FailedRows(jobs[r], i, b),
           status'[r] = StatusAfterFailure(jobs[r][i], b)
    PROVE  /\ Youngest(jobs'[r]) = Youngest(jobs[r])
           /\ Life!Leaves(r, status'[r])
           /\ status'[r] \in {"source_ready", "failed"}
<1>1. status[r] = "normalizing" /\ i = Len(jobs[r])
  BY RunningIsLast
<1>2. jobs[r] \in Seq(JobRow)
  BY DEF TypeInv, TypeOK
<1>3. Youngest(jobs'[r]) = Youngest(jobs[r]) /\ Youngest(jobs[r]) = jobs[r][i].attempt
  BY <1>1, <1>2, YoungestFailed
<1>4. Takes[r] = jobs[r][i].attempt
  BY <1>3, TakesAre
<1>5. /\ status'[r] \in {"source_ready", "failed"}
      /\ status'[r] = "source_ready" => Takes[r] < MaxAttempts
  BY <1>4 DEF StatusAfterFailure, Retries
<1> QED BY <1>1, <1>3, <1>5 DEF Life!Leaves

\* Steps that fail jobs are GiveBack steps.
LEMMA GivesBack ==
    ASSUME TypeInv, status' \in [Reels -> ReelStatuses], video' = video,
           \A r \in Reels :
               \/ status'[r] = status[r] /\ Youngest(jobs'[r]) = Youngest(jobs[r])
               \/ Life!Leaves(r, status'[r]) /\ Youngest(jobs'[r]) = Youngest(jobs[r])
    PROVE  Life!LifeNext
<1>1. Takes' = Takes
  BY TakesAre
<1>2. status' \in [Reels -> Life!States]
  BY DEF ReelStatuses, Life!States
<1>3. Life!GiveBack(status')
  BY <1>1 DEF Life!GiveBack
<1> QED BY <1>2, <1>3 DEF Life!LifeNext
\* The source of a Reel is committed: the new job starts the takes from 0.
LEMMA CommitSourceLife ==
    ASSUME TypeInv, NEW r \in Reels, CommitSource(r)
    PROVE  Life!Commit(r)
<1>0. jobs \in [Reels -> Seq(JobRow)]
  BY DEF TypeInv, TypeOK
<1>1. jobs' = [jobs EXCEPT ![r] = Append(jobs[r], PendingJob(0))]
  BY DEF CommitSource
<1>2. Youngest(Append(jobs[r], PendingJob(0))) = 0
  BY <1>0, PendingJobType, YoungestAppended
<1>3. Youngest(jobs'[r]) = 0 /\ \A q \in Reels : q # r => Youngest(jobs'[q]) = Youngest(jobs[q])
  BY <1>0, <1>1, <1>2
<1>4. Takes' = [Takes EXCEPT ![r] = 0]
  BY <1>3, TakesAre
<1> QED BY <1>4 DEF CommitSource, Life!Commit

\* A claim takes the Reel; its exhausted branch is never taken.
LEMMA ClaimLife ==
    ASSUME TypeInv, JobInv, NEW w \in Workers, NEW r \in Reels, NEW i \in DOMAIN jobs[r],
           Claim(w, r, i)
    PROVE  Life!Take(r)
<1>0. jobs \in [Reels -> Seq(JobRow)]
  BY DEF TypeInv, TypeOK
<1>1. jobs[r][i] \in JobRow /\ jobs[r][i].status = "pending" /\ jobs[r][i].attempt \in Nat
  BY RowType DEF TypeInv, Claim, Claimable
<1>2. jobs[r][i].attempt < MaxAttempts
  BY <1>1 DEF JobInv, AttemptsLeft
<1>3. ~(jobs[r][i].attempt + 1 > MaxAttempts)
  BY <1>1, <1>2, ConstantsAssumption
<1>4. /\ SetRow(r, i, ClaimedRow(jobs[r][i], w))
      /\ status' = [status EXCEPT ![r] = "normalizing"] /\ video' = video
  BY <1>3 DEF Claim
<1>5. status[r] = "source_ready" /\ i = Len(jobs[r])
  BY <1>1, PendingIsLast
<1> PICK row \in JobRow : row = ClaimedRow(jobs[r][i], w) /\ row.attempt = jobs[r][i].attempt + 1
  BY <1>1, ClaimedRowType
<1>6. /\ jobs'[r] = [jobs[r] EXCEPT ![i] = row]
      /\ \A q \in Reels : q # r => jobs'[q] = jobs[q]
  BY <1>0, <1>4, SetRowType
<1>7. Youngest(jobs'[r]) = jobs[r][i].attempt + 1
  <2>1. jobs[r] \in Seq(JobRow)
    BY <1>0
  <2>2. Youngest([jobs[r] EXCEPT ![i] = row]) = row.attempt
    BY <1>5, <2>1, YoungestSet, Zenon
  <2>3. row.attempt = jobs[r][i].attempt + 1
    OBVIOUS
  <2> QED BY <1>6, <2>2, <2>3, Zenon
<1>8. Youngest(jobs[r]) = jobs[r][i].attempt
  BY <1>0, <1>5, YoungestRow
<1>a. Takes[r] = jobs[r][i].attempt
  BY <1>8, TakesAre
<1>b. /\ Youngest(jobs'[r]) = Takes[r] + 1
      /\ \A q \in Reels : q # r => Youngest(jobs'[q]) = Youngest(jobs[q])
  BY <1>6, <1>7, <1>a
<1>9. Takes[r] = jobs[r][i].attempt /\ Takes' = [Takes EXCEPT ![r] = Takes[r] + 1]
  BY <1>a, <1>b, TakesAre
<1> QED BY <1>2, <1>4, <1>5, <1>9 DEF Life!Take

\* A published Reel is shown, with a key that no Reel is shown with.
LEMMA PublishedLife ==
    ASSUME TypeInv, JobInv, ReadyHasOwnVideo, NEW w \in Workers, pc[w] = "commit", Published(w)
    PROVE  reel[w] \in Reels /\ key[w] \in Keys /\ Life!Show(reel[w], key[w])
<1>1. reel[w] \in Reels /\ job[w] \in DOMAIN jobs[reel[w]] /\ key[w] \in Keys
  BY DEF TypeInv, HoldsJob, HoldsOutput, HasOutput, Attempting
<1>2. MyRow(w) \in JobRow /\ MyRow(w).status = "running"
  BY <1>1, RowType DEF TypeInv, Published, OwnedRunning, MyRow
<1>3. status[reel[w]] = "normalizing"
  BY <1>1, <1>2, RunningIsLast DEF MyRow
<1>4. \A other \in Reels : video[other] # key[w]
  <2>1. video[reel[w]] = None
    BY <1>1, <1>3 DEF ReadyHasOwnVideo
  <2>2. key[w] # None
    BY <1>1, ConstantsAssumption
  <2> QED BY <2>1, <2>2 DEF Published, VideoTaken
<1>5. Takes' = Takes
  <2>1. /\ Closed(MyRow(w), "completed") \in JobRow
        /\ Closed(MyRow(w), "completed").attempt = MyRow(w).attempt
    BY <1>2, ClosedType
  <2>2. SetRow(reel[w], job[w], Closed(MyRow(w), "completed"))
    BY DEF Published
  <2> QED BY <1>1, <2>1, <2>2, SetRowTakes DEF MyRow
<1>6. /\ status' = [status EXCEPT ![reel[w]] = "ready"]
      /\ video' = [video EXCEPT ![reel[w]] = key[w]]
  BY DEF Published
<1> QED BY <1>1, <1>3, <1>4, <1>5, <1>6 DEF Life!Show

\* A lease that runs out is not seen by the Reel.
LEMMA LeaseLife ==
    ASSUME TypeInv, NEW r \in Reels, NEW i \in DOMAIN jobs[r], LeaseExpires(r, i)
    PROVE  UNCHANGED Life!lifeVars
<1>1. jobs[r][i] \in JobRow
  BY RowType DEF TypeInv
<1>2. /\ LeaseOver(jobs[r][i]) \in JobRow
      /\ LeaseOver(jobs[r][i]).attempt = jobs[r][i].attempt
  BY <1>1, LeaseOverType
<1>3. Takes' = Takes
  BY <1>2, SetRowTakes DEF LeaseExpires
<1> QED BY <1>3 DEF LeaseExpires, reelVars, Life!lifeVars

\* A recovery gives back every Reel whose job is stale, in one step.
LEMMA RecoverLife ==
    ASSUME TypeInv, JobInv, NEW p \in Procs, Recover(p), status' \in [Reels -> ReelStatuses]
    PROVE  Life!LifeNext
<1>1. ASSUME NEW r \in Reels, IsStale(r)
      PROVE  Life!Leaves(r, status'[r]) /\ Youngest(jobs'[r]) = Youngest(jobs[r])
  <2>1. StaleNo(r) \in DOMAIN jobs[r] /\ jobs[r][StaleNo(r)].status = "running"
    BY <1>1, StaleIsRunning
  <2>2. /\ jobs'[r] = FailedRows(jobs[r], StaleNo(r), TRUE)
        /\ status'[r] = StatusAfterFailure(jobs[r][StaleNo(r)], TRUE)
    BY <1>1 DEF Recover
  <2> QED BY <2>1, <2>2, FailedLeaves
<1>2. ASSUME NEW r \in Reels, ~IsStale(r)
      PROVE  status'[r] = status[r] /\ Youngest(jobs'[r]) = Youngest(jobs[r])
  BY <1>2 DEF Recover
<1>3. video' = video
  BY DEF Recover
<1> QED BY <1>1, <1>2, <1>3, GivesBack

\* A worker that still owns its job gives its Reel back; another changes nothing.
LEMMA FinishFailureLife ==
    ASSUME TypeInv, JobInv, NEW w \in Workers, FinishFailure(w), status' \in [Reels -> ReelStatuses]
    PROVE  Life!LifeNext
<1>0. jobs \in [Reels -> Seq(JobRow)] /\ status \in [Reels -> ReelStatuses]
  BY DEF TypeInv, TypeOK
<1>1. reel[w] \in Reels /\ job[w] \in DOMAIN jobs[reel[w]] /\ again[w] \in BOOLEAN
  BY DEF FinishFailure, TypeInv, TypeOK, HoldsJob, Attempting, Procs
<1>2. video' = video
  BY DEF FinishFailure
<1>3. CASE ~OwnedRunning(w)
  <2>1. UNCHANGED <<jobs, status>>
    BY <1>3 DEF FinishFailure
  <2> QED BY <1>2, <2>1, GivesBack
<1>4. CASE OwnedRunning(w)
  <2>1. /\ jobs' = [jobs EXCEPT ![reel[w]] = FailedRows(jobs[reel[w]], job[w], again[w])]
        /\ status' = [status EXCEPT ![reel[w]] = StatusAfterFailure(MyRow(w), again[w])]
        /\ jobs[reel[w]][job[w]].status = "running"
    BY <1>4 DEF FinishFailure, OwnedRunning, MyRow
  <2> PICK r \in Reels : r = reel[w]
    BY <1>1
  <2>2. /\ jobs'[r] = FailedRows(jobs[r], job[w], again[w])
        /\ status'[r] = StatusAfterFailure(jobs[r][job[w]], again[w])
    BY <1>0, <2>1 DEF MyRow
  <2>3. Life!Leaves(r, status'[r]) /\ Youngest(jobs'[r]) = Youngest(jobs[r])
    BY <1>1, <2>1, <2>2, FailedLeaves
  <2>4. \A q \in Reels : q # r => status'[q] = status[q] /\ jobs'[q] = jobs[q]
    BY <1>0, <2>1
  <2> QED BY <1>2, <2>3, <2>4, GivesBack
<1> QED BY <1>3, <1>4

\* Every step of the normalizer is a step of ReelLife or is not seen by it.
LEMMA StepLife ==
    ASSUME TypeInv, JobInv, ReadyHasOwnVideo, [Next]_vars, TypeInv'
    PROVE  [Life!LifeNext]_(Life!lifeVars)
<1>0. status' \in [Reels -> ReelStatuses]
  BY DEF TypeInv, TypeOK
<1>1. ASSUME NEW r \in Reels, CommitSource(r)
      PROVE  Life!LifeNext
  BY <1>1, CommitSourceLife DEF Life!LifeNext
<1>2. ASSUME NEW r \in Reels, NEW i \in DOMAIN jobs[r], LeaseExpires(r, i)
      PROVE  UNCHANGED Life!lifeVars
  BY <1>2, LeaseLife
<1>3. ASSUME NEW p \in Procs, Recover(p)
      PROVE  Life!LifeNext
  BY <1>0, <1>3, RecoverLife
<1>4. ASSUME NEW w \in Workers, NEW r \in Reels, NEW i \in DOMAIN jobs[r], Claim(w, r, i)
      PROVE  Life!LifeNext
  BY <1>4, ClaimLife DEF Life!LifeNext
<1>5. ASSUME NEW w \in Workers, pc[w] = "commit", Published(w)
      PROVE  Life!LifeNext
  BY <1>5, PublishedLife DEF Life!LifeNext
<1>6. ASSUME NEW w \in Workers, FinishFailure(w)
      PROVE  Life!LifeNext
  BY <1>0, <1>6, FinishFailureLife
<1>7. CASE UNCHANGED <<status, jobs, video>>
  <2>1. Takes' = Takes
    BY <1>7, TakesAre
  <2> QED BY <1>7, <2>1 DEF Life!lifeVars
<1> QED
  BY <1>1, <1>2, <1>3, <1>4, <1>5, <1>6, <1>7
  DEF Next, Reconcile, RunOnce, vars, dbVars, Cancel, Crash, Start,
      SweepStaging, ScanCleanup, ScrubSource, SkipSource, ClearScrubbed, Reconciled,
      Exit, AttemptFails, DownloadSource, UploadStaging, StatFinal, CopyFinal, CopyFails,
      VerifyFinal, VerifyFails, CommitReady, CommitAnswerLost, CommitFails,
      CheckReference, RemoveUnreferenced, CompensationFails, FinishFailureFails,
      RemoveSource, RemoveSourceFails, ClearCleanup, ClearCleanupFails, CleanupStaging

LEMMA InitLife == Init => Life!LifeInit
<1> SUFFICES ASSUME Init PROVE Life!LifeInit
  OBVIOUS
<1>1. Takes = [r \in Reels |-> 0]
  BY DEF Init, Takes
<1> QED BY <1>1 DEF Init, Life!LifeInit

\* The refinement: for every number of workers, crashes, expired leases and
\* reconcile passes, what worker.py does to the Reel rows and their youngest jobs
\* is a behaviour of ReelLife: at most MaxAttempts takes for each commit of the
\* source, and one Video row of its own for each Reel that is shown.
THEOREM NormalizerImplementsReelLife == Spec => ImplementsReelLife
<1>1. Inv /\ Inv' /\ [Next]_vars => [Life!LifeNext]_(Life!lifeVars)
  BY StepLife DEF Inv
<1> QED BY <1>1, InitLife, Invariance, PTL DEF Spec, ImplementsReelLife, Life!LifeSpec
=============================================================================
