-------------------------- MODULE NormalizerProofs --------------------------
(***************************************************************************)
(* Proofs about the normalizer, for every set of Reels, keys and processes *)
(* and every number of attempts.                                           *)
(***************************************************************************)
EXTENDS Normalizer, SequenceTheorems, TLAPS

-----------------------------------------------------------------------------
(* Facts about job rows *)

LEMMA PendingJobType ==
    ASSUME NEW n \in Nat
    PROVE  /\ PendingJob(n) \in JobRow
           /\ PendingJob(n).status = "pending" /\ PendingJob(n).attempt = n
BY DEF PendingJob, JobRow, JobStatuses

LEMMA ClosedType ==
    ASSUME NEW row \in JobRow, NEW st \in {"completed", "failed"}
    PROVE  /\ Closed(row, st) \in JobRow
           /\ Closed(row, st).status = st /\ Closed(row, st).attempt = row.attempt
BY DEF Closed, JobRow, JobStatuses

LEMMA LeaseOverType ==
    ASSUME NEW row \in JobRow
    PROVE  /\ LeaseOver(row) \in JobRow
           /\ LeaseOver(row).status = row.status /\ LeaseOver(row).attempt = row.attempt
BY DEF LeaseOver, JobRow

LEMMA ClaimedRowType ==
    ASSUME NEW row \in JobRow, NEW w \in Workers
    PROVE  /\ ClaimedRow(row, w) \in JobRow
           /\ ClaimedRow(row, w).status = "running"
           /\ ClaimedRow(row, w).attempt = row.attempt + 1
BY DEF ClaimedRow, JobRow, JobStatuses

\* Replacing row i keeps the length and the other rows.
LEMMA UpdateRow ==
    ASSUME NEW rows \in Seq(JobRow), NEW i \in DOMAIN rows, NEW row \in JobRow
    PROVE  LET new == [rows EXCEPT ![i] = row]
           IN  /\ new \in Seq(JobRow)
               /\ Len(new) = Len(rows)
               /\ DOMAIN new = DOMAIN rows
               /\ new[i] = row
               /\ \A j \in DOMAIN rows : j # i => new[j] = rows[j]
BY ExceptSeq

LEMMA AppendRow ==
    ASSUME NEW rows \in Seq(JobRow), NEW row \in JobRow
    PROVE  LET new == Append(rows, row)
           IN  /\ new \in Seq(JobRow)
               /\ Len(new) = Len(rows) + 1
               /\ DOMAIN new = 1 .. (Len(rows) + 1)
               /\ new[Len(rows) + 1] = row
               /\ \A j \in DOMAIN rows : new[j] = rows[j]
BY AppendProperties

\* Replacing a row of one Reel keeps the type of all rows and their number.
LEMMA SetRowType ==
    ASSUME jobs \in [Reels -> Seq(JobRow)], NEW r \in Reels, NEW i \in DOMAIN jobs[r],
           NEW row \in JobRow, SetRow(r, i, row)
    PROVE  /\ jobs' \in [Reels -> Seq(JobRow)]
           /\ jobs'[r] = [jobs[r] EXCEPT ![i] = row]
           /\ jobs'[r][i] = row
           /\ \A q \in Reels : Len(jobs'[q]) = Len(jobs[q]) /\ DOMAIN jobs'[q] = DOMAIN jobs[q]
           /\ \A q \in Reels : q # r => jobs'[q] = jobs[q]
           /\ \A j \in DOMAIN jobs[r] : j # i => jobs'[r][j] = jobs[r][j]
<1> DEFINE new == [jobs[r] EXCEPT ![i] = row]
<1>1. /\ new \in Seq(JobRow) /\ Len(new) = Len(jobs[r]) /\ DOMAIN new = DOMAIN jobs[r]
      /\ new[i] = row /\ \A j \in DOMAIN jobs[r] : j # i => new[j] = jobs[r][j]
  BY UpdateRow
<1>2. jobs' = [jobs EXCEPT ![r] = new]
  BY DEF SetRow
<1> HIDE DEF new
<1>3. jobs'[r] = new /\ \A q \in Reels : q # r => jobs'[q] = jobs[q]
  BY <1>2
<1>4. jobs' \in [Reels -> Seq(JobRow)]
  BY <1>1, <1>2
<1> QED BY <1>1, <1>3, <1>4 DEF new

\* What FailedRows makes of the rows of a Reel.
LEMMA FailedRowsType ==
    ASSUME NEW rows \in Seq(JobRow), NEW i \in DOMAIN rows, NEW b \in BOOLEAN
    PROVE  LET new == FailedRows(rows, i, b)
           IN  /\ new \in Seq(JobRow)
               /\ Len(new) >= Len(rows)
               /\ new[i] = Closed(rows[i], "failed")
               /\ \A j \in DOMAIN rows : j \in DOMAIN new /\ (j # i => new[j] = rows[j])
               /\ Retries(rows[i], b) =>
                     /\ Len(new) = Len(rows) + 1
                     /\ new[Len(new)] = PendingJob(rows[i].attempt)
               /\ ~Retries(rows[i], b) => Len(new) = Len(rows)
<1>0. DOMAIN rows = 1 .. Len(rows) /\ Len(rows) \in Nat
  BY LenProperties
<1>a. rows[i] \in JobRow
  BY <1>0, ElementOfSeq
<1>1. rows[i].attempt \in Nat
  BY <1>a DEF JobRow
<1>2. Closed(rows[i], "failed") \in JobRow
  BY <1>a, ClosedType
<1>3. PendingJob(rows[i].attempt) \in JobRow
  BY <1>1, PendingJobType
<1> DEFINE closed == [rows EXCEPT ![i] = Closed(rows[i], "failed")]
<1>4. /\ closed \in Seq(JobRow) /\ Len(closed) = Len(rows) /\ DOMAIN closed = DOMAIN rows
      /\ closed[i] = Closed(rows[i], "failed")
      /\ \A j \in DOMAIN rows : j # i => closed[j] = rows[j]
  BY <1>2, UpdateRow
<1> HIDE DEF closed
<1>6. CASE Retries(rows[i], b)
  <2> DEFINE new == Append(closed, PendingJob(rows[i].attempt))
  <2>1. FailedRows(rows, i, b) = new
    BY <1>6 DEF FailedRows, closed
  <2>2. /\ new \in Seq(JobRow) /\ Len(new) = Len(closed) + 1
        /\ DOMAIN new = 1 .. (Len(closed) + 1)
        /\ new[Len(closed) + 1] = PendingJob(rows[i].attempt)
        /\ \A j \in DOMAIN closed : new[j] = closed[j]
    BY <1>3, <1>4, AppendRow
  <2> HIDE DEF new
  <2> QED BY <1>0, <1>4, <1>6, <2>1, <2>2
<1>7. CASE ~Retries(rows[i], b)
  <2>1. FailedRows(rows, i, b) = closed
    BY <1>7 DEF FailedRows, closed
  <2>2. Len(closed) >= Len(rows)
    BY <1>0, <1>4
  <2>3. \A j \in DOMAIN rows : j \in DOMAIN closed
    BY <1>4
  <2> QED BY <1>4, <1>7, <2>1, <2>2, <2>3, Zenon
<1> QED BY <1>6, <1>7
\* The one active row may take any status, if the Reel's status follows it.
LEMMA ReplaceActive ==
    ASSUME NEW rows \in Seq(JobRow), NEW st, RowsMatch(rows, st),
           NEW i \in DOMAIN rows, Active(rows[i]),
           NEW row \in JobRow, NEW st2,
           st2 = "source_ready" <=> row.status = "pending",
           st2 = "normalizing" <=> row.status = "running"
    PROVE  RowsMatch([rows EXCEPT ![i] = row], st2)
<1> DEFINE new == [rows EXCEPT ![i] = row]
<1>1. /\ DOMAIN new = DOMAIN rows /\ Len(new) = Len(rows) /\ new[i] = row
      /\ \A j \in DOMAIN rows : j # i => new[j] = rows[j]
  BY UpdateRow
<1>2. i = Len(rows) /\ \A j \in DOMAIN rows : j # i => ~Active(rows[j])
  BY DEF RowsMatch
<1>3. \A j \in DOMAIN rows : j # i => /\ rows[j].status # "pending"
                                      /\ rows[j].status # "running"
  BY <1>2 DEF Active
<1> HIDE DEF new
<1>4. \A j \in DOMAIN new : Active(new[j]) => j = Len(new)
  BY <1>1, <1>2
<1>5. (\E j \in DOMAIN new : new[j].status = "pending") <=> row.status = "pending"
  BY <1>1, <1>3
<1>6. (\E j \in DOMAIN new : new[j].status = "running") <=> row.status = "running"
  BY <1>1, <1>3
<1>7. RowsMatch(new, st2)
  BY <1>4, <1>5, <1>6 DEF RowsMatch
<1> QED BY <1>7 DEF new

\* A Reel without an active job may get a pending one.
LEMMA AppendPending ==
    ASSUME NEW rows \in Seq(JobRow), NEW st, RowsMatch(rows, st),
           st # "source_ready", st # "normalizing", NEW n \in Nat
    PROVE  RowsMatch(Append(rows, PendingJob(n)), "source_ready")
<1> DEFINE new == Append(rows, PendingJob(n))
<1>0. Len(rows) \in Nat /\ DOMAIN rows = 1 .. Len(rows)
  BY LenProperties
<1>1. PendingJob(n) \in JobRow /\ PendingJob(n).status = "pending"
  BY PendingJobType
<1>2. /\ DOMAIN new = 1 .. (Len(rows) + 1) /\ Len(new) = Len(rows) + 1
      /\ new[Len(rows) + 1] = PendingJob(n)
      /\ \A j \in DOMAIN rows : new[j] = rows[j]
  BY <1>1, AppendRow
<1>3. \A j \in DOMAIN rows : rows[j].status # "pending" /\ rows[j].status # "running"
  BY DEF RowsMatch
<1> HIDE DEF new
<1>4. \A j \in DOMAIN new : j # Len(new) =>
          new[j].status # "pending" /\ new[j].status # "running"
  BY <1>0, <1>2, <1>3
<1>5. Len(new) \in DOMAIN new /\ new[Len(new)].status = "pending"
  BY <1>0, <1>1, <1>2
<1>6. new[Len(new)].status # "running"
  BY <1>5
<1>7. RowsMatch(new, "source_ready")
  BY <1>4, <1>5, <1>6 DEF RowsMatch, Active
<1> QED BY <1>7 DEF new

\* Failing the running job leaves rows and status matching.
LEMMA FailedRowsMatch ==
    ASSUME NEW rows \in Seq(JobRow), NEW st, RowsMatch(rows, st),
           NEW i \in DOMAIN rows, rows[i].status = "running", NEW b \in BOOLEAN
    PROVE  RowsMatch(FailedRows(rows, i, b), StatusAfterFailure(rows[i], b))
<1>0. DOMAIN rows = 1 .. Len(rows)
  BY LenProperties
<1>1. rows[i] \in JobRow
  BY <1>0, ElementOfSeq
<1>2. rows[i].attempt \in Nat
  BY <1>1 DEF JobRow
<1>3. /\ Closed(rows[i], "failed") \in JobRow
      /\ Closed(rows[i], "failed").status = "failed"
  BY <1>1, ClosedType
<1> DEFINE closed == [rows EXCEPT ![i] = Closed(rows[i], "failed")]
<1>4. RowsMatch(closed, "failed")
  BY <1>3, ReplaceActive DEF Active
<1>5. closed \in Seq(JobRow)
  BY <1>3, UpdateRow
<1>6. CASE Retries(rows[i], b)
  <2>1. RowsMatch(Append(closed, PendingJob(rows[i].attempt)), "source_ready")
    BY <1>2, <1>4, <1>5, AppendPending
  <2> QED BY <1>6, <2>1 DEF FailedRows, StatusAfterFailure
<1>7. CASE ~Retries(rows[i], b)
  BY <1>4, <1>7 DEF FailedRows, StatusAfterFailure
<1> QED BY <1>6, <1>7
-----------------------------------------------------------------------------
(* Types, and what a process holds at each of its labels *)

HasOutput == {"stat", "copy", "verify", "commit", "check", "unpublish"}

HoldsJob ==
    \A w \in Workers :
        pc[w] \in Attempting \cup Closing =>
            reel[w] \in Reels /\ job[w] \in DOMAIN jobs[reel[w]]

HoldsOutput == \A w \in Workers : pc[w] \in HasOutput => key[w] \in Keys

HoldsReel == \A p \in Procs : pc[p] = "scrubbed" => reel[p] \in Reels

TypeInv == TypeOK /\ HoldsJob /\ HoldsOutput /\ HoldsReel

LEMMA RowType ==
    ASSUME TypeOK, NEW r \in Reels, NEW i \in DOMAIN jobs[r]
    PROVE  /\ jobs[r] \in Seq(JobRow) /\ jobs[r][i] \in JobRow
           /\ jobs[r][i].attempt \in Nat /\ jobs[r][i].status \in JobStatuses
           /\ i \in Nat
<1>1. jobs[r] \in Seq(JobRow)
  BY DEF TypeOK
<1>2. DOMAIN jobs[r] = 1 .. Len(jobs[r]) /\ Len(jobs[r]) \in Nat
  BY <1>1, LenProperties
<1>3. jobs[r][i] \in JobRow
  BY <1>1, <1>2, ElementOfSeq
<1> QED BY <1>1, <1>2, <1>3 DEF JobRow

LEMMA InitTypeInv == Init => TypeInv
<1> SUFFICES ASSUME Init PROVE TypeInv
  OBVIOUS
<1>1. <<>> \in Seq(JobRow)
  BY EmptySeq
<1>2. TypeOK
  BY <1>1, ConstantsAssumption
     DEF Init, TypeOK, ReelStatuses, Labels, Procs
<1>3. HoldsJob /\ HoldsOutput /\ HoldsReel
  BY DEF Init, HoldsJob, HoldsOutput, HoldsReel, HasOutput, Attempting, Closing, Procs
<1> QED BY <1>2, <1>3 DEF TypeInv

\* Whatever a step does to the rows of a Reel, it keeps their type and their
\* number does not shrink.
LEMMA JobsGrow ==
    ASSUME TypeInv, [Next]_vars
    PROVE  /\ jobs' \in [Reels -> Seq(JobRow)]
           /\ \A r \in Reels : DOMAIN jobs[r] \subseteq DOMAIN jobs'[r]
<1> USE DEF TypeInv
<1>0. jobs \in [Reels -> Seq(JobRow)]
  BY DEF TypeOK
<1>1. ASSUME NEW r \in Reels, CommitSource(r)
      PROVE  /\ jobs' \in [Reels -> Seq(JobRow)]
             /\ \A q \in Reels : DOMAIN jobs[q] \subseteq DOMAIN jobs'[q]
  <2>1. PendingJob(0) \in JobRow
    BY PendingJobType
  <2>2. /\ Append(jobs[r], PendingJob(0)) \in Seq(JobRow)
        /\ DOMAIN jobs[r] \subseteq DOMAIN Append(jobs[r], PendingJob(0))
    BY <1>0, <2>1, AppendRow, LenProperties
  <2> QED BY <1>0, <1>1, <2>2 DEF CommitSource
<1>2. ASSUME NEW r \in Reels, NEW i \in DOMAIN jobs[r], LeaseExpires(r, i)
      PROVE  /\ jobs' \in [Reels -> Seq(JobRow)]
             /\ \A q \in Reels : DOMAIN jobs[q] \subseteq DOMAIN jobs'[q]
  <2>1. LeaseOver(jobs[r][i]) \in JobRow
    BY RowType, LeaseOverType
  <2> QED BY <1>0, <1>2, <2>1, SetRowType DEF LeaseExpires
<1>3. ASSUME NEW p \in Procs, Recover(p)
      PROVE  /\ jobs' \in [Reels -> Seq(JobRow)]
             /\ \A q \in Reels : DOMAIN jobs[q] \subseteq DOMAIN jobs'[q]
  <2>1. ASSUME NEW r \in Reels, IsStale(r)
        PROVE  StaleNo(r) \in DOMAIN jobs[r]
    BY <2>1 DEF IsStale, StaleNo
  <2>2. ASSUME NEW r \in Reels, IsStale(r)
        PROVE  /\ FailedRows(jobs[r], StaleNo(r), TRUE) \in Seq(JobRow)
               /\ DOMAIN jobs[r] \subseteq DOMAIN FailedRows(jobs[r], StaleNo(r), TRUE)
    BY <1>0, <2>1, <2>2, FailedRowsType
  <2> QED BY <1>0, <1>3, <2>2 DEF Recover
<1>4. ASSUME NEW w \in Workers, NEW r \in Reels, NEW i \in DOMAIN jobs[r], Claim(w, r, i)
      PROVE  /\ jobs' \in [Reels -> Seq(JobRow)]
             /\ \A q \in Reels : DOMAIN jobs[q] \subseteq DOMAIN jobs'[q]
  <2>1. Closed(jobs[r][i], "failed") \in JobRow /\ ClaimedRow(jobs[r][i], w) \in JobRow
    BY RowType, ClosedType, ClaimedRowType
  <2> QED BY <1>0, <1>4, <2>1, SetRowType DEF Claim
<1>5. ASSUME NEW w \in Workers, pc[w] = "commit", Published(w)
      PROVE  /\ jobs' \in [Reels -> Seq(JobRow)]
             /\ \A q \in Reels : DOMAIN jobs[q] \subseteq DOMAIN jobs'[q]
  <2>1. reel[w] \in Reels /\ job[w] \in DOMAIN jobs[reel[w]]
    BY <1>5 DEF HoldsJob, Attempting
  <2>2. Closed(jobs[reel[w]][job[w]], "completed") \in JobRow
    BY <2>1, RowType, ClosedType
  <2> QED BY <1>0, <1>5, <2>1, <2>2, SetRowType DEF Published, MyRow
<1>6. ASSUME NEW w \in Workers, FinishFailure(w)
      PROVE  /\ jobs' \in [Reels -> Seq(JobRow)]
             /\ \A q \in Reels : DOMAIN jobs[q] \subseteq DOMAIN jobs'[q]
  <2>1. reel[w] \in Reels /\ job[w] \in DOMAIN jobs[reel[w]] /\ again[w] \in BOOLEAN
    BY <1>6 DEF FinishFailure, HoldsJob, Attempting, TypeOK, Procs
  <2>2. /\ FailedRows(jobs[reel[w]], job[w], again[w]) \in Seq(JobRow)
        /\ DOMAIN jobs[reel[w]] \subseteq DOMAIN FailedRows(jobs[reel[w]], job[w], again[w])
    BY <1>0, <2>1, FailedRowsType
  <2> QED BY <1>0, <1>6, <2>1, <2>2 DEF FinishFailure
<1>7. CASE UNCHANGED jobs
  BY <1>0, <1>7
<1> QED
  BY <1>1, <1>2, <1>3, <1>4, <1>5, <1>6, <1>7
  DEF Next, Reconcile, RunOnce, vars, dbVars, storeVars, Cancel, Crash, Start,
      SweepStaging, ScanCleanup, ScrubSource, SkipSource, ClearScrubbed, Reconciled,
      Exit, AttemptFails, DownloadSource, UploadStaging, StatFinal, CopyFinal, CopyFails,
      VerifyFinal, VerifyFails, CommitReady, CommitAnswerLost, CommitFails,
      CheckReference, RemoveUnreferenced, CompensationFails, FinishFailureFails,
      RemoveSource, RemoveSourceFails, ClearCleanup, ClearCleanupFails, CleanupStaging

\* Every step keeps the types and what its process holds.
LEMMA StepTypeInv ==
    ASSUME TypeInv, [Next]_vars
    PROVE  TypeInv'
<1> USE DEF TypeInv
<1>0. /\ jobs' \in [Reels -> Seq(JobRow)]
      /\ \A r \in Reels : DOMAIN jobs[r] \subseteq DOMAIN jobs'[r]
  BY JobsGrow
<1> USE DEF TypeOK, HoldsJob, HoldsOutput, HoldsReel, HasOutput, Attempting, Closing, Procs, Goto
<1>1. ASSUME NEW r \in Reels, CommitSource(r)
      PROVE  TypeInv'
  BY <1>0, <1>1 DEF CommitSource, passVars, claimVars, ReelStatuses
<1>2. ASSUME NEW r \in Reels, NEW i \in DOMAIN jobs[r], LeaseExpires(r, i)
      PROVE  TypeInv'
  BY <1>0, <1>2 DEF LeaseExpires, storeVars, passVars, claimVars, reelVars
<1>3. ASSUME NEW p \in Procs, Start(p)
      PROVE  TypeInv'
  BY <1>0, <1>3 DEF Start, dbVars, storeVars, passVars, claimVars, Labels, Reconciling
<1>4. ASSUME NEW p \in Procs, Recover(p)
      PROVE  TypeInv'
  <2>1. \A r \in Reels : DOMAIN jobs[r] \subseteq Nat
    BY RowType
  <2>2. StaleJobs \subseteq Reels \X Nat
    BY <2>1 DEF StaleJobs
  <2>3. status' \in [Reels -> ReelStatuses]
    BY <1>4 DEF Recover, ReelStatuses, StatusAfterFailure
  <2> QED BY <1>0, <1>4, <2>2, <2>3
          DEF Recover, storeVars, claimVars, Labels, Reconciling
<1>5. ASSUME NEW p \in Procs, SweepStaging(p)
      PROVE  TypeInv'
  BY <1>0, <1>5 DEF SweepStaging, dbVars, claimVars, Labels, Reconciling
<1>6. ASSUME NEW p \in Procs, ScanCleanup(p)
      PROVE  TypeInv'
  BY <1>0, <1>6 DEF ScanCleanup, dbVars, storeVars, claimVars, CleanupPending, Labels, Reconciling
<1>7. ASSUME NEW p \in Procs, ClearScrubbed(p)
      PROVE  TypeInv'
  BY <1>0, <1>7 DEF ClearScrubbed, storeVars, Forget, Labels, Reconciling
<1>8. ASSUME NEW p \in Procs, Reconciled(p)
      PROVE  TypeInv'
  BY <1>0, <1>8 DEF Reconciled, dbVars, storeVars, passVars, claimVars, Labels
<1>9. ASSUME NEW p \in Procs, Crash(p)
      PROVE  TypeInv'
  BY <1>0, <1>9 DEF Crash, dbVars, storeVars, Forget, Labels
<1>10. ASSUME NEW p \in Procs, NEW r \in Reels, ScrubSource(p, r)
      PROVE  TypeInv'
  BY <1>0, <1>10 DEF ScrubSource, dbVars, passVars, Labels, Reconciling
<1>11. ASSUME NEW p \in Procs, NEW r \in Reels, SkipSource(p, r)
      PROVE  TypeInv'
  BY <1>0, <1>11 DEF SkipSource, dbVars, storeVars, claimVars
<1>12. ASSUME NEW w \in Workers, NEW r \in Reels, NEW i \in DOMAIN jobs[r], Claim(w, r, i)
      PROVE  TypeInv'
  <2>1. i \in Nat
    BY RowType
  <2>2. CASE jobs[r][i].attempt + 1 > MaxAttempts
    BY <1>0, <1>12, <2>2 DEF Claim, storeVars, passVars, ReelStatuses
  <2>3. CASE ~(jobs[r][i].attempt + 1 > MaxAttempts)
    <3>1. /\ pc' = [pc EXCEPT ![w] = "download"] /\ reel' = [reel EXCEPT ![w] = r]
          /\ job' = [job EXCEPT ![w] = i] /\ status' = [status EXCEPT ![r] = "normalizing"]
          /\ UNCHANGED <<video, cleanup, collects, videos, source, staging, final, key,
                          created, again, cancelled, stale, todo>>
      BY <1>12, <2>3 DEF Claim, storeVars, passVars
    <3>2. TypeOK'
      BY <1>0, <2>1, <3>1 DEF ReelStatuses, Labels
    <3>3. HoldsJob'
      BY <1>0, <3>1
    <3>4. HoldsOutput' /\ HoldsReel'
      BY <3>1
    <3> QED BY <3>2, <3>3, <3>4
  <2> QED BY <2>2, <2>3
<1>13. ASSUME NEW w \in Workers, Cancel(w)
      PROVE  TypeInv'
  BY <1>0, <1>13 DEF Cancel, dbVars, storeVars, passVars, claimVars
<1>14. ASSUME NEW w \in Workers, Exit(w)
      PROVE  TypeInv'
  BY <1>0, <1>14 DEF Exit, dbVars, storeVars, passVars, claimVars, Labels
<1>15. ASSUME NEW w \in Workers, AttemptFails(w)
      PROVE  TypeInv'
  BY <1>0, <1>15 DEF AttemptFails, dbVars, storeVars, passVars, Raise, Labels
<1>16. ASSUME NEW w \in Workers, DownloadSource(w)
      PROVE  TypeInv'
  BY <1>0, <1>16 DEF DownloadSource, dbVars, storeVars, passVars, claimVars, Labels
<1>17. ASSUME NEW w \in Workers, UploadStaging(w)
      PROVE  TypeInv'
  BY <1>0, <1>17, ConstantsAssumption DEF UploadStaging, dbVars, passVars, Labels
<1>18. ASSUME NEW w \in Workers, StatFinal(w)
      PROVE  TypeInv'
  BY <1>0, <1>18 DEF StatFinal, dbVars, storeVars, passVars, claimVars, Labels
<1>19. ASSUME NEW w \in Workers, CopyFinal(w)
      PROVE  TypeInv'
  BY <1>0, <1>19 DEF CopyFinal, dbVars, passVars, Labels
<1>20. ASSUME NEW w \in Workers, CopyFails(w)
      PROVE  TypeInv'
  BY <1>0, <1>20 DEF CopyFails, dbVars, passVars, Raise, Labels
<1>21. ASSUME NEW w \in Workers, VerifyFinal(w)
      PROVE  TypeInv'
  BY <1>0, <1>21 DEF VerifyFinal, dbVars, storeVars, passVars, claimVars, Raise, Labels
<1>22. ASSUME NEW w \in Workers, VerifyFails(w)
      PROVE  TypeInv'
  BY <1>0, <1>22 DEF VerifyFails, dbVars, storeVars, passVars, Raise, Labels
<1>23. ASSUME NEW w \in Workers, CommitReady(w)
      PROVE  TypeInv'
  BY <1>0, <1>23 DEF CommitReady, storeVars, passVars, claimVars, Published, ReelStatuses, Labels
<1>24. ASSUME NEW w \in Workers, CommitAnswerLost(w)
      PROVE  TypeInv'
  BY <1>0, <1>24 DEF CommitAnswerLost, storeVars, passVars, Raise, Published, ReelStatuses, Labels
<1>25. ASSUME NEW w \in Workers, CommitFails(w)
      PROVE  TypeInv'
  BY <1>0, <1>25 DEF CommitFails, dbVars, storeVars, passVars, Raise, Labels
<1>26. ASSUME NEW w \in Workers, CheckReference(w)
      PROVE  TypeInv'
  BY <1>0, <1>26 DEF CheckReference, dbVars, storeVars, passVars, claimVars, Labels
<1>27. ASSUME NEW w \in Workers, RemoveUnreferenced(w)
      PROVE  TypeInv'
  BY <1>0, <1>27 DEF RemoveUnreferenced, dbVars, passVars, claimVars, Labels
<1>28. ASSUME NEW w \in Workers, CompensationFails(w)
      PROVE  TypeInv'
  BY <1>0, <1>28 DEF CompensationFails, dbVars, storeVars, passVars, claimVars, Labels
<1>29. ASSUME NEW w \in Workers, FinishFailure(w)
      PROVE  TypeInv'
  BY <1>0, <1>29, RowType DEF FinishFailure, storeVars, passVars, claimVars, StatusAfterFailure, ReelStatuses, Labels
<1>30. ASSUME NEW w \in Workers, FinishFailureFails(w)
      PROVE  TypeInv'
  BY <1>0, <1>30 DEF FinishFailureFails, dbVars, storeVars, passVars, claimVars, Labels
<1>31. ASSUME NEW w \in Workers, RemoveSource(w)
      PROVE  TypeInv'
  BY <1>0, <1>31 DEF RemoveSource, dbVars, passVars, claimVars, Labels
<1>32. ASSUME NEW w \in Workers, RemoveSourceFails(w)
      PROVE  TypeInv'
  BY <1>0, <1>32 DEF RemoveSourceFails, dbVars, storeVars, passVars, claimVars, Labels
<1>33. ASSUME NEW w \in Workers, ClearCleanup(w)
      PROVE  TypeInv'
  BY <1>0, <1>33 DEF ClearCleanup, storeVars, passVars, claimVars, Labels
<1>34. ASSUME NEW w \in Workers, ClearCleanupFails(w)
      PROVE  TypeInv'
  BY <1>0, <1>34 DEF ClearCleanupFails, dbVars, storeVars, passVars, Raise, Labels
<1>35. ASSUME NEW w \in Workers, CleanupStaging(w)
      PROVE  TypeInv'
  BY <1>0, <1>35 DEF CleanupStaging, dbVars, passVars, Forget, Labels
<1>36. CASE UNCHANGED vars
  BY <1>0, <1>36 DEF vars
<1> QED
  BY <1>1, <1>2, <1>3, <1>4, <1>5, <1>6, <1>7, <1>8, <1>9, <1>10, <1>11, <1>12, <1>13, <1>14, <1>15, <1>16, <1>17, <1>18, <1>19, <1>20, <1>21, <1>22, <1>23, <1>24, <1>25, <1>26, <1>27, <1>28, <1>29, <1>30, <1>31, <1>32, <1>33, <1>34, <1>35, <1>36
  DEF Next, Reconcile, RunOnce

-----------------------------------------------------------------------------
(* Jobs and Reels agree *)

\* No row uses more than MaxAttempts attempts, a pending one has one left.
AttemptsLeft ==
    \A r \in Reels : \A i \in DOMAIN jobs[r] :
        /\ jobs[r][i].attempt <= MaxAttempts
        /\ jobs[r][i].status = "pending" => jobs[r][i].attempt < MaxAttempts

JobInv == JobsMatchReel /\ AttemptsLeft

\* The active row of a Reel is its only one and its last one.
LEMMA RunningIsLast ==
    ASSUME JobInv, NEW r \in Reels, NEW i \in DOMAIN jobs[r], jobs[r][i].status = "running"
    PROVE  status[r] = "normalizing" /\ i = Len(jobs[r])
BY DEF JobInv, JobsMatchReel, RowsMatch, Active

LEMMA PendingIsLast ==
    ASSUME JobInv, NEW r \in Reels, NEW i \in DOMAIN jobs[r], jobs[r][i].status = "pending"
    PROVE  status[r] = "source_ready" /\ i = Len(jobs[r])
BY DEF JobInv, JobsMatchReel, RowsMatch, Active

LEMMA StaleIsRunning ==
    ASSUME NEW r \in Reels, IsStale(r)
    PROVE  StaleNo(r) \in DOMAIN jobs[r] /\ jobs[r][StaleNo(r)].status = "running"
BY DEF IsStale, StaleNo, StaleJob

\* A failed job, and the pending one that may follow it, use no attempt.
LEMMA FailedRowsAttempts ==
    ASSUME NEW rows \in Seq(JobRow), NEW i \in DOMAIN rows, NEW b \in BOOLEAN,
           \A j \in DOMAIN rows :
               /\ rows[j].attempt <= MaxAttempts
               /\ rows[j].status = "pending" => rows[j].attempt < MaxAttempts
    PROVE  \A j \in DOMAIN FailedRows(rows, i, b) :
               /\ FailedRows(rows, i, b)[j].attempt <= MaxAttempts
               /\ FailedRows(rows, i, b)[j].status = "pending" =>
                     FailedRows(rows, i, b)[j].attempt < MaxAttempts
<1> DEFINE new == FailedRows(rows, i, b)
<1>0. DOMAIN rows = 1 .. Len(rows) /\ Len(rows) \in Nat
  BY LenProperties
<1>1. rows[i] \in JobRow
  BY <1>0, ElementOfSeq
<1>2. rows[i].attempt \in Nat
  BY <1>1 DEF JobRow
<1>3. /\ Closed(rows[i], "failed").status = "failed"
      /\ Closed(rows[i], "failed").attempt = rows[i].attempt
  BY <1>1, ClosedType
<1>4. PendingJob(rows[i].attempt).attempt = rows[i].attempt
  BY <1>2, PendingJobType
<1>5. /\ new \in Seq(JobRow)
      /\ new[i] = Closed(rows[i], "failed")
      /\ \A j \in DOMAIN rows : j \in DOMAIN new /\ (j # i => new[j] = rows[j])
      /\ Retries(rows[i], b) => /\ Len(new) = Len(rows) + 1
                                /\ new[Len(new)] = PendingJob(rows[i].attempt)
      /\ ~Retries(rows[i], b) => Len(new) = Len(rows)
  BY FailedRowsType
<1>6. DOMAIN new = 1 .. Len(new)
  BY <1>5, LenProperties
<1> HIDE DEF new
<1>7. \A j \in DOMAIN rows : /\ new[j].attempt <= MaxAttempts
                             /\ new[j].status = "pending" => new[j].attempt < MaxAttempts
  BY <1>3, <1>5
<1>8. \A j \in DOMAIN new :
          \/ j \in DOMAIN rows
          \/ new[j] = PendingJob(rows[i].attempt) /\ rows[i].attempt < MaxAttempts
  <2>1. CASE Retries(rows[i], b)
    <3>1. rows[i].attempt < MaxAttempts
      BY <2>1 DEF Retries
    <3> QED BY <1>0, <1>5, <1>6, <2>1, <3>1
  <2>2. CASE ~Retries(rows[i], b)
    <3>1. Len(new) = Len(rows)
      BY <1>5, <2>2
    <3> QED BY <1>0, <1>6, <3>1
  <2> QED BY <2>1, <2>2
<1>9. ASSUME NEW j \in DOMAIN new
      PROVE  /\ new[j].attempt <= MaxAttempts
             /\ new[j].status = "pending" => new[j].attempt < MaxAttempts
  <2>1. CASE j \in DOMAIN rows
    BY <1>7, <2>1
  <2>2. CASE new[j] = PendingJob(rows[i].attempt) /\ rows[i].attempt < MaxAttempts
    <3>1. new[j].attempt = rows[i].attempt
      BY <1>4, <2>2
    <3> QED BY <1>2, <2>2, <3>1, ConstantsAssumption
  <2> QED BY <1>8, <2>1, <2>2
<1> QED BY <1>9 DEF new

\* It is enough to look at the rows of the Reels that a step touches.
LEMMA JobInvFromRows ==
    ASSUME \A r \in Reels : RowsMatch(jobs'[r], status'[r]),
           \A r \in Reels : \A i \in DOMAIN jobs'[r] :
               /\ jobs'[r][i].attempt <= MaxAttempts
               /\ jobs'[r][i].status = "pending" => jobs'[r][i].attempt < MaxAttempts
    PROVE  JobInv'
BY DEF JobInv, JobsMatchReel, AttemptsLeft

\* Replacing the active row of one Reel by a row of another status.
LEMMA SetRowJobInv ==
    ASSUME TypeInv, JobInv, NEW r \in Reels, NEW i \in DOMAIN jobs[r], Active(jobs[r][i]),
           NEW row \in JobRow, SetRow(r, i, row), NEW st,
           status' = [status EXCEPT ![r] = st],
           st = "source_ready" <=> row.status = "pending",
           st = "normalizing" <=> row.status = "running",
           row.attempt <= MaxAttempts, row.status # "pending"
    PROVE  JobInv'
<1>1. jobs \in [Reels -> Seq(JobRow)] /\ status \in [Reels -> ReelStatuses]
  BY DEF TypeInv, TypeOK
<1>2. /\ jobs'[r] = [jobs[r] EXCEPT ![i] = row] /\ jobs'[r][i] = row
      /\ \A q \in Reels : DOMAIN jobs'[q] = DOMAIN jobs[q]
      /\ \A q \in Reels : q # r => jobs'[q] = jobs[q]
      /\ \A j \in DOMAIN jobs[r] : j # i => jobs'[r][j] = jobs[r][j]
  BY <1>1, SetRowType
<1>3. RowsMatch(jobs'[r], st)
  <2>1. RowsMatch(jobs[r], status[r])
    BY DEF JobInv, JobsMatchReel
  <2>2. RowsMatch([jobs[r] EXCEPT ![i] = row], st)
    BY <1>1, <2>1, ReplaceActive
  <2> QED BY <1>2, <2>2
<1>4. \A q \in Reels : RowsMatch(jobs'[q], status'[q])
  BY <1>1, <1>2, <1>3 DEF JobInv, JobsMatchReel
<1>5. \A q \in Reels : \A j \in DOMAIN jobs'[q] :
          /\ jobs'[q][j].attempt <= MaxAttempts
          /\ jobs'[q][j].status = "pending" => jobs'[q][j].attempt < MaxAttempts
  BY <1>2 DEF JobInv, AttemptsLeft
<1> QED BY <1>4, <1>5, JobInvFromRows

LEMMA InitJobInv == Init => JobInv
<1> SUFFICES ASSUME Init PROVE JobInv
  OBVIOUS
<1>1. \A r \in Reels : jobs[r] = <<>> /\ status[r] = "discovered"
  BY DEF Init
<1>2. DOMAIN <<>> = {}
  OBVIOUS
<1> QED BY <1>1, <1>2 DEF JobInv, JobsMatchReel, RowsMatch, AttemptsLeft

LEMMA StepJobInv ==
    ASSUME TypeInv, JobInv, [Next]_vars
    PROVE  JobInv'
<1>0. jobs \in [Reels -> Seq(JobRow)] /\ status \in [Reels -> ReelStatuses]
  BY DEF TypeInv, TypeOK
<1>m. \A r \in Reels : RowsMatch(jobs[r], status[r])
  BY DEF JobInv, JobsMatchReel
<1>a. \A r \in Reels : \A i \in DOMAIN jobs[r] :
          /\ jobs[r][i].attempt <= MaxAttempts
          /\ jobs[r][i].status = "pending" => jobs[r][i].attempt < MaxAttempts
  BY DEF JobInv, AttemptsLeft
<1>1. ASSUME NEW r \in Reels, CommitSource(r)
      PROVE  JobInv'
  <2> DEFINE new == Append(jobs[r], PendingJob(0))
  <2>1. /\ jobs'[r] = new /\ \A q \in Reels : q # r => jobs'[q] = jobs[q]
        /\ status'[r] = "source_ready" /\ \A q \in Reels : q # r => status'[q] = status[q]
        /\ status[r] # "source_ready" /\ status[r] # "normalizing"
    BY <1>0, <1>1 DEF CommitSource
  <2>2. RowsMatch(new, "source_ready")
    BY <1>0, <1>m, <2>1, AppendPending
  <2>3. /\ PendingJob(0) \in JobRow /\ PendingJob(0).attempt = 0
    BY PendingJobType
  <2>4. DOMAIN jobs[r] = 1 .. Len(jobs[r]) /\ Len(jobs[r]) \in Nat
    BY <1>0, LenProperties
  <2>5. /\ DOMAIN new = 1 .. (Len(jobs[r]) + 1) /\ new[Len(jobs[r]) + 1] = PendingJob(0)
        /\ \A j \in DOMAIN jobs[r] : new[j] = jobs[r][j]
    BY <1>0, <2>3, AppendRow
  <2> HIDE DEF new
  <2>6. \A j \in DOMAIN new : /\ new[j].attempt <= MaxAttempts
                              /\ new[j].status = "pending" => new[j].attempt < MaxAttempts
    BY <1>a, <2>3, <2>4, <2>5, ConstantsAssumption
  <2> QED BY <1>m, <1>a, <2>1, <2>2, <2>6, JobInvFromRows
<1>2. ASSUME NEW r \in Reels, NEW i \in DOMAIN jobs[r], LeaseExpires(r, i)
      PROVE  JobInv'
  <2>1. jobs[r][i] \in JobRow /\ jobs[r][i].status = "running"
    BY <1>2, RowType DEF TypeInv, LeaseExpires
  <2>2. /\ LeaseOver(jobs[r][i]) \in JobRow
        /\ LeaseOver(jobs[r][i]).status = "running"
        /\ LeaseOver(jobs[r][i]).attempt = jobs[r][i].attempt
    BY <2>1, LeaseOverType
  <2>3. status[r] = "normalizing"
    BY <2>1, RunningIsLast
  <2>4. status' = [status EXCEPT ![r] = "normalizing"]
    BY <1>0, <1>2, <2>3 DEF LeaseExpires, reelVars
  <2>5. SetRow(r, i, LeaseOver(jobs[r][i])) /\ Active(jobs[r][i])
    BY <1>2, <2>1 DEF LeaseExpires, Active
  <2> QED BY <1>a, <2>2, <2>4, <2>5, SetRowJobInv
<1>3. ASSUME NEW p \in Procs, Recover(p)
      PROVE  JobInv'
  <2>1. ASSUME NEW r \in Reels
        PROVE  /\ RowsMatch(jobs'[r], status'[r])
               /\ \A i \in DOMAIN jobs'[r] :
                     /\ jobs'[r][i].attempt <= MaxAttempts
                     /\ jobs'[r][i].status = "pending" => jobs'[r][i].attempt < MaxAttempts
    <3>1. CASE IsStale(r)
      <4>1. /\ jobs'[r] = FailedRows(jobs[r], StaleNo(r), TRUE)
            /\ status'[r] = StatusAfterFailure(jobs[r][StaleNo(r)], TRUE)
        BY <1>3, <3>1 DEF Recover
      <4>2. StaleNo(r) \in DOMAIN jobs[r] /\ jobs[r][StaleNo(r)].status = "running"
        BY <3>1, StaleIsRunning
      <4>3. jobs[r] \in Seq(JobRow) /\ RowsMatch(jobs[r], status[r])
        BY <1>0, <1>m
      <4>4. RowsMatch(jobs'[r], status'[r])
        BY <4>1, <4>2, <4>3, FailedRowsMatch
      <4> QED BY <1>a, <4>1, <4>2, <4>3, <4>4, FailedRowsAttempts
    <3>2. CASE ~IsStale(r)
      BY <1>3, <1>m, <1>a, <3>2 DEF Recover
    <3> QED BY <3>1, <3>2
  <2> QED BY <2>1, JobInvFromRows
<1>4. ASSUME NEW w \in Workers, NEW r \in Reels, NEW i \in DOMAIN jobs[r], Claim(w, r, i)
      PROVE  JobInv'
  <2>1. jobs[r][i] \in JobRow /\ jobs[r][i].status = "pending" /\ jobs[r][i].attempt \in Nat
    BY <1>4, RowType DEF TypeInv, Claim, Claimable
  <2>2. ~(jobs[r][i].attempt + 1 > MaxAttempts)
    BY <1>a, <2>1, ConstantsAssumption
  <2>3. /\ SetRow(r, i, ClaimedRow(jobs[r][i], w))
        /\ status' = [status EXCEPT ![r] = "normalizing"]
    BY <1>4, <2>2 DEF Claim
  <2>4. /\ ClaimedRow(jobs[r][i], w) \in JobRow
        /\ ClaimedRow(jobs[r][i], w).status = "running"
        /\ ClaimedRow(jobs[r][i], w).attempt = jobs[r][i].attempt + 1
    BY <2>1, ClaimedRowType
  <2>5. ClaimedRow(jobs[r][i], w).attempt <= MaxAttempts
    BY <2>1, <2>2, <2>4, ConstantsAssumption
  <2>6. Active(jobs[r][i])
    BY <2>1 DEF Active
  <2> QED BY <2>3, <2>4, <2>5, <2>6, SetRowJobInv
<1>5. ASSUME NEW w \in Workers, pc[w] = "commit", Published(w)
      PROVE  JobInv'
  <2>1. reel[w] \in Reels /\ job[w] \in DOMAIN jobs[reel[w]]
    BY <1>5 DEF TypeInv, HoldsJob, Attempting
  <2>2. MyRow(w) \in JobRow /\ MyRow(w).status = "running"
    BY <1>5, <2>1, RowType DEF TypeInv, Published, OwnedRunning, MyRow
  <2>3. /\ Closed(MyRow(w), "completed") \in JobRow
        /\ Closed(MyRow(w), "completed").status = "completed"
        /\ Closed(MyRow(w), "completed").attempt = MyRow(w).attempt
    BY <2>2, ClosedType
  <2>4. /\ SetRow(reel[w], job[w], Closed(MyRow(w), "completed"))
        /\ status' = [status EXCEPT ![reel[w]] = "ready"]
    BY <1>5 DEF Published
  <2>5. Active(jobs[reel[w]][job[w]]) /\ Closed(MyRow(w), "completed").attempt <= MaxAttempts
    BY <1>a, <2>1, <2>2, <2>3 DEF Active, MyRow
  <2> QED BY <2>1, <2>3, <2>4, <2>5, SetRowJobInv
<1>6. ASSUME NEW w \in Workers, FinishFailure(w)
      PROVE  JobInv'
  <2>1. reel[w] \in Reels /\ job[w] \in DOMAIN jobs[reel[w]] /\ again[w] \in BOOLEAN
    BY <1>6 DEF FinishFailure, TypeInv, TypeOK, HoldsJob, Attempting, Procs
  <2>2. CASE OwnedRunning(w)
    <3> DEFINE r == reel[w]
               new == FailedRows(jobs[r], job[w], again[w])
    <3>1. /\ jobs' = [jobs EXCEPT ![r] = new]
          /\ status' = [status EXCEPT ![r] = StatusAfterFailure(jobs[r][job[w]], again[w])]
          /\ jobs[r][job[w]].status = "running"
      BY <1>6, <2>2 DEF FinishFailure, OwnedRunning, MyRow
    <3>2. jobs[r] \in Seq(JobRow) /\ RowsMatch(jobs[r], status[r])
      BY <1>0, <1>m, <2>1
    <3>3. RowsMatch(new, StatusAfterFailure(jobs[r][job[w]], again[w]))
      BY <2>1, <3>1, <3>2, FailedRowsMatch
    <3>4. \A j \in DOMAIN new : /\ new[j].attempt <= MaxAttempts
                                /\ new[j].status = "pending" => new[j].attempt < MaxAttempts
      BY <1>a, <2>1, <3>2, FailedRowsAttempts
    <3> HIDE DEF new, r
    <3>5. r \in Reels
      BY <2>1 DEF r
    <3> QED BY <1>0, <1>m, <1>a, <3>1, <3>3, <3>4, <3>5, JobInvFromRows
  <2>3. CASE ~OwnedRunning(w)
    BY <1>6, <1>m, <1>a, <2>3, JobInvFromRows DEF FinishFailure
  <2> QED BY <2>2, <2>3
<1>7. CASE UNCHANGED <<jobs, status>>
  BY <1>m, <1>a, <1>7, JobInvFromRows
<1> QED
  BY <1>1, <1>2, <1>3, <1>4, <1>5, <1>6, <1>7
  DEF Next, Reconcile, RunOnce, vars, dbVars, Cancel, Crash, Start,
      SweepStaging, ScanCleanup, ScrubSource, SkipSource, ClearScrubbed, Reconciled,
      Exit, AttemptFails, DownloadSource, UploadStaging, StatFinal, CopyFinal, CopyFails,
      VerifyFinal, VerifyFails, CommitReady, CommitAnswerLost, CommitFails,
      CheckReference, RemoveUnreferenced, CompensationFails, FinishFailureFails,
      RemoveSource, RemoveSourceFails, ClearCleanup, ClearCleanupFails, CleanupStaging

-----------------------------------------------------------------------------
(* The source object and its cleanup flag *)

\* A step moves a Reel only along these pairs; "ready" is left by no step.
StatusStep(old, new) ==
    \/ new = old
    \/ old \in {"discovered", "failed"} /\ new = "source_ready"
    \/ old = "source_ready" /\ new = "normalizing"
    \/ old = "normalizing" /\ new \in {"source_ready", "failed", "ready"}

\* A recovery or a failure moves only Reels that were being normalized.
LEMMA FailingMoves ==
    ASSUME TypeInv, JobInv,
           (\E p \in Procs : Recover(p)) \/ (\E w \in Workers : FinishFailure(w))
    PROVE  \A r \in Reels : status'[r] # status[r] =>
               status[r] = "normalizing" /\ status'[r] # "ready"
<1>0. status \in [Reels -> ReelStatuses]
  BY DEF TypeInv, TypeOK
<1>1. ASSUME NEW p \in Procs, Recover(p), NEW r \in Reels, status'[r] # status[r]
      PROVE  status[r] = "normalizing" /\ status'[r] # "ready"
  <2>1. IsStale(r)
    BY <1>1 DEF Recover
  <2>2. status[r] = "normalizing"
    BY <2>1, StaleIsRunning, RunningIsLast
  <2> QED BY <1>1, <2>1, <2>2 DEF Recover, StatusAfterFailure
<1>2. ASSUME NEW w \in Workers, FinishFailure(w), NEW r \in Reels, status'[r] # status[r]
      PROVE  status[r] = "normalizing" /\ status'[r] # "ready"
  <2>1. reel[w] \in Reels /\ job[w] \in DOMAIN jobs[reel[w]]
    BY <1>2 DEF FinishFailure, TypeInv, HoldsJob, Attempting
  <2>2. /\ OwnedRunning(w) /\ r = reel[w]
        /\ status'[r] = StatusAfterFailure(MyRow(w), again[w])
    BY <1>0, <1>2, <2>1 DEF FinishFailure
  <2>3. status[r] = "normalizing"
    BY <2>1, <2>2, RunningIsLast DEF OwnedRunning, MyRow
  <2> QED BY <2>2, <2>3 DEF StatusAfterFailure
<1> QED BY <1>1, <1>2

LEMMA StatusMoves ==
    ASSUME TypeInv, JobInv, [Next]_vars
    PROVE  \A r \in Reels : StatusStep(status[r], status'[r])
<1>0. status \in [Reels -> ReelStatuses]
  BY DEF TypeInv, TypeOK
<1>1. ASSUME NEW q \in Reels, CommitSource(q)
      PROVE  \A r \in Reels : StatusStep(status[r], status'[r])
  BY <1>0, <1>1 DEF CommitSource, StatusStep
<1>2. ASSUME NEW p \in Procs, Recover(p)
      PROVE  \A r \in Reels : StatusStep(status[r], status'[r])
  <2>1. \A r \in Reels : status'[r] \in {status[r], "source_ready", "failed"}
    BY <1>2 DEF Recover, StatusAfterFailure
  <2> QED BY <1>2, <2>1, FailingMoves DEF StatusStep
<1>3. ASSUME NEW w \in Workers, NEW q \in Reels, NEW i \in DOMAIN jobs[q], Claim(w, q, i)
      PROVE  \A r \in Reels : StatusStep(status[r], status'[r])
  <2>1. /\ jobs[q][i].status = "pending" /\ jobs[q][i].attempt \in Nat
        /\ status[q] = "source_ready"
    BY <1>3, RowType DEF TypeInv, Claim, Claimable
  <2>2. ~(jobs[q][i].attempt + 1 > MaxAttempts)
    BY <2>1, ConstantsAssumption DEF JobInv, AttemptsLeft
  <2> QED BY <1>0, <1>3, <2>1, <2>2 DEF Claim, StatusStep
<1>4. ASSUME NEW w \in Workers, pc[w] = "commit", Published(w)
      PROVE  \A r \in Reels : StatusStep(status[r], status'[r])
  <2>1. reel[w] \in Reels /\ job[w] \in DOMAIN jobs[reel[w]]
    BY <1>4 DEF TypeInv, HoldsJob, Attempting
  <2>2. status[reel[w]] = "normalizing"
    BY <1>4, <2>1, RunningIsLast DEF Published, OwnedRunning, MyRow
  <2> QED BY <1>0, <1>4, <2>1, <2>2 DEF Published, StatusStep
<1>5. ASSUME NEW w \in Workers, FinishFailure(w)
      PROVE  \A r \in Reels : StatusStep(status[r], status'[r])
  <2>1. \A r \in Reels : status'[r] \in {status[r], "source_ready", "failed"}
    BY <1>0, <1>5 DEF FinishFailure, StatusAfterFailure
  <2> QED BY <1>5, <2>1, FailingMoves DEF StatusStep
<1>6. CASE UNCHANGED status
  BY <1>6 DEF StatusStep
<1> QED
  BY <1>1, <1>2, <1>3, <1>4, <1>5, <1>6
  DEF LeaseExpires, reelVars, Next, Reconcile, RunOnce, vars, dbVars, Cancel, Crash, Start,
      SweepStaging, ScanCleanup, ScrubSource, SkipSource, ClearScrubbed, Reconciled,
      Exit, AttemptFails, DownloadSource, UploadStaging, StatFinal, CopyFinal, CopyFails,
      VerifyFinal, VerifyFails, CommitReady, CommitAnswerLost, CommitFails,
      CheckReference, RemoveUnreferenced, CompensationFails, FinishFailureFails,
      RemoveSource, RemoveSourceFails, ClearCleanup, ClearCleanupFails, CleanupStaging

\* Why a reader of the flag may trust it: whoever is about to remove a source
\* object, or has just removed it, works on a Reel that is already ready.
Removing ==
    /\ \A w \in Workers : pc[w] \in {"remove", "unflag"} => status[reel[w]] = "ready"
    /\ \A w \in Workers : pc[w] = "unflag" => reel[w] \notin source
    /\ \A p \in Procs : \A r \in todo[p] : status[r] = "ready"
    /\ \A p \in Procs : pc[p] = "scrubbed" => status[reel[p]] = "ready" /\ reel[p] \notin source

SourceInv == SourceKept /\ CleanupRemembered /\ Removing

LEMMA InitSourceInv == Init => SourceInv
BY DEF Init, SourceInv, SourceKept, CleanupRemembered, Removing, Procs

LEMMA StepSourceInv ==
    ASSUME TypeInv, JobInv, SourceInv, [Next]_vars
    PROVE  SourceInv'
<1>0. \A r \in Reels : StatusStep(status[r], status'[r])
  BY StatusMoves
<1>t. /\ status \in [Reels -> ReelStatuses] /\ source \subseteq Reels
      /\ cleanup \in [Reels -> BOOLEAN] /\ pc \in [Procs -> Labels]
      /\ reel \in [Procs -> Reels \cup {None}] /\ todo \in [Procs -> SUBSET Reels]
  BY DEF TypeInv, TypeOK
<1>h. /\ \A w \in Workers : pc[w] \in {"commit", "remove", "unflag"} => reel[w] \in Reels
      /\ \A p \in Procs : pc[p] = "scrubbed" => reel[p] \in Reels
  BY DEF TypeInv, HoldsJob, HoldsReel, Attempting, Closing
<1>w. Workers \subseteq Procs
  BY DEF Procs
<1> USE DEF SourceInv, SourceKept, CleanupRemembered, Removing, StatusStep
<1>1. ASSUME NEW r \in Reels, CommitSource(r)
      PROVE  SourceInv'
  BY <1>0, <1>t, <1>h, <1>w, <1>1 DEF CommitSource, claimVars, passVars
<1>2. ASSUME NEW r \in Reels, NEW i \in DOMAIN jobs[r], LeaseExpires(r, i)
      PROVE  SourceInv'
  BY <1>0, <1>t, <1>h, <1>w, <1>2 DEF LeaseExpires, storeVars, passVars, claimVars, reelVars
<1>3. ASSUME NEW p \in Procs, Start(p)
      PROVE  SourceInv'
  BY <1>0, <1>t, <1>h, <1>w, <1>3 DEF Start, dbVars, storeVars, passVars, claimVars, Goto
<1>4. ASSUME NEW p \in Procs, Recover(p)
      PROVE  SourceInv'
  <2>1. \A r \in Reels : status'[r] # status[r] =>
            status[r] = "normalizing" /\ status'[r] # "ready"
    BY <1>4, FailingMoves
  <2>2. /\ UNCHANGED <<source, cleanup, reel, todo>>
        /\ pc' = [pc EXCEPT ![p] = "sweep"]
    BY <1>4 DEF Recover, storeVars, claimVars, Goto
  <2> QED BY <1>t, <1>h, <1>w, <2>1, <2>2
<1>5. ASSUME NEW p \in Procs, SweepStaging(p)
      PROVE  SourceInv'
  BY <1>0, <1>t, <1>h, <1>w, <1>5 DEF SweepStaging, dbVars, claimVars, Goto
<1>6. ASSUME NEW p \in Procs, ScanCleanup(p)
      PROVE  SourceInv'
  BY <1>0, <1>t, <1>h, <1>w, <1>6 DEF ScanCleanup, dbVars, storeVars, claimVars, CleanupPending, Goto
<1>7. ASSUME NEW p \in Procs, ClearScrubbed(p)
      PROVE  SourceInv'
  BY <1>0, <1>t, <1>h, <1>w, <1>7 DEF ClearScrubbed, storeVars, Forget, Goto
<1>8. ASSUME NEW p \in Procs, Reconciled(p)
      PROVE  SourceInv'
  BY <1>0, <1>t, <1>h, <1>w, <1>8 DEF Reconciled, dbVars, storeVars, passVars, claimVars, Goto
<1>9. ASSUME NEW p \in Procs, Crash(p)
      PROVE  SourceInv'
  BY <1>0, <1>t, <1>h, <1>w, <1>9 DEF Crash, dbVars, storeVars, Forget, Goto
<1>10. ASSUME NEW p \in Procs, NEW r \in Reels, ScrubSource(p, r)
      PROVE  SourceInv'
  BY <1>0, <1>t, <1>h, <1>w, <1>10 DEF ScrubSource, dbVars, passVars, Goto
<1>11. ASSUME NEW p \in Procs, NEW r \in Reels, SkipSource(p, r)
      PROVE  SourceInv'
  BY <1>0, <1>t, <1>h, <1>w, <1>11 DEF SkipSource, dbVars, storeVars, claimVars
<1>12. ASSUME NEW w \in Workers, NEW r \in Reels, NEW i \in DOMAIN jobs[r], Claim(w, r, i)
      PROVE  SourceInv'
  BY <1>0, <1>t, <1>h, <1>w, <1>12 DEF Claim, storeVars, passVars, Goto
<1>13. ASSUME NEW w \in Workers, Cancel(w)
      PROVE  SourceInv'
  BY <1>0, <1>t, <1>h, <1>w, <1>13 DEF Cancel, dbVars, storeVars, passVars, claimVars
<1>14. ASSUME NEW w \in Workers, Exit(w)
      PROVE  SourceInv'
  BY <1>0, <1>t, <1>h, <1>w, <1>14 DEF Exit, dbVars, storeVars, passVars, claimVars, Goto
<1>15. ASSUME NEW w \in Workers, AttemptFails(w)
      PROVE  SourceInv'
  BY <1>0, <1>t, <1>h, <1>w, <1>15 DEF AttemptFails, dbVars, storeVars, passVars, Raise, Goto
<1>16. ASSUME NEW w \in Workers, DownloadSource(w)
      PROVE  SourceInv'
  BY <1>0, <1>t, <1>h, <1>w, <1>16 DEF DownloadSource, dbVars, storeVars, passVars, claimVars, Goto
<1>17. ASSUME NEW w \in Workers, UploadStaging(w)
      PROVE  SourceInv'
  BY <1>0, <1>t, <1>h, <1>w, <1>17 DEF UploadStaging, dbVars, passVars, Goto
<1>18. ASSUME NEW w \in Workers, StatFinal(w)
      PROVE  SourceInv'
  BY <1>0, <1>t, <1>h, <1>w, <1>18 DEF StatFinal, dbVars, storeVars, passVars, claimVars, Goto
<1>19. ASSUME NEW w \in Workers, CopyFinal(w)
      PROVE  SourceInv'
  BY <1>0, <1>t, <1>h, <1>w, <1>19 DEF CopyFinal, dbVars, passVars, Goto
<1>20. ASSUME NEW w \in Workers, CopyFails(w)
      PROVE  SourceInv'
  BY <1>0, <1>t, <1>h, <1>w, <1>20 DEF CopyFails, dbVars, passVars, Raise, Goto
<1>21. ASSUME NEW w \in Workers, VerifyFinal(w)
      PROVE  SourceInv'
  BY <1>0, <1>t, <1>h, <1>w, <1>21 DEF VerifyFinal, dbVars, storeVars, passVars, claimVars, Raise, Goto
<1>22. ASSUME NEW w \in Workers, VerifyFails(w)
      PROVE  SourceInv'
  BY <1>0, <1>t, <1>h, <1>w, <1>22 DEF VerifyFails, dbVars, storeVars, passVars, Raise, Goto
<1>23. ASSUME NEW w \in Workers, CommitReady(w)
      PROVE  SourceInv'
  BY <1>0, <1>t, <1>h, <1>w, <1>23 DEF CommitReady, storeVars, passVars, claimVars, Published, Goto
<1>24. ASSUME NEW w \in Workers, CommitAnswerLost(w)
      PROVE  SourceInv'
  BY <1>0, <1>t, <1>h, <1>w, <1>24 DEF CommitAnswerLost, storeVars, passVars, Raise, Published, Goto
<1>25. ASSUME NEW w \in Workers, CommitFails(w)
      PROVE  SourceInv'
  BY <1>0, <1>t, <1>h, <1>w, <1>25 DEF CommitFails, dbVars, storeVars, passVars, Raise, Goto
<1>26. ASSUME NEW w \in Workers, CheckReference(w)
      PROVE  SourceInv'
  BY <1>0, <1>t, <1>h, <1>w, <1>26 DEF CheckReference, dbVars, storeVars, passVars, claimVars, Goto
<1>27. ASSUME NEW w \in Workers, RemoveUnreferenced(w)
      PROVE  SourceInv'
  BY <1>0, <1>t, <1>h, <1>w, <1>27 DEF RemoveUnreferenced, dbVars, passVars, claimVars, Goto
<1>28. ASSUME NEW w \in Workers, CompensationFails(w)
      PROVE  SourceInv'
  BY <1>0, <1>t, <1>h, <1>w, <1>28 DEF CompensationFails, dbVars, storeVars, passVars, claimVars, Goto
<1>29. ASSUME NEW w \in Workers, FinishFailure(w)
      PROVE  SourceInv'
  <2>1. \A r \in Reels : status'[r] # status[r] =>
            status[r] = "normalizing" /\ status'[r] # "ready"
    BY <1>29, FailingMoves
  <2>2. /\ UNCHANGED <<source, cleanup, reel, todo>>
        /\ pc' = [pc EXCEPT ![w] = "unstage"]
    BY <1>29 DEF FinishFailure, storeVars, passVars, claimVars, Goto
  <2> QED BY <1>t, <1>h, <1>w, <2>1, <2>2
<1>30. ASSUME NEW w \in Workers, FinishFailureFails(w)
      PROVE  SourceInv'
  BY <1>0, <1>t, <1>h, <1>w, <1>30 DEF FinishFailureFails, dbVars, storeVars, passVars, claimVars, Goto
<1>31. ASSUME NEW w \in Workers, RemoveSource(w)
      PROVE  SourceInv'
  BY <1>0, <1>t, <1>h, <1>w, <1>31 DEF RemoveSource, dbVars, passVars, claimVars, Goto
<1>32. ASSUME NEW w \in Workers, RemoveSourceFails(w)
      PROVE  SourceInv'
  BY <1>0, <1>t, <1>h, <1>w, <1>32 DEF RemoveSourceFails, dbVars, storeVars, passVars, claimVars, Goto
<1>33. ASSUME NEW w \in Workers, ClearCleanup(w)
      PROVE  SourceInv'
  BY <1>0, <1>t, <1>h, <1>w, <1>33 DEF ClearCleanup, storeVars, passVars, claimVars, Goto
<1>34. ASSUME NEW w \in Workers, ClearCleanupFails(w)
      PROVE  SourceInv'
  BY <1>0, <1>t, <1>h, <1>w, <1>34 DEF ClearCleanupFails, dbVars, storeVars, passVars, Raise, Goto
<1>35. ASSUME NEW w \in Workers, CleanupStaging(w)
      PROVE  SourceInv'
  BY <1>0, <1>t, <1>h, <1>w, <1>35 DEF CleanupStaging, dbVars, passVars, Forget, Goto
<1>36. CASE UNCHANGED vars
  BY <1>36 DEF vars
<1> QED
  BY <1>1, <1>2, <1>3, <1>4, <1>5, <1>6, <1>7, <1>8, <1>9, <1>10, <1>11, <1>12, <1>13, <1>14, <1>15, <1>16, <1>17, <1>18, <1>19, <1>20, <1>21, <1>22, <1>23, <1>24, <1>25, <1>26, <1>27, <1>28, <1>29, <1>30, <1>31, <1>32, <1>33, <1>34, <1>35, <1>36
  DEF Next, Reconcile, RunOnce

-----------------------------------------------------------------------------
(* The Video rows *)

\* Only a publication makes a Reel ready or touches the Video rows.
LEMMA OnlyPublished ==
    ASSUME TypeInv, JobInv, [Next]_vars,
           ~\E w \in Workers : pc[w] = "commit" /\ Published(w)
    PROVE  /\ UNCHANGED <<video, videos>>
           /\ \A r \in Reels : status'[r] = "ready" <=> status[r] = "ready"
<1>0. status \in [Reels -> ReelStatuses]
  BY DEF TypeInv, TypeOK
<1>1. UNCHANGED <<video, videos>>
  <2>1. ASSUME NEW w \in Workers, RunOnce(w)
        PROVE  UNCHANGED <<video, videos>>
    BY <2>1 DEF Claim, FinishFailure, RunOnce, dbVars,
      Exit, AttemptFails, DownloadSource, UploadStaging, StatFinal, CopyFinal, CopyFails,
      VerifyFinal, VerifyFails, CommitReady, CommitAnswerLost, CommitFails,
      CheckReference, RemoveUnreferenced, CompensationFails, FinishFailureFails,
      RemoveSource, RemoveSourceFails, ClearCleanup, ClearCleanupFails, CleanupStaging
  <2>2. ASSUME NEW p \in Procs, Reconcile(p) \/ Crash(p)
        PROVE  UNCHANGED <<video, videos>>
    BY <2>2 DEF Reconcile, dbVars, Crash, Start, Recover, SweepStaging, ScanCleanup,
      ScrubSource, SkipSource, ClearScrubbed, Reconciled
  <2> QED
    BY <2>1, <2>2 DEF Next, vars, dbVars, reelVars, CommitSource, LeaseExpires, Cancel
<1>2. \A r \in Reels : status'[r] = "ready" => status[r] = "ready"
  <2>1. CASE (\E p \in Procs : Recover(p)) \/ (\E w \in Workers : FinishFailure(w))
    BY <2>1, FailingMoves
  <2>2. ASSUME NEW q \in Reels, CommitSource(q)
        PROVE  \A r \in Reels : status'[r] = "ready" => status[r] = "ready"
    BY <1>0, <2>2 DEF CommitSource
  <2>3. ASSUME NEW w \in Workers, NEW q \in Reels, NEW i \in DOMAIN jobs[q], Claim(w, q, i)
        PROVE  \A r \in Reels : status'[r] = "ready" => status[r] = "ready"
    BY <1>0, <2>3 DEF Claim
  <2>4. CASE UNCHANGED status
    BY <2>4
  <2> QED
    BY <2>1, <2>2, <2>3, <2>4
    DEF LeaseExpires, reelVars, Next, Reconcile, RunOnce, vars, dbVars, Cancel, Crash, Start,
      SweepStaging, ScanCleanup, ScrubSource, SkipSource, ClearScrubbed, Reconciled,
      Exit, AttemptFails, DownloadSource, UploadStaging, StatFinal, CopyFinal, CopyFails,
      VerifyFinal, VerifyFails, CommitReady, CommitAnswerLost, CommitFails,
      CheckReference, RemoveUnreferenced, CompensationFails, FinishFailureFails,
      RemoveSource, RemoveSourceFails, ClearCleanup, ClearCleanupFails, CleanupStaging
<1>3. \A r \in Reels : status[r] = "ready" => status'[r] = "ready"
  BY StatusMoves DEF StatusStep
<1> QED BY <1>1, <1>2, <1>3

LEMMA InitVideos == Init => ReadyHasOwnVideo
BY DEF Init, ReadyHasOwnVideo

LEMMA StepVideos ==
    ASSUME TypeInv, JobInv, ReadyHasOwnVideo, [Next]_vars
    PROVE  ReadyHasOwnVideo'
<1>1. CASE ~\E w \in Workers : pc[w] = "commit" /\ Published(w)
  BY <1>1, OnlyPublished DEF ReadyHasOwnVideo
<1>2. ASSUME NEW w \in Workers, pc[w] = "commit", Published(w)
      PROVE  ReadyHasOwnVideo'
  <2>1. /\ reel[w] \in Reels /\ key[w] \in Keys
        /\ status \in [Reels -> ReelStatuses] /\ video \in [Reels -> Keys \cup {None}]
    BY <1>2 DEF TypeInv, TypeOK, HoldsJob, HoldsOutput, HasOutput, Attempting
  <2>2. key[w] # None
    BY <2>1, ConstantsAssumption
  <2>3. /\ videos' = videos \cup {key[w]}
        /\ video' = [video EXCEPT ![reel[w]] = key[w]]
        /\ status' = [status EXCEPT ![reel[w]] = "ready"]
        /\ \A o \in Reels \ {reel[w]} : video[o] # key[w]
    BY <1>2 DEF Published, VideoTaken
  <2> QED BY <2>1, <2>2, <2>3 DEF ReadyHasOwnVideo
<1> QED BY <1>1, <1>2

-----------------------------------------------------------------------------
(* The history of the job rows, and who may move a Reel *)

LEMMA ContinuesSame ==
    ASSUME NEW rows \in Seq(JobRow)
    PROVE  Continues(rows, rows)
<1>1. Len(rows) \in Nat /\ DOMAIN rows = 1 .. Len(rows)
  BY LenProperties
<1>2. \A i \in DOMAIN rows : rows[i] \in JobRow
  BY <1>1, ElementOfSeq
<1>3. \A i \in DOMAIN rows : rows[i].status \in JobStatuses /\ rows[i].attempt \in Nat
  BY <1>2 DEF JobRow
<1>4. \A n \in Nat : n <= n
  OBVIOUS
<1> QED BY <1>1, <1>3, <1>4 DEF Continues, JobMoves

\* One row moves, the others stay, and rows may be added at the end.
LEMMA ContinuesOne ==
    ASSUME NEW rows \in Seq(JobRow), NEW new, NEW i \in DOMAIN rows,
           Len(new) >= Len(rows),
           \A j \in DOMAIN rows : j # i => new[j] = rows[j],
           <<rows[i].status, new[i].status>> \in JobMoves,
           rows[i].attempt <= new[i].attempt
    PROVE  Continues(rows, new)
<1>1. Continues(rows, rows)
  BY ContinuesSame
<1>2. \A j \in DOMAIN rows : /\ <<rows[j].status, new[j].status>> \in JobMoves
                             /\ rows[j].attempt <= new[j].attempt
  BY <1>1 DEF Continues
<1> QED BY <1>2 DEF Continues

LEMMA StepHistory ==
    ASSUME TypeInv, JobInv, [Next]_vars
    PROVE  \A r \in Reels : Continues(jobs[r], jobs'[r])
<1> SUFFICES ASSUME NEW r \in Reels PROVE Continues(jobs[r], jobs'[r])
  OBVIOUS
<1>0. jobs \in [Reels -> Seq(JobRow)]
  BY DEF TypeInv, TypeOK
<1>s. jobs'[r] = jobs[r] => Continues(jobs[r], jobs'[r])
  BY <1>0, ContinuesSame
<1>f. ASSUME NEW i \in DOMAIN jobs[r], jobs[r][i].status = "running", NEW b \in BOOLEAN,
             jobs'[r] = FailedRows(jobs[r], i, b)
      PROVE  Continues(jobs[r], jobs'[r])
  <2>1. jobs[r][i] \in JobRow /\ jobs[r][i].attempt \in Nat
    BY <1>f, RowType DEF TypeInv
  <2>2. /\ Len(jobs'[r]) >= Len(jobs[r])
        /\ jobs'[r][i] = Closed(jobs[r][i], "failed")
        /\ \A j \in DOMAIN jobs[r] : j # i => jobs'[r][j] = jobs[r][j]
    BY <1>0, <1>f, FailedRowsType
  <2>3. jobs'[r][i].status = "failed" /\ jobs'[r][i].attempt = jobs[r][i].attempt
    BY <2>1, <2>2, ClosedType
  <2>4. <<jobs[r][i].status, jobs'[r][i].status>> \in JobMoves
    BY <1>f, <2>3 DEF JobMoves
  <2>5. jobs[r][i].attempt <= jobs'[r][i].attempt
    BY <2>1, <2>3
  <2> QED BY <1>0, <1>f, <2>2, <2>4, <2>5, ContinuesOne
<1>r. ASSUME NEW q \in Reels, NEW i \in DOMAIN jobs[q], NEW row \in JobRow, SetRow(q, i, row),
             <<jobs[q][i].status, row.status>> \in JobMoves,
             jobs[q][i].attempt <= row.attempt
      PROVE  Continues(jobs[r], jobs'[r])
  <2>t. /\ jobs' \in [Reels -> Seq(JobRow)]
        /\ jobs'[q] = [jobs[q] EXCEPT ![i] = row]
        /\ jobs'[q][i] = row
        /\ \A o \in Reels : Len(jobs'[o]) = Len(jobs[o]) /\ DOMAIN jobs'[o] = DOMAIN jobs[o]
        /\ \A o \in Reels : o # q => jobs'[o] = jobs[o]
        /\ \A j \in DOMAIN jobs[q] : j # i => jobs'[q][j] = jobs[q][j]
    BY <1>0, <1>r, SetRowType, Zenon
  <2>0. /\ jobs'[q][i] = row
        /\ \A o \in Reels : Len(jobs'[o]) = Len(jobs[o])
        /\ \A o \in Reels : o # q => jobs'[o] = jobs[o]
        /\ \A j \in DOMAIN jobs[q] : j # i => jobs'[q][j] = jobs[q][j]
    BY <2>t, Zenon
  <2>1. /\ jobs'[q][i] = row
        /\ q # r => jobs'[r] = jobs[r]
        /\ Len(jobs'[q]) = Len(jobs[q])
        /\ \A j \in DOMAIN jobs[q] : j # i => jobs'[q][j] = jobs[q][j]
    BY <2>0
  <2>2. Len(jobs[q]) \in Nat
    BY <1>0, LenProperties
  <2>3. CASE q = r
    <3>1. Len(jobs'[r]) >= Len(jobs[r])
      BY <2>1, <2>2, <2>3
    <3>2. i \in DOMAIN jobs[r] /\ jobs'[r][i] = row
      BY <2>1, <2>3
    <3>3. /\ <<jobs[r][i].status, jobs'[r][i].status>> \in JobMoves
          /\ jobs[r][i].attempt <= jobs'[r][i].attempt
      BY <1>r, <2>3, <3>2
    <3>4. \A j \in DOMAIN jobs[r] : j # i => jobs'[r][j] = jobs[r][j]
      BY <2>1, <2>3
    <3> QED BY <1>0, <3>1, <3>2, <3>3, <3>4, ContinuesOne
  <2> QED BY <1>s, <2>1, <2>3
<1>1. ASSUME NEW q \in Reels, CommitSource(q)
      PROVE  Continues(jobs[r], jobs'[r])
  <2> DEFINE new == Append(jobs[q], PendingJob(0))
  <2>1. /\ jobs'[q] = new
        /\ q # r => jobs'[r] = jobs[r]
    BY <1>0, <1>1 DEF CommitSource
  <2>2. PendingJob(0) \in JobRow
    BY PendingJobType
  <2>3. /\ Len(new) = Len(jobs[q]) + 1
        /\ \A j \in DOMAIN jobs[q] : new[j] = jobs[q][j]
    BY <1>0, <2>2, AppendRow
  <2> HIDE DEF new
  <2>4. Continues(jobs[q], jobs[q])
    BY <1>0, ContinuesSame
  <2>5. Len(jobs[q]) \in Nat
    BY <1>0, LenProperties
  <2>6. Continues(jobs[q], new)
    BY <2>3, <2>4, <2>5 DEF Continues
  <2> QED BY <1>s, <2>1, <2>6
<1>2. ASSUME NEW q \in Reels, NEW i \in DOMAIN jobs[q], LeaseExpires(q, i)
      PROVE  Continues(jobs[r], jobs'[r])
  <2>1. jobs[q][i] \in JobRow /\ jobs[q][i].status = "running" /\ jobs[q][i].attempt \in Nat
    BY <1>2, RowType DEF TypeInv, LeaseExpires
  <2>2. /\ LeaseOver(jobs[q][i]) \in JobRow
        /\ LeaseOver(jobs[q][i]).status = "running"
        /\ LeaseOver(jobs[q][i]).attempt = jobs[q][i].attempt
    BY <2>1, LeaseOverType
  <2>3. <<jobs[q][i].status, LeaseOver(jobs[q][i]).status>> \in JobMoves
    BY <2>1, <2>2 DEF JobMoves, JobStatuses
  <2>4. jobs[q][i].attempt <= LeaseOver(jobs[q][i]).attempt
    BY <2>1, <2>2
  <2>5. SetRow(q, i, LeaseOver(jobs[q][i]))
    BY <1>2 DEF LeaseExpires
  <2> QED BY <1>r, <2>2, <2>3, <2>4, <2>5
<1>3. ASSUME NEW p \in Procs, Recover(p)
      PROVE  Continues(jobs[r], jobs'[r])
  <2>1. CASE IsStale(r)
    <3>1. jobs'[r] = FailedRows(jobs[r], StaleNo(r), TRUE)
      BY <1>3, <2>1 DEF Recover
    <3>2. StaleNo(r) \in DOMAIN jobs[r] /\ jobs[r][StaleNo(r)].status = "running"
      BY <2>1, StaleIsRunning
    <3> QED BY <1>f, <3>1, <3>2
  <2>2. CASE ~IsStale(r)
    BY <1>3, <1>s, <2>2 DEF Recover
  <2> QED BY <2>1, <2>2
<1>4. ASSUME NEW w \in Workers, NEW q \in Reels, NEW i \in DOMAIN jobs[q], Claim(w, q, i)
      PROVE  Continues(jobs[r], jobs'[r])
  <2>1. jobs[q][i] \in JobRow /\ jobs[q][i].status = "pending" /\ jobs[q][i].attempt \in Nat
    BY <1>4, RowType DEF TypeInv, Claim, Claimable
  <2>2. ~(jobs[q][i].attempt + 1 > MaxAttempts)
    BY <2>1, ConstantsAssumption DEF JobInv, AttemptsLeft
  <2>3. SetRow(q, i, ClaimedRow(jobs[q][i], w))
    BY <1>4, <2>2 DEF Claim
  <2>4. /\ ClaimedRow(jobs[q][i], w) \in JobRow
        /\ ClaimedRow(jobs[q][i], w).status = "running"
        /\ ClaimedRow(jobs[q][i], w).attempt = jobs[q][i].attempt + 1
    BY <2>1, ClaimedRowType
  <2>5. <<jobs[q][i].status, ClaimedRow(jobs[q][i], w).status>> \in JobMoves
    BY <2>1, <2>4 DEF JobMoves
  <2>6. jobs[q][i].attempt <= ClaimedRow(jobs[q][i], w).attempt
    BY <2>1, <2>4
  <2> QED BY <1>r, <2>3, <2>4, <2>5, <2>6
<1>5. ASSUME NEW w \in Workers, pc[w] = "commit", Published(w)
      PROVE  Continues(jobs[r], jobs'[r])
  <2>1. reel[w] \in Reels /\ job[w] \in DOMAIN jobs[reel[w]]
    BY <1>5 DEF TypeInv, HoldsJob, Attempting
  <2>2. MyRow(w) \in JobRow /\ MyRow(w).status = "running" /\ MyRow(w).attempt \in Nat
    BY <1>5, <2>1, RowType DEF TypeInv, Published, OwnedRunning, MyRow
  <2>3. /\ Closed(MyRow(w), "completed") \in JobRow
        /\ Closed(MyRow(w), "completed").status = "completed"
        /\ Closed(MyRow(w), "completed").attempt = MyRow(w).attempt
    BY <2>2, ClosedType
  <2>4. SetRow(reel[w], job[w], Closed(MyRow(w), "completed"))
    BY <1>5 DEF Published
  <2>5. <<MyRow(w).status, Closed(MyRow(w), "completed").status>> \in JobMoves
    BY <2>2, <2>3 DEF JobMoves
  <2>6. MyRow(w).attempt <= Closed(MyRow(w), "completed").attempt
    BY <2>2, <2>3
  <2> QED BY <1>r, <2>1, <2>3, <2>4, <2>5, <2>6 DEF MyRow
<1>6. ASSUME NEW w \in Workers, FinishFailure(w)
      PROVE  Continues(jobs[r], jobs'[r])
  <2>1. reel[w] \in Reels /\ job[w] \in DOMAIN jobs[reel[w]] /\ again[w] \in BOOLEAN
    BY <1>6 DEF FinishFailure, TypeInv, TypeOK, HoldsJob, Attempting, Procs
  <2>2. CASE OwnedRunning(w) /\ r = reel[w]
    <3>1. /\ jobs'[r] = FailedRows(jobs[r], job[w], again[w])
          /\ jobs[r][job[w]].status = "running"
      BY <1>0, <1>6, <2>2 DEF FinishFailure, OwnedRunning, MyRow
    <3> QED BY <1>f, <2>1, <2>2, <3>1
  <2>3. CASE ~(OwnedRunning(w) /\ r = reel[w])
    BY <1>0, <1>6, <1>s, <2>1, <2>3 DEF FinishFailure
  <2> QED BY <2>2, <2>3
<1>7. CASE UNCHANGED jobs
  BY <1>s, <1>7
<1> QED
  BY <1>1, <1>2, <1>3, <1>4, <1>5, <1>6, <1>7
  DEF Next, Reconcile, RunOnce, vars, dbVars, Cancel, Crash, Start,
      SweepStaging, ScanCleanup, ScrubSource, SkipSource, ClearScrubbed, Reconciled,
      Exit, AttemptFails, DownloadSource, UploadStaging, StatFinal, CopyFinal, CopyFails,
      VerifyFinal, VerifyFails, CommitReady, CommitAnswerLost, CommitFails,
      CheckReference, RemoveUnreferenced, CompensationFails, FinishFailureFails,
      RemoveSource, RemoveSourceFails, ClearCleanup, ClearCleanupFails, CleanupStaging

\* Who passes the ownership check of a transaction is the owner of that Reel.
LEMMA OwnedIsOwner ==
    ASSUME TypeInv, JobInv, NEW w \in Workers, pc[w] \in {"commit", "finish"}, OwnedRunning(w)
    PROVE  reel[w] \in Reels /\ Owner(w, reel[w])
<1>1. reel[w] \in Reels /\ job[w] \in DOMAIN jobs[reel[w]]
  BY DEF TypeInv, HoldsJob, Attempting
<1>2. job[w] = Len(jobs[reel[w]])
  BY <1>1, RunningIsLast DEF OwnedRunning, MyRow
<1> QED BY <1>1, <1>2 DEF Owner, AtJob, Attempting, OwnedRunning, MyRow

\* Every transaction of an attempt moves its worker on.
LEMMA OwnerMovesOn ==
    ASSUME TypeInv, JobInv, NEW w \in Workers,
           \/ CommitReady(w)
           \/ CommitAnswerLost(w)
           \/ FinishFailure(w) /\ OwnedRunning(w)
    PROVE  reel[w] \in Reels /\ OwnerActs(reel[w])
<1>1. pc[w] \in {"commit", "finish"} /\ OwnedRunning(w)
  BY DEF CommitReady, CommitAnswerLost, Published, FinishFailure
<1>2. Acts(w)
  <2>1. pc \in [Procs -> Labels] /\ w \in Procs
    BY DEF TypeInv, TypeOK, Procs
  <2>2. pc'[w] # pc[w]
    BY <2>1 DEF CommitReady, CommitAnswerLost, FinishFailure, Raise, Goto
  <2> QED BY <1>1, <2>2 DEF Acts, Attempting
<1> QED BY <1>1, <1>2, OwnedIsOwner DEF OwnerActs

LEMMA StepMoves ==
    ASSUME TypeInv, JobInv, [Next]_vars
    PROVE  \A r \in Reels : MovesProperly(r)
<1> SUFFICES ASSUME NEW r \in Reels
             PROVE  MovesProperly(r)
  OBVIOUS
<1>0. status \in [Reels -> ReelStatuses]
  BY DEF TypeInv, TypeOK
<1>1. ASSUME NEW p \in Procs, Recover(p)
      PROVE  MovesProperly(r)
  <2>1. CASE IsStale(r)
    <3>1. StaleNo(r) \in DOMAIN jobs[r] /\ StaleJob(jobs[r][StaleNo(r)])
      BY <2>1 DEF IsStale, StaleNo
    <3>2. StaleNo(r) = Len(jobs[r])
      BY <2>1, StaleIsRunning, RunningIsLast
    <3>3. status'[r] # "ready"
      BY <1>1, <2>1 DEF Recover, StatusAfterFailure
    <3> QED BY <3>1, <3>2, <3>3 DEF StaleJob, MovesProperly
  <2>2. CASE ~IsStale(r)
    BY <1>1, <2>2 DEF Recover, MovesProperly
  <2> QED BY <2>1, <2>2
<1>2. ASSUME NEW w \in Workers,
             \/ CommitReady(w)
             \/ CommitAnswerLost(w)
             \/ FinishFailure(w) /\ OwnedRunning(w)
      PROVE  MovesProperly(r)
  <2>1. reel[w] \in Reels /\ OwnerActs(reel[w])
    BY <1>2, OwnerMovesOn
  <2>2. reel[w] = r \/ status'[r] = status[r]
    BY <1>0, <1>2, <2>1 DEF CommitReady, CommitAnswerLost, Published, FinishFailure
  <2> QED BY <2>1, <2>2 DEF MovesProperly
<1>3. ASSUME NEW q \in Reels, CommitSource(q)
      PROVE  MovesProperly(r)
  BY <1>0, <1>3 DEF CommitSource, MovesProperly
<1>4. ASSUME NEW w \in Workers, NEW q \in Reels, NEW i \in DOMAIN jobs[q], Claim(w, q, i)
      PROVE  MovesProperly(r)
  BY <1>0, <1>4 DEF Claim, Claimable, MovesProperly
<1>5. CASE UNCHANGED status
  BY <1>5 DEF MovesProperly
<1>6. ASSUME NEW w \in Workers, FinishFailure(w), ~OwnedRunning(w)
      PROVE  UNCHANGED status
  BY <1>6 DEF FinishFailure
<1> QED
  BY <1>1, <1>2, <1>3, <1>4, <1>5, <1>6
  DEF LeaseExpires, reelVars, Next, Reconcile, RunOnce, vars, dbVars, Cancel, Crash, Start,
      SweepStaging, ScanCleanup, ScrubSource, SkipSource, ClearScrubbed, Reconciled,
      Exit, AttemptFails, DownloadSource, UploadStaging, StatFinal, CopyFinal, CopyFails,
      VerifyFinal, VerifyFails, CommitFails,
      CheckReference, RemoveUnreferenced, CompensationFails, FinishFailureFails,
      RemoveSource, RemoveSourceFails, ClearCleanup, ClearCleanupFails, CleanupStaging

\* A step of an attempt that does not own the running job writes no row.
LEMMA StaleChangesNothing ==
    ASSUME TypeInv, JobInv, [Next]_vars, NEW w \in Workers, Acts(w), ~Owner(w, reel[w])
    PROVE  UNCHANGED dbVars
<1>0. pc \in [Procs -> Labels] /\ w \in Procs /\ Workers \cap Commands = {}
  BY ConstantsAssumption DEF TypeInv, TypeOK, Procs
<1>2. ASSUME UNCHANGED pc
      PROVE  FALSE
  BY <1>2 DEF Acts
<1>3. ASSUME NEW p \in Procs, Reconcile(p)
      PROVE  UNCHANGED dbVars
  <2>1. pc[p] = "off" \/ pc[p] \in Reconciling
    BY <1>3 DEF Reconcile, Start, Recover, SweepStaging, ScanCleanup, ScrubSource,
       SkipSource, ClearScrubbed, Reconciled, Reconciling
  <2>2. p # w
    BY <2>1 DEF Acts, Attempting, Reconciling
  <2>3. pc' = pc \/ \E l \in Labels : pc' = [pc EXCEPT ![p] = l]
    BY <1>3 DEF Reconcile, Start, Recover, SweepStaging, ScanCleanup, ScrubSource,
       SkipSource, ClearScrubbed, Reconciled, Goto, Labels, Reconciling
  <2>4. pc'[w] = pc[w]
    BY <1>0, <2>2, <2>3
  <2> QED BY <2>4 DEF Acts
<1>4. ASSUME NEW u \in Workers, RunOnce(u)
      PROVE  UNCHANGED dbVars
  <2>1. CASE u # w
    <3>1. pc' = pc \/ \E l \in Labels : pc' = [pc EXCEPT ![u] = l]
      BY <1>4 DEF RunOnce, Claim, Exit, AttemptFails, DownloadSource, UploadStaging,
         StatFinal, CopyFinal, CopyFails, VerifyFinal, VerifyFails, CommitReady,
         CommitAnswerLost, CommitFails, CheckReference, RemoveUnreferenced,
         CompensationFails, FinishFailure, FinishFailureFails, RemoveSource,
         RemoveSourceFails, ClearCleanup, ClearCleanupFails, CleanupStaging,
         Raise, Goto, Labels, Attempting, Closing
    <3>2. pc'[w] = pc[w]
      BY <1>0, <2>1, <3>1
    <3> QED BY <3>2 DEF Acts
  <2>2. CASE u = w
    <3>1. ~(pc[w] \in {"commit", "finish"} /\ OwnedRunning(w))
      BY OwnedIsOwner
    <3>2. pc[w] \in Attempting
      BY DEF Acts
    <3>3. CASE FinishFailure(w)
      BY <3>1, <3>3 DEF FinishFailure, dbVars
    <3>4. CASE CommitReady(w) \/ CommitAnswerLost(w)
      BY <3>1, <3>4 DEF CommitReady, CommitAnswerLost, Published
    <3>5. CASE \/ AttemptFails(w) \/ DownloadSource(w) \/ UploadStaging(w)
               \/ StatFinal(w) \/ CopyFinal(w) \/ CopyFails(w)
               \/ VerifyFinal(w) \/ VerifyFails(w) \/ CommitFails(w)
               \/ CheckReference(w) \/ RemoveUnreferenced(w) \/ CompensationFails(w)
               \/ FinishFailureFails(w)
      BY <3>5 DEF AttemptFails, DownloadSource, UploadStaging, StatFinal, CopyFinal,
         CopyFails, VerifyFinal, VerifyFails, CommitFails, CheckReference,
         RemoveUnreferenced, CompensationFails, FinishFailureFails
    <3> QED
      BY <1>4, <2>2, <3>2, <3>3, <3>4, <3>5
      DEF RunOnce, Claim, Exit, RemoveSource, RemoveSourceFails, ClearCleanup,
          ClearCleanupFails, CleanupStaging, Attempting
  <2> QED BY <2>1, <2>2
<1>5. ASSUME NEW p \in Procs, Crash(p)
      PROVE  UNCHANGED dbVars
  BY <1>5 DEF Crash
<1>6. ASSUME NEW r \in Reels, CommitSource(r)
      PROVE  FALSE
  BY <1>2, <1>6 DEF CommitSource
<1>7. ASSUME NEW r \in Reels, NEW i \in DOMAIN jobs[r], LeaseExpires(r, i)
      PROVE  FALSE
  BY <1>2, <1>7 DEF LeaseExpires
<1>8. ASSUME NEW u \in Workers, Cancel(u)
      PROVE  FALSE
  BY <1>2, <1>8 DEF Cancel
<1>9. CASE UNCHANGED vars
  BY <1>2, <1>9 DEF vars
<1> QED BY <1>3, <1>4, <1>5, <1>6, <1>7, <1>8, <1>9 DEF Next

-----------------------------------------------------------------------------
(* The retry budget *)

\* The attempts a job row stands for: a pending row's next one included.
Used(row) == IF row.status = "pending" THEN row.attempt + 1 ELSE row.attempt

\* With a budget of b rows there is room for every attempt an active row leaves.
WithinBudget(rows, b) ==
    /\ Len(rows) <= b
    /\ \A i \in DOMAIN rows : Active(rows[i]) => Len(rows) + MaxAttempts <= b + Used(rows[i])

Budget == \A r \in Reels : WithinBudget(jobs[r], MaxAttempts * collects[r])

\* A row may be replaced by an inactive one, or by one that used as much.
LEMMA ReplaceWithinBudget ==
    ASSUME NEW rows \in Seq(JobRow), NEW b \in Nat, WithinBudget(rows, b),
           NEW i \in DOMAIN rows, NEW row \in JobRow,
           Active(row) => Active(rows[i]) /\ Used(row) = Used(rows[i])
    PROVE  WithinBudget([rows EXCEPT ![i] = row], b)
<1> DEFINE new == [rows EXCEPT ![i] = row]
<1>1. /\ DOMAIN new = DOMAIN rows /\ Len(new) = Len(rows) /\ new[i] = row
      /\ \A j \in DOMAIN rows : j # i => new[j] = rows[j]
  BY UpdateRow
<1> HIDE DEF new
<1>2. WithinBudget(new, b)
  BY <1>1 DEF WithinBudget
<1> QED BY <1>2 DEF new

\* A failed attempt and its retry need no more room than the attempt had.
LEMMA FailedWithinBudget ==
    ASSUME NEW rows \in Seq(JobRow), NEW b \in Nat, WithinBudget(rows, b),
           NEW i \in DOMAIN rows, rows[i].status = "running", NEW retry \in BOOLEAN,
           \A j \in DOMAIN rows : Active(rows[j]) => j = Len(rows)
    PROVE  WithinBudget(FailedRows(rows, i, retry), b)
<1> DEFINE new == FailedRows(rows, i, retry)
<1>0. DOMAIN rows = 1 .. Len(rows) /\ Len(rows) \in Nat
  BY LenProperties
<1>1. rows[i] \in JobRow
  BY <1>0, ElementOfSeq
<1>2. rows[i].attempt \in Nat
  BY <1>1 DEF JobRow
<1>3. /\ Closed(rows[i], "failed").status = "failed"
      /\ PendingJob(rows[i].attempt).status = "pending"
      /\ PendingJob(rows[i].attempt).attempt = rows[i].attempt
  BY <1>1, <1>2, ClosedType, PendingJobType
<1>4. /\ new \in Seq(JobRow)
      /\ new[i] = Closed(rows[i], "failed")
      /\ \A j \in DOMAIN rows : j # i => new[j] = rows[j]
      /\ Retries(rows[i], retry) =>
            Len(new) = Len(rows) + 1 /\ new[Len(new)] = PendingJob(rows[i].attempt)
      /\ ~Retries(rows[i], retry) => Len(new) = Len(rows)
  BY FailedRowsType
<1>5. DOMAIN new = 1 .. Len(new)
  BY <1>4, LenProperties
<1>6. Len(rows) + MaxAttempts <= b + rows[i].attempt
  BY DEF WithinBudget, Active, Used
<1>7. \A j \in DOMAIN rows : ~Active(new[j])
  BY <1>3, <1>4 DEF Active
<1> HIDE DEF new
<1>8. CASE Retries(rows[i], retry)
  <2>1. /\ Len(new) = Len(rows) + 1
        /\ new[Len(new)].status = "pending" /\ new[Len(new)].attempt = rows[i].attempt
        /\ rows[i].attempt < MaxAttempts
    BY <1>3, <1>4, <1>8 DEF Retries
  <2>2. Used(new[Len(new)]) = rows[i].attempt + 1
    BY <2>1 DEF Used
  <2>3. Len(new) <= b /\ Len(new) + MaxAttempts <= b + Used(new[Len(new)])
    BY <1>0, <1>2, <1>6, <2>1, <2>2, ConstantsAssumption
  <2>4. \A j \in DOMAIN new : Active(new[j]) => j = Len(new)
    BY <1>0, <1>5, <1>7, <2>1
  <2>5. WithinBudget(new, b)
    BY <2>3, <2>4 DEF WithinBudget
  <2> QED BY <2>5 DEF new
<1>9. CASE ~Retries(rows[i], retry)
  <2>1. Len(new) = Len(rows) /\ DOMAIN new = DOMAIN rows
    BY <1>0, <1>4, <1>5, <1>9
  <2>2. WithinBudget(new, b)
    BY <1>7, <2>1 DEF WithinBudget
  <2> QED BY <2>2 DEF new
<1> QED BY <1>8, <1>9

\* A new source brings a full budget with it.
LEMMA AppendWithinBudget ==
    ASSUME NEW rows \in Seq(JobRow), NEW b \in Nat, WithinBudget(rows, b),
           \A j \in DOMAIN rows : ~Active(rows[j])
    PROVE  WithinBudget(Append(rows, PendingJob(0)), b + MaxAttempts)
<1> DEFINE new == Append(rows, PendingJob(0))
<1>0. DOMAIN rows = 1 .. Len(rows) /\ Len(rows) \in Nat
  BY LenProperties
<1>1. PendingJob(0) \in JobRow /\ Used(PendingJob(0)) = 1
  BY PendingJobType DEF Used
<1>2. /\ DOMAIN new = 1 .. (Len(rows) + 1) /\ Len(new) = Len(rows) + 1
      /\ new[Len(rows) + 1] = PendingJob(0)
      /\ \A j \in DOMAIN rows : new[j] = rows[j]
  BY <1>1, AppendRow
<1> HIDE DEF new
<1>3. \A j \in DOMAIN new : Active(new[j]) => Used(new[j]) = 1
  BY <1>0, <1>1, <1>2
<1>4. Len(new) <= b + MaxAttempts /\ Len(new) + MaxAttempts <= (b + MaxAttempts) + 1
  BY <1>0, <1>2, ConstantsAssumption DEF WithinBudget
<1>5. WithinBudget(new, b + MaxAttempts)
  BY <1>3, <1>4 DEF WithinBudget
<1> QED BY <1>5 DEF new

LEMMA InitBudget == Init => Budget
<1> SUFFICES ASSUME Init PROVE Budget
  OBVIOUS
<1>1. \A r \in Reels : jobs[r] = <<>> /\ collects[r] = 0
  BY DEF Init
<1>2. DOMAIN <<>> = {} /\ Len(<<>>) = 0 /\ MaxAttempts * 0 = 0
  BY ConstantsAssumption
<1>3. ASSUME NEW r \in Reels
      PROVE  WithinBudget(jobs[r], MaxAttempts * collects[r])
  <2>1. MaxAttempts * collects[r] = 0 /\ Len(jobs[r]) = 0 /\ DOMAIN jobs[r] = {}
    BY <1>1, <1>2
  <2> HIDE DEF Init
  <2>2. Len(jobs[r]) <= MaxAttempts * collects[r]
    BY <2>1
  <2>3. \A i \in DOMAIN jobs[r] : FALSE
    BY <2>1
  <2> QED BY <2>2, <2>3 DEF WithinBudget
<1> QED BY <1>3 DEF Budget

LEMMA StepBudget ==
    ASSUME TypeInv, JobInv, Budget, [Next]_vars
    PROVE  Budget'
<1> SUFFICES ASSUME NEW r \in Reels
             PROVE  WithinBudget(jobs'[r], MaxAttempts * collects'[r])
  BY DEF Budget, WithinBudget
<1> DEFINE b == MaxAttempts * collects[r]
<1>0. /\ jobs \in [Reels -> Seq(JobRow)] /\ status \in [Reels -> ReelStatuses]
      /\ collects \in [Reels -> Nat]
  BY DEF TypeInv, TypeOK
<1>b. b \in Nat /\ MaxAttempts * (collects[r] + 1) = b + MaxAttempts
  BY <1>0, ConstantsAssumption
<1>c. WithinBudget(jobs[r], b)
  BY DEF Budget
<1>m. RowsMatch(jobs[r], status[r])
  BY DEF JobInv, JobsMatchReel
<1>u. collects'[r] = collects[r] => MaxAttempts * collects'[r] = b
  OBVIOUS
<1> HIDE DEF b
<1>s. ASSUME jobs'[r] = jobs[r], collects'[r] = collects[r]
      PROVE  WithinBudget(jobs'[r], MaxAttempts * collects'[r])
  BY <1>c, <1>s, <1>u
<1>r. ASSUME NEW q \in Reels, NEW i \in DOMAIN jobs[q], NEW row \in JobRow, SetRow(q, i, row),
             Active(row) => Active(jobs[q][i]) /\ Used(row) = Used(jobs[q][i]),
             UNCHANGED collects
      PROVE  WithinBudget(jobs'[r], MaxAttempts * collects'[r])
  <2>1. /\ jobs'[q] = [jobs[q] EXCEPT ![i] = row]
        /\ \A o \in Reels : o # q => jobs'[o] = jobs[o]
    BY <1>0, <1>r, SetRowType
  <2>2. CASE q = r
    <3>1. WithinBudget([jobs[r] EXCEPT ![i] = row], b)
      BY <1>0, <1>b, <1>c, <1>r, <2>2, ReplaceWithinBudget
    <3> QED BY <1>r, <1>u, <2>1, <2>2, <3>1
  <2>3. CASE q # r
    BY <1>r, <1>s, <2>1, <2>3
  <2> QED BY <2>2, <2>3
<1>f. ASSUME NEW i \in DOMAIN jobs[r], jobs[r][i].status = "running", NEW retry \in BOOLEAN,
             jobs'[r] = FailedRows(jobs[r], i, retry), UNCHANGED collects
      PROVE  WithinBudget(jobs'[r], MaxAttempts * collects'[r])
  <2>1. \A j \in DOMAIN jobs[r] : Active(jobs[r][j]) => j = Len(jobs[r])
    BY <1>m DEF RowsMatch
  <2>2. WithinBudget(FailedRows(jobs[r], i, retry), b)
    BY <1>0, <1>b, <1>c, <1>f, <2>1, FailedWithinBudget
  <2> QED BY <1>f, <1>u, <2>2
<1>1. ASSUME NEW q \in Reels, CommitSource(q)
      PROVE  WithinBudget(jobs'[r], MaxAttempts * collects'[r])
  <2>1. CASE q = r
    <3>1. /\ jobs'[r] = Append(jobs[r], PendingJob(0)) /\ collects'[r] = collects[r] + 1
          /\ status[r] # "source_ready" /\ status[r] # "normalizing"
      BY <1>0, <1>1, <2>1 DEF CommitSource
    <3>2. \A j \in DOMAIN jobs[r] : ~Active(jobs[r][j])
      BY <1>m, <3>1 DEF RowsMatch, Active
    <3>3. WithinBudget(Append(jobs[r], PendingJob(0)), b + MaxAttempts)
      BY <1>0, <1>b, <1>c, <3>2, AppendWithinBudget
    <3> QED BY <1>b, <3>1, <3>3
  <2>2. CASE q # r
    <3>1. jobs'[r] = jobs[r] /\ collects'[r] = collects[r]
      BY <1>0, <1>1, <2>2 DEF CommitSource
    <3> QED BY <1>s, <3>1
  <2> QED BY <2>1, <2>2
<1>2. ASSUME NEW q \in Reels, NEW i \in DOMAIN jobs[q], LeaseExpires(q, i)
      PROVE  WithinBudget(jobs'[r], MaxAttempts * collects'[r])
  <2>1. jobs[q][i] \in JobRow
    BY RowType DEF TypeInv
  <2>2. /\ LeaseOver(jobs[q][i]) \in JobRow
        /\ LeaseOver(jobs[q][i]).status = jobs[q][i].status
        /\ LeaseOver(jobs[q][i]).attempt = jobs[q][i].attempt
    BY <2>1, LeaseOverType
  <2>3. SetRow(q, i, LeaseOver(jobs[q][i])) /\ UNCHANGED collects
    BY <1>2 DEF LeaseExpires, reelVars
  <2> QED BY <1>r, <2>2, <2>3 DEF Active, Used
<1>3. ASSUME NEW p \in Procs, Recover(p)
      PROVE  WithinBudget(jobs'[r], MaxAttempts * collects'[r])
  <2>1. UNCHANGED collects
    BY <1>3 DEF Recover
  <2>2. CASE IsStale(r)
    <3>1. jobs'[r] = FailedRows(jobs[r], StaleNo(r), TRUE)
      BY <1>3, <2>2 DEF Recover
    <3>2. StaleNo(r) \in DOMAIN jobs[r] /\ jobs[r][StaleNo(r)].status = "running"
      BY <2>2, StaleIsRunning
    <3> QED BY <1>f, <2>1, <3>1, <3>2
  <2>3. CASE ~IsStale(r)
    BY <1>3, <1>s, <2>1, <2>3 DEF Recover
  <2> QED BY <2>2, <2>3
<1>4. ASSUME NEW w \in Workers, NEW q \in Reels, NEW i \in DOMAIN jobs[q], Claim(w, q, i)
      PROVE  WithinBudget(jobs'[r], MaxAttempts * collects'[r])
  <2>1. jobs[q][i] \in JobRow /\ jobs[q][i].status = "pending" /\ jobs[q][i].attempt \in Nat
    BY <1>4, RowType DEF TypeInv, Claim, Claimable
  <2>2. ~(jobs[q][i].attempt + 1 > MaxAttempts)
    BY <2>1, ConstantsAssumption DEF JobInv, AttemptsLeft
  <2>3. SetRow(q, i, ClaimedRow(jobs[q][i], w)) /\ UNCHANGED collects
    BY <1>4, <2>2 DEF Claim
  <2>4. /\ ClaimedRow(jobs[q][i], w) \in JobRow
        /\ ClaimedRow(jobs[q][i], w).status = "running"
        /\ ClaimedRow(jobs[q][i], w).attempt = jobs[q][i].attempt + 1
    BY <2>1, ClaimedRowType
  <2>5. Active(jobs[q][i]) /\ Used(ClaimedRow(jobs[q][i], w)) = Used(jobs[q][i])
    BY <2>1, <2>4 DEF Active, Used
  <2> QED BY <1>r, <2>3, <2>4, <2>5
<1>5. ASSUME NEW w \in Workers, pc[w] = "commit", Published(w)
      PROVE  WithinBudget(jobs'[r], MaxAttempts * collects'[r])
  <2>1. reel[w] \in Reels /\ job[w] \in DOMAIN jobs[reel[w]]
    BY <1>5 DEF TypeInv, HoldsJob, Attempting
  <2>2. MyRow(w) \in JobRow
    BY <1>5, <2>1, RowType DEF TypeInv, MyRow
  <2>3. /\ Closed(MyRow(w), "completed") \in JobRow
        /\ ~Active(Closed(MyRow(w), "completed"))
    BY <2>2, ClosedType DEF Active
  <2>4. SetRow(reel[w], job[w], Closed(MyRow(w), "completed")) /\ UNCHANGED collects
    BY <1>5 DEF Published
  <2> QED BY <1>r, <2>1, <2>3, <2>4
<1>6. ASSUME NEW w \in Workers, FinishFailure(w)
      PROVE  WithinBudget(jobs'[r], MaxAttempts * collects'[r])
  <2>1. /\ reel[w] \in Reels /\ job[w] \in DOMAIN jobs[reel[w]] /\ again[w] \in BOOLEAN
        /\ UNCHANGED collects
    BY <1>6 DEF FinishFailure, TypeInv, TypeOK, HoldsJob, Attempting, Procs
  <2>2. CASE OwnedRunning(w) /\ r = reel[w]
    <3>1. /\ jobs'[r] = FailedRows(jobs[r], job[w], again[w])
          /\ jobs[r][job[w]].status = "running"
      BY <1>0, <1>6, <2>2 DEF FinishFailure, OwnedRunning, MyRow
    <3> QED BY <1>f, <2>1, <2>2, <3>1
  <2>3. CASE ~(OwnedRunning(w) /\ r = reel[w])
    <3>1. jobs'[r] = jobs[r]
      BY <1>0, <1>6, <2>1, <2>3 DEF FinishFailure
    <3> QED BY <1>s, <2>1, <3>1
  <2> QED BY <2>2, <2>3
<1>7. CASE UNCHANGED <<jobs, collects>>
  BY <1>s, <1>7
<1> QED
  BY <1>1, <1>2, <1>3, <1>4, <1>5, <1>6, <1>7
  DEF Next, Reconcile, RunOnce, vars, dbVars, Cancel, Crash, Start,
      SweepStaging, ScanCleanup, ScrubSource, SkipSource, ClearScrubbed, Reconciled,
      Exit, AttemptFails, DownloadSource, UploadStaging, StatFinal, CopyFinal, CopyFails,
      VerifyFinal, VerifyFails, CommitReady, CommitAnswerLost, CommitFails,
      CheckReference, RemoveUnreferenced, CompensationFails, FinishFailureFails,
      RemoveSource, RemoveSourceFails, ClearCleanup, ClearCleanupFails, CleanupStaging

-----------------------------------------------------------------------------
(* The media of ready Reels *)

\* No attempt outlives its lease, and no two Reels have the same output.
Undisturbed ==
    /\ ~SlowWorkers
    /\ \A r, q \in Reels : r # q => Outputs[r] \cap Outputs[q] = {}

\* The lease under which w works on its job is in force.
Leased(w) == OwnedRunning(w) /\ ~MyRow(w).expired

\* An attempt has its lease until its failure is recorded, unless it is to
\* compensate a commit that was durable.
LeasesHeld ==
    \A w \in Workers : pc[w] \in Attempting \ {"finish"} =>
        Leased(w) \/ (pc[w] = "check" /\ key[w] \in videos)

OutputsOwn == \A w \in Workers : pc[w] \in HasOutput => key[w] \in Outputs[reel[w]]
VideosOwn == \A r \in Reels : video[r] # None => video[r] \in Outputs[r]
PublishedStored == \A w \in Workers : pc[w] = "commit" => key[w] \in final

FinalInv == LeasesHeld /\ OutputsOwn /\ VideosOwn /\ PublishedStored /\ ReadyHasFinal

LEMMA InitFinalInv == Init => FinalInv
<1> SUFFICES ASSUME Init PROVE FinalInv
  OBVIOUS
<1>1. /\ \A w \in Workers : pc[w] = "off"
      /\ \A r \in Reels : video[r] = None /\ status[r] = "discovered"
  BY DEF Init, Procs
<1> QED BY <1>1 DEF FinalInv, LeasesHeld, OutputsOwn, VideosOwn, PublishedStored,
                    ReadyHasFinal, Attempting, HasOutput

\* A Reel has at most one worker whose lease is in force.
LEMMA OneLeased ==
    ASSUME TypeInv, JobInv, NEW v \in Workers, NEW w \in Workers,
           pc[v] \in Attempting, pc[w] \in Attempting, reel[v] = reel[w],
           OwnedRunning(v), OwnedRunning(w)
    PROVE  v = w
<1>1. /\ reel[v] \in Reels /\ job[v] \in DOMAIN jobs[reel[v]]
      /\ reel[w] \in Reels /\ job[w] \in DOMAIN jobs[reel[w]]
  BY DEF TypeInv, HoldsJob
<1>2. job[v] = job[w]
  BY <1>1, RunningIsLast DEF OwnedRunning, MyRow
<1> QED BY <1>2 DEF OwnedRunning, MyRow

\* Under a lease in force no other process changes the rows of the Reel.
LEMMA LeaseKept ==
    ASSUME TypeInv, JobInv, ~SlowWorkers, Next,
           NEW w \in Workers, pc[w] \in Attempting, Leased(w), ~RunOnce(w)
    PROVE  jobs'[reel[w]] = jobs[reel[w]]
<1> DEFINE r == reel[w]
<1>0. jobs \in [Reels -> Seq(JobRow)] /\ Workers \subseteq Procs
  BY DEF TypeInv, TypeOK, Procs
<1>1. r \in Reels /\ job[w] \in DOMAIN jobs[r]
  BY DEF TypeInv, HoldsJob
<1>2. jobs[r][job[w]].status = "running" /\ ~jobs[r][job[w]].expired
      /\ jobs[r][job[w]].worker = w
  BY DEF Leased, OwnedRunning, MyRow
<1>3. status[r] = "normalizing" /\ job[w] = Len(jobs[r])
  BY <1>1, <1>2, RunningIsLast
<1>4. \A i \in DOMAIN jobs[r] : jobs[r][i].status = "running" => i = job[w]
  BY <1>1, <1>3, RunningIsLast
<1> HIDE DEF r
<1>5. ASSUME NEW q \in Reels, CommitSource(q) PROVE jobs'[r] = jobs[r]
  BY <1>0, <1>1, <1>3, <1>5 DEF CommitSource
<1>6. ASSUME NEW q \in Reels, NEW i \in DOMAIN jobs[q], LeaseExpires(q, i) PROVE jobs'[r] = jobs[r]
  <2>1. jobs[q][i].status = "running" /\ ~AtJob(w, q, i)
        /\ jobs' = [jobs EXCEPT ![q] = [jobs[q] EXCEPT ![i] = LeaseOver(jobs[q][i])]]
    BY <1>6 DEF LeaseExpires, SetRow
  <2>2. q # r
    BY <1>4, <2>1 DEF AtJob, r
  <2> QED BY <1>0, <1>1, <2>1, <2>2
<1>7. ASSUME NEW p \in Procs, Recover(p) PROVE jobs'[r] = jobs[r]
  <2>1. ~IsStale(r)
    BY <1>2, <1>4 DEF IsStale, StaleJob
  <2> QED BY <1>1, <1>7, <2>1 DEF Recover
<1>8. ASSUME NEW v \in Workers, NEW q \in Reels, NEW i \in DOMAIN jobs[q], Claim(v, q, i)
      PROVE  jobs'[r] = jobs[r]
  <2>1. q # r
    BY <1>3, <1>8 DEF Claim, Claimable
  <2>2. \E row : jobs' = [jobs EXCEPT ![q] = [jobs[q] EXCEPT ![i] = row]]
    BY <1>8 DEF Claim, SetRow
  <2> QED BY <1>0, <1>1, <2>1, <2>2
<1>9. ASSUME NEW v \in Workers, CommitReady(v) \/ CommitAnswerLost(v) PROVE jobs'[r] = jobs[r]
  <2>0. RunOnce(v)
    BY <1>9 DEF RunOnce
  <2>1. v # w /\ pc[v] \in Attempting /\ OwnedRunning(v)
    BY <1>9, <2>0 DEF CommitReady, CommitAnswerLost, Published, Attempting
  <2>2. reel[v] # r
    BY <2>1, OneLeased DEF Leased, r
  <2>3. \E rows : jobs' = [jobs EXCEPT ![reel[v]] = rows]
    BY <1>9 DEF CommitReady, CommitAnswerLost, Published, SetRow
  <2> QED BY <1>0, <1>1, <2>2, <2>3
<1>10. ASSUME NEW v \in Workers, FinishFailure(v) PROVE jobs'[r] = jobs[r]
  <2>0. RunOnce(v)
    BY <1>10 DEF RunOnce
  <2>1. v # w /\ pc[v] \in Attempting
    BY <1>10, <2>0 DEF FinishFailure, Attempting
  <2>2. CASE OwnedRunning(v)
    <3>1. reel[v] # r
      BY <2>1, <2>2, OneLeased DEF Leased, r
    <3>2. \E rows : jobs' = [jobs EXCEPT ![reel[v]] = rows]
      BY <1>10, <2>2 DEF FinishFailure
    <3> QED BY <1>0, <1>1, <3>1, <3>2
  <2>3. CASE ~OwnedRunning(v)
    BY <1>10, <2>3 DEF FinishFailure
  <2> QED BY <2>2, <2>3
<1>11. CASE UNCHANGED jobs
  BY <1>11
<1>12. jobs'[r] = jobs[r]
  BY <1>5, <1>6, <1>7, <1>8, <1>9, <1>10, <1>11
  DEF Next, Reconcile, RunOnce, dbVars, Cancel, Crash, Start,
      SweepStaging, ScanCleanup, ScrubSource, SkipSource, ClearScrubbed, Reconciled,
      Exit, AttemptFails, DownloadSource, UploadStaging, StatFinal, CopyFinal, CopyFails,
      VerifyFinal, VerifyFails, CommitFails,
      CheckReference, RemoveUnreferenced, CompensationFails, FinishFailureFails,
      RemoveSource, RemoveSourceFails, ClearCleanup, ClearCleanupFails, CleanupStaging
<1> QED BY <1>12 DEF r

\* What the step of another process leaves to w.
LEMMA OthersKeep ==
    ASSUME TypeInv, Next, NEW w \in Workers, ~RunOnce(w), ~Crash(w), ~Reconcile(w)
    PROVE  pc'[w] = pc[w] /\ reel'[w] = reel[w] /\ job'[w] = job[w] /\ key'[w] = key[w]
<1>0. /\ pc \in [Procs -> Labels] /\ reel \in [Procs -> Reels \cup {None}]
      /\ job \in [Procs -> Nat] /\ key \in [Procs -> Keys \cup {None}]
      /\ w \in Procs
  BY DEF TypeInv, TypeOK, Procs
<1>1. ASSUME NEW q \in Reels, CommitSource(q) PROVE UNCHANGED <<pc, claimVars>>
  BY <1>1 DEF CommitSource
<1>2. ASSUME NEW q \in Reels, NEW i \in DOMAIN jobs[q], LeaseExpires(q, i)
      PROVE  UNCHANGED <<pc, claimVars>>
  BY <1>2 DEF LeaseExpires
<1>3. ASSUME NEW v \in Workers, Cancel(v) PROVE UNCHANGED <<pc, claimVars>>
  BY <1>3 DEF Cancel
<1>4. ASSUME NEW p \in Procs \ {w}, Reconcile(p) \/ Crash(p)
      PROVE  pc'[w] = pc[w] /\ reel'[w] = reel[w] /\ job'[w] = job[w] /\ key'[w] = key[w]
  BY <1>0, <1>4 DEF Reconcile, Crash, Start, Recover, SweepStaging, ScanCleanup, ScrubSource,
                    SkipSource, ClearScrubbed, Reconciled, Goto, Forget, claimVars
<1>5. ASSUME NEW v \in Workers \ {w}, RunOnce(v)
      PROVE  pc'[w] = pc[w] /\ reel'[w] = reel[w] /\ job'[w] = job[w] /\ key'[w] = key[w]
  <2>1. ASSUME NEW q \in Reels, NEW i \in DOMAIN jobs[q], Claim(v, q, i)
        PROVE  pc'[w] = pc[w] /\ reel'[w] = reel[w] /\ job'[w] = job[w] /\ key'[w] = key[w]
    BY <1>0, <1>5, <2>1 DEF Claim, Goto
  <2>2. CASE Exit(v) \/ AttemptFails(v) \/ DownloadSource(v) \/ UploadStaging(v) \/ StatFinal(v)
    BY <1>0, <1>5, <2>2 DEF Exit, AttemptFails, DownloadSource, UploadStaging, StatFinal,
                            Raise, Goto, claimVars
  <2>3. CASE CopyFinal(v) \/ CopyFails(v) \/ VerifyFinal(v) \/ VerifyFails(v)
    BY <1>0, <1>5, <2>3 DEF CopyFinal, CopyFails, VerifyFinal, VerifyFails,
                            Raise, Goto, claimVars
  <2>4. CASE CommitReady(v) \/ CommitAnswerLost(v) \/ CommitFails(v)
    BY <1>0, <1>5, <2>4 DEF CommitReady, CommitAnswerLost, CommitFails, Raise, Goto, claimVars
  <2>5. CASE CheckReference(v) \/ RemoveUnreferenced(v) \/ CompensationFails(v)
             \/ FinishFailure(v) \/ FinishFailureFails(v)
    BY <1>0, <1>5, <2>5 DEF CheckReference, RemoveUnreferenced, CompensationFails,
                            FinishFailure, FinishFailureFails, Goto, claimVars
  <2>6. CASE RemoveSource(v) \/ RemoveSourceFails(v) \/ ClearCleanup(v) \/ ClearCleanupFails(v)
             \/ CleanupStaging(v)
    BY <1>0, <1>5, <2>6 DEF RemoveSource, RemoveSourceFails, ClearCleanup, ClearCleanupFails,
                            CleanupStaging, Raise, Goto, Forget, claimVars
  <2> QED BY <1>5, <2>1, <2>2, <2>3, <2>4, <2>5, <2>6 DEF RunOnce
<1> QED BY <1>1, <1>2, <1>3, <1>4, <1>5 DEF Next, claimVars

\* Only a compensation takes a final object away.
LEMMA FinalRemoved ==
    ASSUME Next, NEW k \in final, k \notin final'
    PROVE  \E v \in Workers : RemoveUnreferenced(v) /\ key[v] = k
<1>1. ASSUME NEW p \in Procs, Reconcile(p) PROVE final' = final
  BY <1>1 DEF Reconcile, Start, Recover, SweepStaging, ScanCleanup, ScrubSource,
              SkipSource, ClearScrubbed, Reconciled, storeVars
<1>2. ASSUME NEW w \in Workers, RunOnce(w) PROVE final \subseteq final' \/ RemoveUnreferenced(w)
  BY <1>2 DEF RunOnce, storeVars, Claim, Exit, AttemptFails, DownloadSource, UploadStaging,
              StatFinal, CopyFinal, CopyFails, VerifyFinal, VerifyFails, CommitReady,
              CommitAnswerLost, CommitFails, CheckReference, CompensationFails,
              FinishFailure, FinishFailureFails, RemoveSource, RemoveSourceFails,
              ClearCleanup, ClearCleanupFails, CleanupStaging
<1>3. \E v \in Workers : RemoveUnreferenced(v)
  BY <1>1, <1>2 DEF Next, CommitSource, LeaseExpires, Crash, Cancel, storeVars
<1> QED BY <1>3 DEF RemoveUnreferenced

\* No Video row is removed.
LEMMA VideosGrow ==
    ASSUME TypeInv, JobInv, Next
    PROVE  videos \subseteq videos'
<1>1. ASSUME NEW w \in Workers, pc[w] = "commit", Published(w) PROVE videos \subseteq videos'
  BY <1>1 DEF Published
<1> QED BY <1>1, OnlyPublished

\* An attempt keeps its lease to the end, or is to compensate a durable commit.
LEMMA StepLeases ==
    ASSUME TypeInv, JobInv, ~SlowWorkers, LeasesHeld, Next
    PROVE  LeasesHeld'
<1> DEFINE Busy == Attempting \ {"finish"}
<1> SUFFICES ASSUME NEW w \in Workers, pc'[w] \in Busy
             PROVE  Leased(w)' \/ (pc'[w] = "check" /\ key'[w] \in videos')
  BY DEF LeasesHeld
<1>0. /\ pc \in [Procs -> Labels] /\ reel \in [Procs -> Reels \cup {None}]
      /\ job \in [Procs -> Nat] /\ key \in [Procs -> Keys \cup {None}]
      /\ jobs \in [Reels -> Seq(JobRow)] /\ w \in Procs
  BY DEF TypeInv, TypeOK, Procs
<1>1. ASSUME jobs'[reel[w]] = jobs[reel[w]], reel'[w] = reel[w], job'[w] = job[w], Leased(w)
      PROVE  Leased(w)'
  BY <1>1 DEF Leased, OwnedRunning, MyRow
<1>2. ASSUME RunOnce(w), pc[w] \in Busy, jobs' = jobs, reel'[w] = reel[w], job'[w] = job[w],
             pc[w] = "check" => key[w] \notin videos
      PROVE  Leased(w)'
  BY <1>1, <1>2 DEF LeasesHeld
<1>3. CASE RunOnce(w)
  <2>1. ASSUME NEW r \in Reels, NEW i \in DOMAIN jobs[r], Claim(w, r, i) PROVE Leased(w)'
    <3>1. ~(jobs[r][i].attempt + 1 > MaxAttempts)
      BY <1>0, <2>1 DEF Claim, Attempting
    <3>2. /\ reel'[w] = r /\ job'[w] = i
          /\ jobs' = [jobs EXCEPT ![r] = [jobs[r] EXCEPT ![i] = ClaimedRow(jobs[r][i], w)]]
      BY <1>0, <2>1, <3>1 DEF Claim, SetRow
    <3>3. jobs'[r][i] = ClaimedRow(jobs[r][i], w)
      BY <1>0, <3>2
    <3>4. MyRow(w)' = ClaimedRow(jobs[r][i], w)
      BY <3>2, <3>3 DEF MyRow
    <3> QED BY <3>4 DEF Leased, OwnedRunning, ClaimedRow
  <2>2. CASE DownloadSource(w) \/ UploadStaging(w) \/ StatFinal(w) \/ CopyFinal(w)
    <3>1. /\ pc[w] \in Busy \ {"check"} /\ jobs' = jobs
          /\ reel'[w] = reel[w] /\ job'[w] = job[w]
      BY <2>2 DEF DownloadSource, UploadStaging, StatFinal, CopyFinal, Attempting, dbVars, claimVars
    <3> QED BY <1>2, <1>3, <3>1
  <2>3. CASE VerifyFinal(w) \/ VerifyFails(w) \/ CommitFails(w)
    <3>1. /\ pc[w] \in Busy \ {"check"} /\ jobs' = jobs
          /\ reel'[w] = reel[w] /\ job'[w] = job[w]
      BY <2>3 DEF VerifyFinal, VerifyFails, CommitFails, Raise, Attempting, dbVars, claimVars
    <3> QED BY <1>2, <1>3, <3>1
  <2>4. CASE CheckReference(w)
    <3>1. /\ pc[w] = "check" /\ key[w] \notin videos /\ jobs' = jobs
          /\ reel'[w] = reel[w] /\ job'[w] = job[w]
      BY <1>0, <2>4 DEF CheckReference, Goto, dbVars, claimVars
    <3>2. "check" \in Busy
      BY DEF Attempting
    <3> QED BY <1>2, <1>3, <3>1, <3>2
  <2>5. CASE CommitAnswerLost(w)
    BY <1>0, <2>5 DEF CommitAnswerLost, Published, Raise, Goto
  <2>6. CASE Exit(w) \/ AttemptFails(w) \/ CopyFails(w) \/ CommitReady(w)
             \/ RemoveUnreferenced(w) \/ CompensationFails(w)
    BY <1>0, <2>6 DEF Exit, AttemptFails, CopyFails, CommitReady, RemoveUnreferenced,
                      CompensationFails, Raise, Goto, Attempting
  <2>7. CASE FinishFailure(w) \/ FinishFailureFails(w) \/ RemoveSource(w) \/ RemoveSourceFails(w)
             \/ ClearCleanup(w) \/ ClearCleanupFails(w) \/ CleanupStaging(w)
    BY <1>0, <2>7 DEF FinishFailure, FinishFailureFails, RemoveSource, RemoveSourceFails,
                      ClearCleanup, ClearCleanupFails, CleanupStaging, Raise, Goto, Attempting
  <2> QED BY <1>3, <2>1, <2>2, <2>3, <2>4, <2>5, <2>6, <2>7 DEF RunOnce
<1>4. CASE Crash(w) \/ Reconcile(w)
  BY <1>0, <1>4 DEF Crash, Reconcile, Start, Recover, SweepStaging, ScanCleanup, ScrubSource,
                    SkipSource, ClearScrubbed, Reconciled, Goto, Attempting
<1>5. CASE ~RunOnce(w) /\ ~Crash(w) /\ ~Reconcile(w)
  <2>1. pc'[w] = pc[w] /\ reel'[w] = reel[w] /\ job'[w] = job[w] /\ key'[w] = key[w]
    BY <1>5, OthersKeep
  <2>2. CASE Leased(w)
    <3>1. pc[w] \in Attempting
      BY <2>1
    <3> QED BY <1>1, <1>5, <2>1, <2>2, <3>1, LeaseKept
  <2>3. CASE ~Leased(w)
    <3>1. pc[w] = "check" /\ key[w] \in videos
      BY <2>1, <2>3 DEF LeasesHeld
    <3>2. videos \subseteq videos'
      BY VideosGrow
    <3> QED BY <2>1, <3>1, <3>2
  <2> QED BY <2>2, <2>3
<1> QED BY <1>3, <1>4, <1>5

\* What is published is an output of the Reel.
LEMMA StepOutputs ==
    ASSUME TypeInv, OutputsOwn, Next
    PROVE  OutputsOwn'
<1> SUFFICES ASSUME NEW w \in Workers, pc'[w] \in HasOutput PROVE key'[w] \in Outputs[reel'[w]]
  BY DEF OutputsOwn
<1>0. /\ pc \in [Procs -> Labels] /\ reel \in [Procs -> Reels \cup {None}]
      /\ key \in [Procs -> Keys \cup {None}] /\ w \in Procs
  BY DEF TypeInv, TypeOK, Procs
<1>1. ASSUME pc[w] \in HasOutput, reel'[w] = reel[w], key'[w] = key[w]
      PROVE  key'[w] \in Outputs[reel'[w]]
  BY <1>1 DEF OutputsOwn
<1>2. CASE RunOnce(w)
  <2>1. CASE UploadStaging(w)
    BY <1>0, <2>1 DEF UploadStaging
  <2>2. CASE StatFinal(w) \/ CopyFinal(w) \/ VerifyFinal(w) \/ VerifyFails(w)
    <3>1. pc[w] \in HasOutput /\ reel'[w] = reel[w] /\ key'[w] = key[w]
      BY <2>2 DEF StatFinal, CopyFinal, VerifyFinal, VerifyFails, Raise, claimVars, HasOutput
    <3> QED BY <1>1, <3>1
  <2>3. CASE CommitAnswerLost(w) \/ CommitFails(w) \/ CheckReference(w)
    <3>1. pc[w] \in HasOutput /\ reel'[w] = reel[w] /\ key'[w] = key[w]
      BY <2>3 DEF CommitAnswerLost, CommitFails, CheckReference, Raise, claimVars, HasOutput
    <3> QED BY <1>1, <3>1
  <2>4. ASSUME NEW r \in Reels, NEW i \in DOMAIN jobs[r], Claim(w, r, i) PROVE FALSE
    BY <1>0, <2>4 DEF Claim, Goto, HasOutput
  <2>5. CASE Exit(w) \/ AttemptFails(w) \/ DownloadSource(w) \/ CopyFails(w) \/ CommitReady(w)
             \/ RemoveUnreferenced(w) \/ CompensationFails(w)
    BY <1>0, <2>5 DEF Exit, AttemptFails, DownloadSource, CopyFails, CommitReady,
                      RemoveUnreferenced, CompensationFails, Raise, Goto, HasOutput
  <2>6. CASE FinishFailure(w) \/ FinishFailureFails(w) \/ RemoveSource(w) \/ RemoveSourceFails(w)
             \/ ClearCleanup(w) \/ ClearCleanupFails(w) \/ CleanupStaging(w)
    BY <1>0, <2>6 DEF FinishFailure, FinishFailureFails, RemoveSource, RemoveSourceFails,
                      ClearCleanup, ClearCleanupFails, CleanupStaging, Raise, Goto, HasOutput
  <2> QED BY <1>2, <2>1, <2>2, <2>3, <2>4, <2>5, <2>6 DEF RunOnce
<1>3. CASE Crash(w) \/ Reconcile(w)
  BY <1>0, <1>3 DEF Crash, Reconcile, Start, Recover, SweepStaging, ScanCleanup, ScrubSource,
                    SkipSource, ClearScrubbed, Reconciled, Goto, HasOutput
<1>4. CASE ~RunOnce(w) /\ ~Crash(w) /\ ~Reconcile(w)
  BY <1>1, <1>4, OthersKeep
<1> QED BY <1>2, <1>3, <1>4

\* A Video row names an output of its Reel.
LEMMA StepVideosOwn ==
    ASSUME TypeInv, JobInv, OutputsOwn, VideosOwn, Next
    PROVE  VideosOwn'
<1>1. CASE ~\E w \in Workers : pc[w] = "commit" /\ Published(w)
  BY <1>1, OnlyPublished DEF VideosOwn
<1>2. ASSUME NEW w \in Workers, pc[w] = "commit", Published(w) PROVE VideosOwn'
  <2>1. video \in [Reels -> Keys \cup {None}] /\ video' = [video EXCEPT ![reel[w]] = key[w]]
    BY <1>2 DEF TypeInv, TypeOK, Published
  <2>2. key[w] \in Outputs[reel[w]]
    BY <1>2 DEF OutputsOwn, HasOutput
  <2> QED BY <2>1, <2>2 DEF VideosOwn
<1> QED BY <1>1, <1>2

\* Whoever removes a final object holds the lease of the Reel whose output it is.
LEMMA RemoverOwns ==
    ASSUME TypeInv, JobInv, LeasesHeld, OutputsOwn,
           \A r, q \in Reels : r # q => Outputs[r] \cap Outputs[q] = {},
           NEW v \in Workers, RemoveUnreferenced(v), NEW r \in Reels, key[v] \in Outputs[r]
    PROVE  pc[v] = "unpublish" /\ OwnedRunning(v) /\ reel[v] = r /\ status[r] = "normalizing"
<1>1. pc[v] = "unpublish" /\ pc[v] \in Attempting
  BY DEF RemoveUnreferenced, Attempting
<1>2. OwnedRunning(v)
  BY <1>1 DEF LeasesHeld, Leased
<1>3. reel[v] \in Reels /\ job[v] \in DOMAIN jobs[reel[v]]
  BY <1>1 DEF TypeInv, HoldsJob
<1>4. reel[v] = r
  BY <1>1, <1>3 DEF OutputsOwn, HasOutput
<1>5. status[r] = "normalizing"
  BY <1>2, <1>3, <1>4, RunningIsLast DEF OwnedRunning, MyRow
<1> QED BY <1>1, <1>2, <1>4, <1>5

\* The object that is about to be committed stays.
LEMMA StepStored ==
    ASSUME TypeInv, JobInv, Undisturbed, LeasesHeld, OutputsOwn, PublishedStored, Next
    PROVE  PublishedStored'
<1> SUFFICES ASSUME NEW w \in Workers, pc'[w] = "commit" PROVE key'[w] \in final'
  BY DEF PublishedStored
<1>0. pc \in [Procs -> Labels] /\ w \in Procs
  BY DEF TypeInv, TypeOK, Procs
<1>1. CASE RunOnce(w)
  <2>1. CASE VerifyFinal(w)
    <3>1. pc[w] = "verify" /\ key[w] \in final /\ final' = final /\ key'[w] = key[w]
      BY <2>1 DEF VerifyFinal, Raise, claimVars, storeVars
    <3> QED BY <3>1
  <2>2. ASSUME NEW r \in Reels, NEW i \in DOMAIN jobs[r], Claim(w, r, i) PROVE FALSE
    BY <1>0, <2>2 DEF Claim, Goto
  <2>3. CASE Exit(w) \/ AttemptFails(w) \/ DownloadSource(w) \/ UploadStaging(w) \/ StatFinal(w)
             \/ CopyFinal(w) \/ CopyFails(w) \/ VerifyFails(w)
    BY <1>0, <2>3 DEF Exit, AttemptFails, DownloadSource, UploadStaging, StatFinal, CopyFinal,
                      CopyFails, VerifyFails, Raise, Goto
  <2>4. CASE CommitReady(w) \/ CommitAnswerLost(w) \/ CommitFails(w) \/ CheckReference(w)
             \/ RemoveUnreferenced(w) \/ CompensationFails(w)
    BY <1>0, <2>4 DEF CommitReady, CommitAnswerLost, CommitFails, CheckReference,
                      RemoveUnreferenced, CompensationFails, Raise, Goto
  <2>5. CASE FinishFailure(w) \/ FinishFailureFails(w) \/ RemoveSource(w) \/ RemoveSourceFails(w)
             \/ ClearCleanup(w) \/ ClearCleanupFails(w) \/ CleanupStaging(w)
    BY <1>0, <2>5 DEF FinishFailure, FinishFailureFails, RemoveSource, RemoveSourceFails,
                      ClearCleanup, ClearCleanupFails, CleanupStaging, Raise, Goto
  <2> QED BY <1>1, <2>1, <2>2, <2>3, <2>4, <2>5 DEF RunOnce
<1>2. CASE Crash(w) \/ Reconcile(w)
  BY <1>0, <1>2 DEF Crash, Reconcile, Start, Recover, SweepStaging, ScanCleanup, ScrubSource,
                    SkipSource, ClearScrubbed, Reconciled, Goto
<1>3. CASE ~RunOnce(w) /\ ~Crash(w) /\ ~Reconcile(w)
  <2>1. pc[w] = "commit" /\ key'[w] = key[w]
    BY <1>3, OthersKeep
  <2>2. key[w] \in final /\ key[w] \in Outputs[reel[w]] /\ pc[w] \in Attempting
    BY <2>1 DEF PublishedStored, OutputsOwn, HasOutput, Attempting
  <2>3. reel[w] \in Reels /\ OwnedRunning(w)
    BY <2>1, <2>2 DEF TypeInv, HoldsJob, LeasesHeld, Leased
  <2>4. ASSUME NEW v \in Workers, RemoveUnreferenced(v), key[v] = key[w] PROVE FALSE
    <3>1. pc[v] = "unpublish" /\ OwnedRunning(v) /\ reel[v] = reel[w]
      BY <2>2, <2>3, <2>4, RemoverOwns DEF Undisturbed
    <3>2. pc[v] \in Attempting
      BY <3>1 DEF Attempting
    <3>3. v = w
      BY <2>2, <2>3, <3>1, <3>2, OneLeased
    <3> QED BY <2>1, <3>1, <3>3
  <2> QED BY <2>1, <2>2, <2>4, FinalRemoved
<1> QED BY <1>1, <1>2, <1>3

\* The object of a ready Reel stays.
LEMMA StepFinal ==
    ASSUME TypeInv, JobInv, ReadyHasOwnVideo, Undisturbed, FinalInv, Next
    PROVE  ReadyHasFinal'
<1> SUFFICES ASSUME NEW r \in Reels, status'[r] = "ready" PROVE video'[r] \in final'
  BY DEF ReadyHasFinal
<1> USE DEF FinalInv
<1>1. ASSUME status[r] = "ready", video'[r] = video[r] PROVE video'[r] \in final'
  <2>1. video[r] \in final /\ video[r] \in Outputs[r]
    BY <1>1 DEF ReadyHasFinal, ReadyHasOwnVideo, VideosOwn
  <2>2. ASSUME NEW v \in Workers, RemoveUnreferenced(v), key[v] = video[r] PROVE FALSE
    BY <1>1, <2>1, <2>2, RemoverOwns DEF Undisturbed
  <2> QED BY <1>1, <2>1, <2>2, FinalRemoved
<1>2. CASE ~\E w \in Workers : pc[w] = "commit" /\ Published(w)
  BY <1>1, <1>2, OnlyPublished
<1>3. ASSUME NEW w \in Workers, pc[w] = "commit", Published(w) PROVE video'[r] \in final'
  <2>1. /\ status' = [status EXCEPT ![reel[w]] = "ready"]
        /\ video' = [video EXCEPT ![reel[w]] = key[w]]
        /\ OwnedRunning(w) /\ key[w] \in final /\ key[w] \in Outputs[reel[w]]
    BY <1>3 DEF Published, PublishedStored, OutputsOwn, HasOutput
  <2>2. reel[w] \in Reels /\ job[w] \in DOMAIN jobs[reel[w]]
    BY <1>3 DEF TypeInv, HoldsJob, Attempting
  <2>3. status[reel[w]] = "normalizing"
    BY <2>1, <2>2, RunningIsLast DEF OwnedRunning, MyRow
  <2>4. video \in [Reels -> Keys \cup {None}] /\ status \in [Reels -> ReelStatuses]
    BY DEF TypeInv, TypeOK
  <2>5. CASE r # reel[w]
    BY <1>1, <2>1, <2>2, <2>4, <2>5
  <2>6. CASE r = reel[w]
    <3>1. ASSUME NEW v \in Workers, RemoveUnreferenced(v) PROVE FALSE
      <4>1. status' = status
        BY <3>1 DEF RemoveUnreferenced, dbVars
      <4> QED BY <2>1, <2>2, <2>3, <2>4, <4>1
    <3>2. key[w] \in final'
      BY <2>1, <3>1, FinalRemoved
    <3> QED BY <2>1, <2>4, <2>6, <3>2
  <2> QED BY <2>5, <2>6
<1> QED BY <1>2, <1>3

LEMMA StepFinalInv ==
    ASSUME TypeInv, JobInv, ReadyHasOwnVideo, Undisturbed, FinalInv, [Next]_vars
    PROVE  FinalInv'
<1>1. CASE Next
  BY <1>1, StepLeases, StepOutputs, StepVideosOwn, StepStored, StepFinal DEF FinalInv, Undisturbed
<1>2. CASE UNCHANGED vars
  BY <1>2 DEF vars, FinalInv, LeasesHeld, Leased, OwnedRunning, MyRow, OutputsOwn, VideosOwn,
              PublishedStored, ReadyHasFinal
<1> QED BY <1>1, <1>2

-----------------------------------------------------------------------------
(* The theorems *)

\* What every state satisfies: the types with what each process holds, the jobs
\* with the attempts they have left and the room for them, and the sources with
\* their removers.
Inv == TypeInv /\ JobInv /\ Budget /\ SourceInv /\ ReadyHasOwnVideo

\* The conjunction of the inductive invariants holds in every state the
\* processes of worker.py can reach, for any number of Reels, keys and workers.
THEOREM Invariance == Spec => []Inv
<1>1. Init => Inv
  BY InitTypeInv, InitJobInv, InitBudget, InitSourceInv, InitVideos DEF Inv
<1>2. Inv /\ [Next]_vars => Inv'
  BY StepTypeInv, StepJobInv, StepBudget, StepSourceInv, StepVideos DEF Inv
<1> QED BY <1>1, <1>2, PTL DEF Spec

\* Every variable of the normalizer keeps its type in every reachable state.
THEOREM TypeCorrect == Spec => []TypeOK
<1>1. Inv => TypeOK
  BY DEF Inv, TypeInv
<1> QED BY <1>1, Invariance, PTL

\* claim, reconcile, _commit_ready and _finish_failure keep the status of a Reel
\* and its job rows in agreement, however many workers run.
THEOREM JobsAlwaysMatch == Spec => []JobsMatchReel
<1>1. Inv => JobsMatchReel
  BY DEF Inv, JobInv
<1> QED BY <1>1, Invariance, PTL

\* Whatever fails, and however often leases expire, a Reel gets at most
\* MaxAttempts jobs for each source, and claim() never meets an exhausted one.
THEOREM RetriesAlwaysBounded == Spec => []RetriesBounded
<1>1. Inv => RetriesBounded
  BY DEF Inv, Budget, WithinBudget, JobInv, AttemptsLeft, RetriesBounded
<1> QED BY <1>1, Invariance, PTL

\* No worker and no reconcile pass removes the source of a Reel that is still to
\* be normalized.
THEOREM SourceAlwaysKept == Spec => []SourceKept
<1>1. Inv => SourceKept
  BY DEF Inv, SourceInv
<1> QED BY <1>1, Invariance, PTL

\* source_cleanup_pending stays set until the source object is gone, through
\* every crash and failure between the removal and the update of the flag.
THEOREM CleanupAlwaysRemembered == Spec => []CleanupRemembered
<1>1. Inv => CleanupRemembered
  BY DEF Inv, SourceInv
<1> QED BY <1>1, Invariance, PTL

\* A Reel is ready exactly when it has a Video row, and that row is its own.
THEOREM VideoAlwaysOwn == Spec => []ReadyHasOwnVideo
<1>1. Inv => ReadyHasOwnVideo
  BY DEF Inv
<1> QED BY <1>1, Invariance, PTL

\* Every step continues the history of the job rows.
THEOREM HistoryAlwaysKept == Spec => JobHistoryKept
<1>1. Inv /\ [Next]_vars => [\A r \in Reels : Continues(jobs[r], jobs'[r])]_vars
  BY StepHistory DEF Inv
<1> QED BY <1>1, Invariance, PTL DEF Spec, JobHistoryKept

\* A worker that does not own the running job of the Reel it is at changes no
\* row (the re-checks of _commit_ready and _finish_failure); a Reel becomes ready
\* only by a step of its owner, and leaves normalizing only by one or when the
\* lease of the job has expired.
THEOREM StaleWorkerAlwaysHarmless == Spec => StaleWorkerHarmless
<1>1. Inv /\ [Next]_vars =>
          [/\ \A w \in Workers : Acts(w) /\ ~Owner(w, reel[w]) => UNCHANGED dbVars
           /\ \A r \in Reels : MovesProperly(r)]_vars
  <2>1. ASSUME Inv, [Next]_vars
        PROVE  /\ \A w \in Workers : Acts(w) /\ ~Owner(w, reel[w]) => UNCHANGED dbVars
               /\ \A r \in Reels : MovesProperly(r)
    BY <2>1, StaleChangesNothing, StepMoves DEF Inv
  <2> QED BY <2>1
<1> QED BY <1>1, Invariance, PTL DEF Spec, StaleWorkerHarmless

\* If no attempt outlives its lease and no two Reels have the same output, every
\* ready Reel has its media, through every crash, lost answer and compensation
\* (_publish_final, _commit_ready, _compensate_final_if_unreferenced).
THEOREM ReadyAlwaysHasFinal == ASSUME Undisturbed PROVE Spec => []ReadyHasFinal
<1>1. Inv /\ FinalInv /\ [Next]_vars => FinalInv'
  BY StepFinalInv DEF Inv
<1>2. FinalInv => ReadyHasFinal
  BY DEF FinalInv
<1> QED BY <1>1, <1>2, InitFinalInv, Invariance, PTL DEF Spec
=============================================================================
