-------------------------- MODULE CollectorProofs ---------------------------
(***************************************************************************)
(* Proofs about the Collector, for every set of Reels, accounts and        *)
(* processes, every target and every number of runs.                       *)
(***************************************************************************)
EXTENDS Collector, FiniteSetTheorems, SequenceTheorems, TLAPS

-----------------------------------------------------------------------------
(* The inductive invariant *)

\* A row has all the Reels it was asked for, and no failure.
Reached(row) == row.committed + row.available = row.target /\ row.failed = 0

\* What RunAddsUp says of one row, and that it never counts past its target.
RowAddsUp(row) ==
    /\ row.committed = OfOutcome(row, {"source_committed"})
    /\ row.available = OfOutcome(row, {"already_available"})
    /\ row.failed = OfOutcome(row, {"failed"})
    /\ Counted(row) = Len(row.items)
    /\ Counted(row) <= row.target
    /\ \A x \in DOMAIN row.items : row.items[x].position = x
    /\ \A x, y \in DOMAIN row.items : row.items[x].reel = row.items[y].reel => x = y
    /\ row.status = "completed" => Reached(row)

RowsAddUp == \A i \in DOMAIN runs : RowAddsUp(runs[i])

\* An account has at most one run that is queued or running.
OneActive ==
    \A i, j \in DOMAIN runs :
        runs[i].account = runs[j].account /\ ActiveRun(runs[i]) /\ ActiveRun(runs[j]) => i = j

\* What the run of process c looks like while c works on it.
RunOK(c) ==
    /\ MyRun(c).status # "queued"
    /\ MyRun(c).account = AccountOf[c]
    /\ pc[c] # "refuse" => want[c] = MyRun(c).target
    /\ pc[c] = "complete" => Enough(c)
    /\ ~CancelLive => \/ MyRun(c).status = "running"
                      \/ pc[c] = "fail" /\ MyRun(c).status = "completed"

ProcOK(c) ==
    /\ pc[c] = "off" => run[c] = 0
    /\ run[c] = 0 => pc[c] \in {"off", "setup"}
    /\ pc[c] \in Walking => cand[c] \in Reels
    /\ pc[c] \in {"publish", "put", "commit"} => copy[c] \in Contents
    /\ run[c] # 0 => RunOK(c)

ProcsOK == \A c \in Collectors : ProcOK(c)

\* No two processes work on the same run.
OneHolder == \A c, d \in Collectors : run[c] # 0 /\ run[c] = run[d] => c = d

Inv == TypeOK /\ RowsAddUp /\ OneActive /\ ProcsOK /\ OneHolder

\* Under these conditions a Reel is never worked on by two processes: all of
\* them collect for one account, the recovery command is used as documented,
\* and no answer of the database is lost.
Alone ==
    /\ ~CancelLive /\ ~LostCommits
    /\ \A c, d \in Collectors : AccountOf[c] = AccountOf[d]

\* A Reel between the look at its status and the commit of its source has no
\* durable source yet, and what was published for it is what will be committed.
FreshAt(c) ==
    /\ pc[c] \in {"download", "publish", "put", "commit", "undo"} =>
          status[cand[c]] \notin Durable
    /\ pc[c] = "commit" => object[cand[c]] = copy[c]

Fresh == \A c \in Collectors : FreshAt(c)

SourceInv == Alone => Fresh /\ SourceDurable
-----------------------------------------------------------------------------
(* Facts about the rows *)

\* A row whose status and cancel flag were set.
Moved(row, st, b) == [row EXCEPT !.status = st, !.cancel = b]

LEMMA RunType ==
    ASSUME TypeOK, NEW i \in DOMAIN runs
    PROVE  runs[i] \in Run /\ i \in Nat /\ i # 0 /\ i <= Len(runs)
<1>1. runs \in Seq(Run)
  BY DEF TypeOK
<1>2. DOMAIN runs = 1 .. Len(runs) /\ Len(runs) \in Nat
  BY <1>1, LenProperties
<1> QED BY <1>1, <1>2, ElementOfSeq

LEMMA NewRunType ==
    ASSUME NEW a \in Accounts, NEW st \in {"queued", "running"}, NEW n \in Nat
    PROVE  NewRun(a, st, n) \in Run
<1>1. <<>> \in Seq(Item)
  BY EmptySeq
<1> QED BY <1>1 DEF NewRun, Run, RunStatuses

LEMMA MovedType ==
    ASSUME NEW row \in Run, NEW st \in RunStatuses, NEW b \in BOOLEAN
    PROVE  /\ Moved(row, st, b) \in Run
           /\ Moved(row, st, b).status = st
           /\ Moved(row, st, b).cancel = b
           /\ Moved(row, st, b).account = row.account
           /\ Moved(row, st, b).target = row.target
           /\ Moved(row, st, b).items = row.items
           /\ Moved(row, st, b).committed = row.committed
           /\ Moved(row, st, b).available = row.available
           /\ Moved(row, st, b).failed = row.failed
BY DEF Moved, Run

\* Setting the status alone is a move that keeps the flag.
LEMMA StatusMove ==
    ASSUME NEW row \in Run, NEW st
    PROVE  [row EXCEPT !.status = st] = Moved(row, st, row.cancel) /\ row.cancel \in BOOLEAN
BY DEF Moved, Run

LEMMA StatusSet ==
    ASSUME NEW row \in Run, NEW st \in RunStatuses
    PROVE  \E new \in Run :
              /\ new = [row EXCEPT !.status = st] /\ new.status = st
              /\ new.account = row.account /\ new.target = row.target
              /\ new.committed = row.committed /\ new.available = row.available
<1> DEFINE new == [row EXCEPT !.status = st]
<1>1. /\ new \in Run /\ new.status = st /\ new.account = row.account /\ new.target = row.target
      /\ new.committed = row.committed /\ new.available = row.available
  BY DEF Run
<1> HIDE DEF new
<1>2. \E x \in Run : /\ x = new /\ x.status = st
                     /\ x.account = row.account /\ x.target = row.target
                     /\ x.committed = row.committed /\ x.available = row.available
  BY <1>1
<1> QED BY <1>2 DEF new

\* The counters and items of a row as _add_item leaves them.
LEMMA AddedType ==
    ASSUME NEW row \in Run, NEW r \in Reels, NEW o \in Outcomes
    PROVE  LET new == Added(row, r, o)
               item == [reel |-> r, position |-> Counted(row) + 1, outcome |-> o]
           IN  /\ new \in Run
               /\ item \in Item
               /\ new.items = Append(row.items, item)
               /\ new.account = row.account /\ new.status = row.status
               /\ new.target = row.target /\ new.cancel = row.cancel
               /\ new.committed = row.committed + (IF o = "source_committed" THEN 1 ELSE 0)
               /\ new.available = row.available + (IF o = "already_available" THEN 1 ELSE 0)
               /\ new.failed = row.failed + (IF o = "failed" THEN 1 ELSE 0)
<1> DEFINE item == [reel |-> r, position |-> Counted(row) + 1, outcome |-> o]
<1>1. /\ row.items \in Seq(Item) /\ row.committed \in Nat /\ row.available \in Nat
      /\ row.failed \in Nat
  BY DEF Run
<1>2. item \in Item
  BY <1>1 DEF Item, Counted
<1> PICK its \in Seq(Item) : its = Append(row.items, item)
  BY <1>1, <1>2, AppendProperties
<1> DEFINE put == [row EXCEPT !.items = its]
<1>3. Added(row, r, o) =
         CASE o = "source_committed" -> [put EXCEPT !.committed = row.committed + 1]
           [] o = "already_available" -> [put EXCEPT !.available = row.available + 1]
           [] o = "failed" -> [put EXCEPT !.failed = row.failed + 1]
  BY DEF Added
<1>4. put \in Run /\ put.items = its
      /\ put.account = row.account /\ put.status = row.status
      /\ put.target = row.target /\ put.cancel = row.cancel
      /\ put.committed = row.committed /\ put.available = row.available
      /\ put.failed = row.failed
  BY DEF Run
<1> HIDE DEF put, item
<1>5. CASE o = "source_committed"
  <2>1. Added(row, r, o) = [put EXCEPT !.committed = row.committed + 1]
    BY <1>3, <1>5
  <2> QED BY <1>1, <1>2, <1>4, <1>5, <2>1 DEF Run, item
<1>6. CASE o = "already_available"
  <2>1. Added(row, r, o) = [put EXCEPT !.available = row.available + 1]
    BY <1>3, <1>6
  <2> QED BY <1>1, <1>2, <1>4, <1>6, <2>1 DEF Run, item
<1>7. CASE o = "failed"
  <2>1. Added(row, r, o) = [put EXCEPT !.failed = row.failed + 1]
    BY <1>3, <1>7
  <2> QED BY <1>1, <1>2, <1>4, <1>7, <2>1 DEF Run, item
<1> QED BY <1>5, <1>6, <1>7 DEF Outcomes

\* The rows after one of them was replaced ...
LEMMA SetRunRows ==
    ASSUME TypeOK, NEW i \in DOMAIN runs, NEW row \in Run, SetRun(i, row)
    PROVE  /\ runs' \in Seq(Run) /\ Len(runs') = Len(runs) /\ DOMAIN runs' = DOMAIN runs
           /\ runs'[i] = row
           /\ \A j \in DOMAIN runs : j # i => runs'[j] = runs[j]
<1>1. runs \in Seq(Run)
  BY DEF TypeOK
<1>2. runs' = [runs EXCEPT ![i] = row]
  BY DEF SetRun
<1> QED BY <1>1, <1>2, ExceptSeq

\* ... and after one was added.
LEMMA AppendRunRows ==
    ASSUME TypeOK, NEW row \in Run, runs' = Append(runs, row)
    PROVE  /\ runs' \in Seq(Run) /\ Len(runs') = Len(runs) + 1
           /\ DOMAIN runs' = DOMAIN runs \cup {Len(runs) + 1}
           /\ Len(runs) + 1 \notin DOMAIN runs
           /\ runs'[Len(runs) + 1] = row
           /\ \A j \in DOMAIN runs : runs'[j] = runs[j]
<1>1. runs \in Seq(Run) /\ Len(runs) \in Nat /\ DOMAIN runs = 1 .. Len(runs)
  BY LenProperties DEF TypeOK
<1>2. /\ runs' \in Seq(Run) /\ Len(runs') = Len(runs) + 1
      /\ DOMAIN runs' = 1 .. (Len(runs) + 1)
      /\ runs'[Len(runs) + 1] = row
      /\ \A j \in 1 .. Len(runs) : runs'[j] = runs[j]
  BY <1>1, AppendProperties
<1> QED BY <1>1, <1>2

-----------------------------------------------------------------------------
(* Counting items *)

LEMMA NewRunAddsUp ==
    ASSUME NEW a \in Accounts, NEW st \in {"queued", "running"}, NEW n \in Nat
    PROVE  RowAddsUp(NewRun(a, st, n))
<1> DEFINE row == NewRun(a, st, n)
<1>1. /\ row.items = <<>> /\ row.committed = 0 /\ row.available = 0 /\ row.failed = 0
      /\ row.status = st /\ row.target = n
  BY DEF NewRun
<1> HIDE DEF row
<1>2. DOMAIN row.items = {} /\ Len(row.items) = 0
  BY <1>1
<1>3. \A out : {x \in DOMAIN row.items : row.items[x].outcome \in out} = {}
  BY <1>2
<1>4. \A out : OfOutcome(row, out) = 0
  BY <1>3, FS_EmptySet DEF OfOutcome
<1>5. RowAddsUp(row)
  BY <1>1, <1>2, <1>4 DEF RowAddsUp, Counted
<1> QED BY <1>5 DEF row

LEMMA MovedAddsUp ==
    ASSUME NEW row \in Run, RowAddsUp(row), NEW st \in RunStatuses, NEW b \in BOOLEAN,
           st = "completed" => Reached(row)
    PROVE  RowAddsUp(Moved(row, st, b))
<1> DEFINE new == Moved(row, st, b)
<1>1. /\ new.status = st /\ new.items = row.items /\ new.target = row.target
      /\ new.committed = row.committed /\ new.available = row.available
      /\ new.failed = row.failed
  BY MovedType
<1> HIDE DEF new
<1>2. \A out : OfOutcome(new, out) = OfOutcome(row, out)
  BY <1>1 DEF OfOutcome
<1>3. RowAddsUp(new)
  BY <1>1, <1>2 DEF RowAddsUp, Counted, Reached
<1> QED BY <1>3 DEF new

OfItems(items, out) == Cardinality({x \in DOMAIN items : items[x].outcome \in out})

\* One more item is one more of its outcome, and of no other.
LEMMA OneMore ==
    ASSUME NEW items \in Seq(Item), NEW item \in Item, NEW out
    PROVE  /\ OfItems(items, out) \in Nat
           /\ OfItems(Append(items, item), out)
                = OfItems(items, out) + (IF item.outcome \in out THEN 1 ELSE 0)
<1> DEFINE new == Append(items, item)
<1> DEFINE old == {x \in DOMAIN items : items[x].outcome \in out}
<1> DEFINE now == {x \in DOMAIN new : new[x].outcome \in out}
<1>1. Len(items) \in Nat /\ DOMAIN items = 1 .. Len(items)
  BY LenProperties
<1>2. /\ DOMAIN new = 1 .. (Len(items) + 1)
      /\ new[Len(items) + 1] = item
      /\ \A j \in 1 .. Len(items) : new[j] = items[j]
  BY <1>1, AppendProperties
<1> HIDE DEF new
<1>3. now = old \cup (IF item.outcome \in out THEN {Len(items) + 1} ELSE {})
  BY <1>1, <1>2
<1>4. IsFiniteSet(old)
  <2>1. IsFiniteSet(1 .. Len(items))
    BY <1>1, FS_Interval
  <2>2. old \in SUBSET (1 .. Len(items))
    BY <1>1
  <2> QED BY <2>1, <2>2, FS_Subset
<1>5. Cardinality(old) \in Nat
  BY <1>4, FS_CardinalityType
<1>6. Len(items) + 1 \notin old
  BY <1>1
<1> HIDE DEF old, now
<1>7. CASE item.outcome \in out
  <2>1. now = old \cup {Len(items) + 1}
    BY <1>3, <1>7
  <2>2. Cardinality(now) = Cardinality(old) + 1
    BY <1>4, <1>6, <2>1, FS_AddElement
  <2> QED BY <1>5, <1>7, <2>2 DEF old, now, new, OfItems
<1>8. CASE item.outcome \notin out
  <2>1. now = old
    BY <1>3, <1>8
  <2>2. Cardinality(now) = Cardinality(old) + 0
    BY <1>5, <2>1
  <2> QED BY <1>5, <1>8, <2>2 DEF old, now, new, OfItems
<1> QED BY <1>7, <1>8

\* _add_item keeps a row in order, when its constraints allow the item.
LEMMA AddedAddsUp ==
    ASSUME NEW row \in Run, RowAddsUp(row), NEW r \in Reels, NEW o \in Outcomes, Fits(row, r)
    PROVE  RowAddsUp(Added(row, r, o))
<1> DEFINE item == [reel |-> r, position |-> Counted(row) + 1, outcome |-> o]
<1> PICK new \in Run : new = Added(row, r, o)
  BY AddedType
<1>1. /\ item \in Item
      /\ new.items = Append(row.items, item)
      /\ new.status = row.status /\ new.target = row.target
      /\ new.committed = row.committed + (IF o = "source_committed" THEN 1 ELSE 0)
      /\ new.available = row.available + (IF o = "already_available" THEN 1 ELSE 0)
      /\ new.failed = row.failed + (IF o = "failed" THEN 1 ELSE 0)
  BY AddedType
<1>2. /\ row.items \in Seq(Item) /\ row.target \in Nat
      /\ row.committed \in Nat /\ row.available \in Nat /\ row.failed \in Nat
  BY DEF Run
<1>3. item.reel = r /\ item.position = Counted(row) + 1 /\ item.outcome = o
  OBVIOUS
<1> HIDE DEF item
<1>4. \A out : /\ OfOutcome(row, out) \in Nat
               /\ OfOutcome(new, out) = OfOutcome(row, out) + (IF o \in out THEN 1 ELSE 0)
  <2>1. \A out : /\ OfItems(row.items, out) \in Nat
                 /\ OfItems(new.items, out)
                      = OfItems(row.items, out) + (IF item.outcome \in out THEN 1 ELSE 0)
    BY <1>1, <1>2, OneMore
  <2> QED BY <1>3, <2>1 DEF OfOutcome, OfItems
<1>5. Len(row.items) \in Nat /\ DOMAIN row.items = 1 .. Len(row.items)
  BY <1>2, LenProperties
<1>6. /\ Len(new.items) = Len(row.items) + 1
      /\ DOMAIN new.items = 1 .. (Len(row.items) + 1)
      /\ new.items[Len(row.items) + 1] = item
      /\ \A j \in 1 .. Len(row.items) : new.items[j] = row.items[j]
  BY <1>1, <1>2, <1>5, AppendProperties
<1>7. Counted(row) = Len(row.items) /\ Counted(row) < row.target
  BY DEF RowAddsUp, Fits
<1>8. Counted(new) = Counted(row) + 1
  BY <1>1, <1>2 DEF Counted, Outcomes
<1>9. /\ new.committed = OfOutcome(new, {"source_committed"})
      /\ new.available = OfOutcome(new, {"already_available"})
      /\ new.failed = OfOutcome(new, {"failed"})
  BY <1>1, <1>4 DEF RowAddsUp
<1>10. \A x \in DOMAIN new.items : new.items[x].position = x
  BY <1>3, <1>5, <1>6, <1>7 DEF RowAddsUp
<1>11. \A x, y \in DOMAIN new.items : new.items[x].reel = new.items[y].reel => x = y
  <2> DEFINE n == Len(row.items)
  <2>1. /\ \A x, y \in 1 .. n : row.items[x].reel = row.items[y].reel => x = y
        /\ \A x \in 1 .. n : row.items[x].reel # r
    BY <1>5 DEF RowAddsUp, Fits
  <2>2. \A x \in 1 .. n : new.items[x].reel = row.items[x].reel
    BY <1>6
  <2>3. new.items[n + 1].reel = r
    BY <1>3, <1>6
  <2>4. \A x \in DOMAIN new.items : x \in 1 .. n \/ x = n + 1
    BY <1>5, <1>6
  <2> HIDE DEF n
  <2> QED BY <2>1, <2>2, <2>3, <2>4
<1>12. row.status # "completed"
  BY <1>2, <1>7 DEF RowAddsUp, Reached, Counted
<1>13. Counted(new) = Len(new.items) /\ Counted(new) <= new.target
  BY <1>1, <1>2, <1>5, <1>6, <1>7, <1>8
<1> QED BY <1>1, <1>9, <1>10, <1>11, <1>12, <1>13 DEF RowAddsUp
-----------------------------------------------------------------------------
(* What a step does to the rows *)

RowNew ==
    \E a \in Accounts, st \in {"queued", "running"}, n \in Nat :
        ~Active(a) /\ runs' = Append(runs, NewRun(a, st, n))

RowMoved(i, st, b) ==
    /\ SetRun(i, Moved(runs[i], st, b))
    /\ st \in {"queued", "running"} => ActiveRun(runs[i])
    /\ st = "completed" => Reached(runs[i])
    /\ ~CancelLive => ActiveRun(runs[i])

RowAdded(c, o) ==
    /\ pc[c] \in {"reuse", "commit", "record"}
    /\ Fits(MyRun(c), cand[c])
    /\ SetRun(run[c], Added(MyRun(c), cand[c], o))

RowsStep ==
    \/ UNCHANGED runs
    \/ RowNew
    \/ \E i \in DOMAIN runs, st \in RunStatuses, b \in BOOLEAN : RowMoved(i, st, b)
    \/ \E c \in Collectors, o \in Outcomes : RowAdded(c, o)

\* The run a process works on is a row.
LEMMA Holds ==
    ASSUME TypeOK, NEW c \in Collectors, run[c] # 0
    PROVE  run[c] \in DOMAIN runs /\ MyRun(c) \in Run
<1>1. runs \in Seq(Run) /\ Len(runs) \in Nat /\ DOMAIN runs = 1 .. Len(runs)
  BY LenProperties DEF TypeOK
<1>2. run[c] \in 0 .. Len(runs)
  BY DEF TypeOK
<1>3. run[c] \in DOMAIN runs
  BY <1>1, <1>2
<1> QED BY <1>3, RunType DEF MyRun

LEMMA FailedStep ==
    ASSUME TypeOK, NEW c \in Collectors, FailedRun(c)
    PROVE  RowsStep
<1>1. CASE run[c] # 0 /\ MyRun(c).status = "running"
  <2>1. run[c] \in DOMAIN runs /\ MyRun(c) \in Run
    BY <1>1, Holds
  <2>2. SetRun(run[c], Moved(MyRun(c), "failed", MyRun(c).cancel)) /\ MyRun(c).cancel \in BOOLEAN
    BY <1>1, <2>1, StatusMove DEF FailedRun
  <2>3. RowMoved(run[c], "failed", MyRun(c).cancel)
    BY <1>1, <2>2 DEF RowMoved, MyRun, ActiveRun
  <2> QED BY <2>1, <2>2, <2>3 DEF RowsStep, RunStatuses
<1>2. CASE ~(run[c] # 0 /\ MyRun(c).status = "running")
  BY <1>2 DEF FailedRun, RowsStep
<1> QED BY <1>1, <1>2

LEMMA CancelledStep ==
    ASSUME TypeOK, NEW c \in Collectors, CancelledRun(c)
    PROVE  RowsStep
<1>1. CASE run[c] # 0 /\ Cancellable(MyRun(c))
  <2>1. run[c] \in DOMAIN runs /\ MyRun(c) \in Run
    BY <1>1, Holds
  <2>2. SetRun(run[c], Moved(MyRun(c), "cancelled", MyRun(c).cancel)) /\ MyRun(c).cancel \in BOOLEAN
    BY <1>1, <2>1, StatusMove DEF CancelledRun
  <2>3. RowMoved(run[c], "cancelled", MyRun(c).cancel)
    BY <1>1, <2>2 DEF RowMoved, MyRun, ActiveRun, Cancellable
  <2> QED BY <2>1, <2>2, <2>3 DEF RowsStep, RunStatuses
<1>2. CASE ~(run[c] # 0 /\ Cancellable(MyRun(c)))
  BY <1>2 DEF CancelledRun, RowsStep
<1> QED BY <1>1, <1>2

\* A run is completed only with all its Reels: what complete_run does not ask
\* for follows from the counts and the target it was begun with.
LEMMA CompletedStep ==
    ASSUME TypeOK, RowsAddUp, ProcsOK, NEW c \in Collectors, pc[c] = "complete", CompletedRun(c)
    PROVE  RowsStep
<1>0. run[c] # 0 /\ RunOK(c)
  BY DEF ProcsOK, ProcOK
<1>1. run[c] \in DOMAIN runs /\ MyRun(c) \in Run
  BY <1>0, Holds
<1>2. SetRun(run[c], Moved(MyRun(c), "completed", MyRun(c).cancel)) /\ MyRun(c).cancel \in BOOLEAN
  BY <1>1, StatusMove DEF CompletedRun
<1>3. Reached(MyRun(c))
  <2>1. RowAddsUp(MyRun(c))
    BY <1>1 DEF RowsAddUp, MyRun
  <2>2. /\ MyRun(c).committed \in Nat /\ MyRun(c).available \in Nat /\ MyRun(c).failed \in Nat
        /\ MyRun(c).target \in Nat
    BY <1>1 DEF Run
  <2>3. MyRun(c).committed + MyRun(c).available >= MyRun(c).target
    BY <1>0 DEF RunOK, Enough
  <2>4. MyRun(c).committed + MyRun(c).available + MyRun(c).failed <= MyRun(c).target
    BY <2>1 DEF RowAddsUp, Counted
  <2> QED BY <2>2, <2>3, <2>4 DEF Reached
<1>4. ~CancelLive => ActiveRun(MyRun(c))
  BY <1>0 DEF RunOK, ActiveRun
<1>5. RowMoved(run[c], "completed", MyRun(c).cancel)
  BY <1>2, <1>3, <1>4 DEF RowMoved, MyRun
<1> QED BY <1>1, <1>2, <1>5 DEF RowsStep, RunStatuses

LEMMA StepRows ==
    ASSUME TypeOK, RowsAddUp, ProcsOK, [Next]_vars
    PROVE  RowsStep
<1>1. ASSUME NEW a \in Accounts, NEW n \in Requests, CreateCollectionRun(a, n)
      PROVE  RowsStep
  BY <1>1, ConstantsAssumption DEF CreateCollectionRun, RowsStep, RowNew
<1>2. ASSUME NEW i \in DOMAIN runs, CancelCollectionRun(i)
      PROVE  RowsStep
  <2>1. runs[i] \in Run /\ runs[i].status \in RunStatuses
    BY RunType DEF Run
  <2> PICK st \in RunStatuses : st = IF runs[i].status = "queued" THEN "cancelled" ELSE runs[i].status
    BY <2>1 DEF RunStatuses
  <2>2. runs' = [runs EXCEPT ![i] = [runs[i] EXCEPT !.cancel = TRUE, !.status = st]]
    BY <1>2 DEF CancelCollectionRun, SetRun
  <2>3. [runs[i] EXCEPT !.cancel = TRUE, !.status = st] = Moved(runs[i], st, TRUE)
    BY <2>1 DEF Moved, Run
  <2>4. RowMoved(i, st, TRUE)
    BY <1>2, <2>2, <2>3 DEF RowMoved, SetRun, CancelCollectionRun, ActiveRun
  <2> QED BY <2>4 DEF RowsStep
<1>3. ASSUME NEW i \in DOMAIN runs, CancelCommand(i)
      PROVE  RowsStep
  <2>1. runs[i] \in Run
    BY RunType
  <2>2. SetRun(i, Moved(runs[i], "cancelled", runs[i].cancel)) /\ runs[i].cancel \in BOOLEAN
    BY <1>3, <2>1, StatusMove DEF CancelCommand
  <2>3. RowMoved(i, "cancelled", runs[i].cancel)
    BY <1>3, <2>2 DEF RowMoved, CancelCommand, Cancellable, ActiveRun
  <2> QED BY <2>2, <2>3 DEF RowsStep, RunStatuses
<1>4. ASSUME NEW c \in Collectors, NEW i \in DOMAIN runs, ClaimQueuedRun(c, i)
      PROVE  RowsStep
  <2>1. runs[i] \in Run
    BY RunType
  <2>2. SetRun(i, Moved(runs[i], "running", runs[i].cancel)) /\ runs[i].cancel \in BOOLEAN
    BY <1>4, <2>1, StatusMove DEF ClaimQueuedRun
  <2>3. RowMoved(i, "running", runs[i].cancel)
    BY <1>4, <2>2 DEF RowMoved, ClaimQueuedRun, ActiveRun
  <2> QED BY <2>2, <2>3 DEF RowsStep, RunStatuses
<1>5. ASSUME NEW c \in Collectors, FailedRun(c)
      PROVE  RowsStep
  BY <1>5, FailedStep
<1>6. ASSUME NEW c \in Collectors, CancelledRun(c)
      PROVE  RowsStep
  BY <1>6, CancelledStep
<1>7. ASSUME NEW c \in Collectors, BeginRun(c)
      PROVE  RowsStep
  <2>1. AccountOf[c] \in Accounts /\ want[c] \in Nat
    BY ConstantsAssumption DEF TypeOK
  <2> QED BY <1>7, <2>1 DEF BeginRun, RowsStep, RowNew
<1>8. ASSUME NEW c \in Collectors, Reuse(c) \/ RecordFailure(c) \/ (pc[c] = "commit" /\ SourceCommitted(c))
      PROVE  RowsStep
  <2>1. \E o \in Outcomes : RowAdded(c, o)
    BY <1>8 DEF RowAdded, Reuse, RecordFailure, SourceCommitted, Outcomes
  <2> QED BY <2>1 DEF RowsStep
<1>9. ASSUME NEW c \in Collectors, Complete(c) \/ CompleteFails(c)
      PROVE  RowsStep
  BY <1>9, CompletedStep DEF Complete, CompleteFails, RowsStep
<1>10. CASE UNCHANGED runs
  BY <1>10 DEF RowsStep
<1>11. ASSUME NEW c \in Collectors, Operate(c)
       PROVE  RowsStep
  BY <1>4, <1>5, <1>6, <1>10, <1>11
  DEF Operate, RefuseTarget, NoQueuedRun, SetupFails, SetupDeclined, SetupBreaks
<1>12. ASSUME NEW c \in Collectors, Collect(c) \/ Interrupt(c) \/ Crash(c)
       PROVE  RowsStep
  BY <1>5, <1>6, <1>7, <1>8, <1>9, <1>10, <1>12
  DEF Collect, Interrupt, Crash, CancelSeen, Stops, BrowserCloses, Look, ReuseFails,
      Download, FetchFails, Publish, Put, PutFails, CommitSource, CommitAnswerLost,
      CommitFails, Undo, UndoFails, RecordFailureFails, Tally, Advance,
      FailRun, CancelRun, EndSwallowed
<1> QED
  BY <1>1, <1>2, <1>3, <1>10, <1>11, <1>12
  DEF Next, vars, NormalizerStep, NormalizerCleanup
\* Whatever a step does to the rows, they add up, no account gets a second active
\* one, and without CancelLive a terminal one stays as it is.
LEMMA RowsKept ==
    ASSUME TypeOK, RowsAddUp, OneActive, ProcsOK, RowsStep
    PROVE  /\ runs' \in Seq(Run) /\ Len(runs') \in Nat /\ Len(runs') >= Len(runs)
           /\ DOMAIN runs \subseteq DOMAIN runs'
           /\ RowsAddUp' /\ OneActive'
           /\ ~CancelLive => \A i \in DOMAIN runs : ~ActiveRun(runs[i]) => runs'[i] = runs[i]
<1>0. /\ runs \in Seq(Run) /\ Len(runs) \in Nat
      /\ \A i \in DOMAIN runs : runs[i] \in Run
  BY RunType, LenProperties DEF TypeOK
<1>1. CASE UNCHANGED runs
  BY <1>0, <1>1 DEF RowsAddUp, OneActive
<1>2. CASE RowNew
  <2> PICK a \in Accounts, st \in {"queued", "running"}, n \in Nat :
              ~Active(a) /\ runs' = Append(runs, NewRun(a, st, n))
    BY <1>2 DEF RowNew
  <2> PICK row \in Run : row = NewRun(a, st, n)
    BY NewRunType
  <2>a. RowAddsUp(NewRun(a, st, n))
    BY NewRunAddsUp, Zenon
  <2>b. NewRun(a, st, n).account = a
    BY DEF NewRun
  <2>1. row.account = a /\ RowAddsUp(row)
    BY <2>a, <2>b, Zenon
  <2>2. /\ runs' \in Seq(Run) /\ Len(runs') = Len(runs) + 1
        /\ DOMAIN runs' = DOMAIN runs \cup {Len(runs) + 1}
        /\ Len(runs) + 1 \notin DOMAIN runs
        /\ runs'[Len(runs) + 1] = row
        /\ \A j \in DOMAIN runs : runs'[j] = runs[j]
    BY AppendRunRows
  <2>3. RowsAddUp'
    BY <2>1, <2>2 DEF RowsAddUp
  <2>4. \A i \in DOMAIN runs : ActiveRun(runs[i]) => runs[i].account # a
    BY DEF Active
  <2>5. OneActive'
    BY <2>1, <2>2, <2>4 DEF OneActive
  <2>6. Len(runs') \in Nat /\ Len(runs') >= Len(runs)
    BY <1>0, <2>2
  <2> QED BY <2>2, <2>3, <2>5, <2>6
<1>3. ASSUME NEW i \in DOMAIN runs, NEW row \in Run, SetRun(i, row), RowAddsUp(row),
             row.account = runs[i].account, ActiveRun(row) => ActiveRun(runs[i]),
             ~CancelLive => ActiveRun(runs[i])
      PROVE  /\ runs' \in Seq(Run) /\ Len(runs') \in Nat /\ Len(runs') >= Len(runs)
             /\ DOMAIN runs \subseteq DOMAIN runs'
             /\ RowsAddUp' /\ OneActive'
             /\ ~CancelLive => \A j \in DOMAIN runs : ~ActiveRun(runs[j]) => runs'[j] = runs[j]
  <2>1. /\ runs' \in Seq(Run) /\ Len(runs') = Len(runs) /\ DOMAIN runs' = DOMAIN runs
        /\ runs'[i] = row
        /\ \A j \in DOMAIN runs : j # i => runs'[j] = runs[j]
    BY <1>3, SetRunRows
  <2>2. RowsAddUp'
    BY <1>3, <2>1 DEF RowsAddUp
  <2>3. \A j \in DOMAIN runs : runs'[j].account = runs[j].account
                               /\ (ActiveRun(runs'[j]) => ActiveRun(runs[j]))
    BY <1>3, <2>1
  <2>4. OneActive'
    BY <2>1, <2>3 DEF OneActive
  <2>5. ~CancelLive => \A j \in DOMAIN runs : ~ActiveRun(runs[j]) => runs'[j] = runs[j]
    BY <1>3, <2>1
  <2>6. Len(runs') \in Nat /\ Len(runs') >= Len(runs)
    BY <1>0, <2>1
  <2> QED BY <2>1, <2>2, <2>4, <2>5, <2>6
<1>4. ASSUME NEW i \in DOMAIN runs, NEW st \in RunStatuses, NEW b \in BOOLEAN, RowMoved(i, st, b)
      PROVE  \E row \in Run :
                /\ SetRun(i, row) /\ RowAddsUp(row) /\ row.account = runs[i].account
                /\ ActiveRun(row) => ActiveRun(runs[i])
                /\ ~CancelLive => ActiveRun(runs[i])
  <2> DEFINE row == Moved(runs[i], st, b)
  <2>1. row \in Run /\ row.account = runs[i].account /\ row.status = st
    BY <1>0, MovedType
  <2>2. RowAddsUp(row)
    BY <1>0, <1>4, MovedAddsUp DEF RowsAddUp, RowMoved
  <2>3. SetRun(i, row) /\ (ActiveRun(row) => ActiveRun(runs[i])) /\ (~CancelLive => ActiveRun(runs[i]))
    BY <1>4, <2>1 DEF RowMoved, ActiveRun
  <2> HIDE DEF row
  <2> QED BY <2>1, <2>2, <2>3
<1>5. ASSUME NEW c \in Collectors, NEW o \in Outcomes, RowAdded(c, o)
      PROVE  \E i \in DOMAIN runs : \E row \in Run :
                /\ SetRun(i, row) /\ RowAddsUp(row) /\ row.account = runs[i].account
                /\ ActiveRun(row) => ActiveRun(runs[i])
                /\ ~CancelLive => ActiveRun(runs[i])
  <2>1. run[c] # 0 /\ cand[c] \in Reels /\ RunOK(c) /\ pc[c] # "fail"
    BY <1>5 DEF RowAdded, ProcsOK, ProcOK, Walking
  <2>2. run[c] \in DOMAIN runs /\ MyRun(c) \in Run
    BY <2>1, Holds
  <2> DEFINE row == Added(MyRun(c), cand[c], o)
  <2>3. row \in Run /\ row.account = MyRun(c).account /\ row.status = MyRun(c).status
    BY <2>1, <2>2, AddedType
  <2>4. RowAddsUp(row)
    BY <1>5, <2>1, <2>2, AddedAddsUp DEF RowsAddUp, RowAdded, MyRun
  <2>5. SetRun(run[c], row)
    BY <1>5 DEF RowAdded
  <2> HIDE DEF row
  <2>6. /\ ActiveRun(row) => ActiveRun(MyRun(c))
        /\ ~CancelLive => ActiveRun(MyRun(c))
    BY <2>1, <2>3 DEF RunOK, ActiveRun
  <2> QED BY <2>2, <2>3, <2>4, <2>5, <2>6 DEF MyRun
<1> QED BY <1>1, <1>2, <1>3, <1>4, <1>5 DEF RowsStep

-----------------------------------------------------------------------------
(* What a step of one process leaves to the others *)

ProcStep(c) == Operate(c) \/ Collect(c) \/ Interrupt(c) \/ Crash(c)

\* A process writes only its own run, a queued one, or a new one.
OwnRows(c) ==
    \/ UNCHANGED runs
    \/ RowNew
    \/ run[c] # 0 /\ \E row \in Run : SetRun(run[c], row)
    \/ \E i \in DOMAIN runs, row \in Run : runs[i].status = "queued" /\ SetRun(i, row)

LEMMA StepOwnRows ==
    ASSUME TypeOK, RowsAddUp, ProcsOK, NEW c \in Collectors, ProcStep(c)
    PROVE  OwnRows(c)
<1>1. ASSUME NEW i \in DOMAIN runs, ClaimQueuedRun(c, i)
      PROVE  OwnRows(c)
  <2>1. runs[i] \in Run
    BY RunType
  <2>2. [runs[i] EXCEPT !.status = "running"] \in Run
    BY <2>1 DEF Run, RunStatuses
  <2> QED BY <1>1, <2>2 DEF ClaimQueuedRun, OwnRows
<1>2. ASSUME run[c] # 0
      PROVE  \A st \in RunStatuses : [MyRun(c) EXCEPT !.status = st] \in Run
  <2>1. MyRun(c) \in Run
    BY <1>2, Holds
  <2> QED BY <2>1 DEF Run
<1>3. FailedRun(c) \/ CancelledRun(c) => OwnRows(c)
  BY <1>2 DEF FailedRun, CancelledRun, OwnRows, RunStatuses
<1>4. pc[c] = "complete" /\ CompletedRun(c) => OwnRows(c)
  <2>1. pc[c] = "complete" => run[c] # 0
    BY DEF ProcsOK, ProcOK
  <2> QED BY <1>2, <2>1 DEF CompletedRun, OwnRows, RunStatuses
<1>5. ASSUME Reuse(c) \/ RecordFailure(c) \/ (pc[c] = "commit" /\ SourceCommitted(c))
      PROVE  OwnRows(c)
  <2>1. run[c] # 0 /\ cand[c] \in Reels
    BY <1>5 DEF Reuse, RecordFailure, ProcsOK, ProcOK, Walking
  <2>2. MyRun(c) \in Run
    BY <2>1, Holds
  <2>3. \A o \in Outcomes : Added(MyRun(c), cand[c], o) \in Run
    BY <2>1, <2>2, AddedType
  <2> QED BY <1>5, <2>1, <2>3 DEF Reuse, RecordFailure, SourceCommitted, OwnRows, Outcomes
<1>6. BeginRun(c) => OwnRows(c)
  <2>1. AccountOf[c] \in Accounts /\ want[c] \in Nat
    BY ConstantsAssumption DEF TypeOK
  <2> QED BY <2>1 DEF BeginRun, OwnRows, RowNew
<1>7. UNCHANGED runs => OwnRows(c)
  BY DEF OwnRows
<1>8. Complete(c) \/ CompleteFails(c) => OwnRows(c)
  BY <1>4, <1>7 DEF Complete, CompleteFails
<1> QED
  BY <1>1, <1>3, <1>5, <1>6, <1>7, <1>8
  DEF ProcStep, Operate, RefuseTarget, NoQueuedRun, SetupFails, SetupDeclined, SetupBreaks,
      Collect, Interrupt, Crash, CancelSeen, Stops, BrowserCloses, Look, ReuseFails,
      Download, FetchFails, Publish, Put, PutFails, CommitSource, CommitAnswerLost,
      CommitFails, Undo, UndoFails, RecordFailureFails, Tally, Advance,
      FailRun, CancelRun, EndSwallowed

\* The locals of a process are its own.
LEMMA OthersLocals ==
    ASSUME TypeOK, NEW c \in Collectors, ProcStep(c), NEW d \in Collectors, d # c
    PROVE  /\ pc'[d] = pc[d] /\ run'[d] = run[d] /\ want'[d] = want[d]
           /\ cand'[d] = cand[d] /\ copy'[d] = copy[d]
<1> DEFINE Kept == /\ pc'[d] = pc[d] /\ run'[d] = run[d] /\ want'[d] = want[d]
                   /\ cand'[d] = cand[d] /\ copy'[d] = copy[d]
<1>0. /\ pc \in [Collectors -> Labels] /\ run \in [Collectors -> 0 .. Len(runs)]
      /\ want \in [Collectors -> Nat] /\ cand \in [Collectors -> Reels \cup {None}]
      /\ copy \in [Collectors -> Contents \cup {None}]
  BY DEF TypeOK
<1>1. Leave(c) => Kept
  BY <1>0 DEF Leave, Goto
<1>2. Operate(c) => Kept
  BY <1>0, <1>1
  DEF Operate, ClaimQueuedRun, RefuseTarget, NoQueuedRun, SetupFails, SetupDeclined, SetupBreaks,
      Goto, fetchVars
<1>3. BeginRun(c) \/ CancelSeen(c) \/ Stops(c) \/ BrowserCloses(c) \/ Look(c) => Kept
  BY <1>0 DEF BeginRun, CancelSeen, Stops, BrowserCloses, Look, Goto, feedVars, fetchVars
<1>4. Reuse(c) \/ ReuseFails(c) \/ Download(c) \/ FetchFails(c) \/ Publish(c) => Kept
  BY <1>0 DEF Reuse, ReuseFails, Download, FetchFails, Publish, Goto, feedVars, fetchVars
<1>5. Put(c) \/ PutFails(c) \/ CommitSource(c) \/ CommitAnswerLost(c) \/ CommitFails(c) => Kept
  BY <1>0 DEF Put, PutFails, CommitSource, CommitAnswerLost, CommitFails, Compensate, Goto,
      feedVars, fetchVars
<1>6. Undo(c) \/ UndoFails(c) \/ RecordFailure(c) \/ RecordFailureFails(c) => Kept
  BY <1>0 DEF Undo, UndoFails, RecordFailure, RecordFailureFails, Goto, feedVars, fetchVars
<1>7. Tally(c) \/ Complete(c) \/ CompleteFails(c) \/ Advance(c) => Kept
  BY <1>0, <1>1 DEF Tally, Complete, CompleteFails, Advance, Goto, feedVars, fetchVars
<1>8. FailRun(c) \/ CancelRun(c) \/ EndSwallowed(c) \/ Crash(c) => Kept
  BY <1>1 DEF FailRun, CancelRun, EndSwallowed, Crash
<1>9. Interrupt(c) => Kept
  BY <1>0 DEF Interrupt, Goto, feedVars
<1> HIDE DEF Kept
<1>10. Kept
  BY <1>2, <1>3, <1>4, <1>5, <1>6, <1>7, <1>8, <1>9 DEF ProcStep, Collect
<1> QED BY <1>10 DEF Kept

\* The run of another process is left alone.
LEMMA OthersRuns ==
    ASSUME Inv, NEW c \in Collectors, ProcStep(c), NEW d \in Collectors, d # c, run[d] # 0
    PROVE  runs'[run[d]] = runs[run[d]]
<1>1. TypeOK /\ RowsAddUp /\ ProcsOK /\ OneHolder
  BY DEF Inv
<1>2. OwnRows(c)
  BY <1>1, StepOwnRows
<1>3. run[d] \in DOMAIN runs /\ runs[run[d]].status # "queued" /\ run[c] # run[d]
  BY <1>1, Holds DEF ProcsOK, ProcOK, RunOK, MyRun, OneHolder
<1>4. CASE RowNew
  <2> PICK a \in Accounts, st \in {"queued", "running"}, n \in Nat :
              ~Active(a) /\ runs' = Append(runs, NewRun(a, st, n))
    BY <1>4 DEF RowNew
  <2> QED BY <1>1, <1>3, NewRunType, AppendRunRows
<1>5. ASSUME NEW i \in DOMAIN runs, NEW row \in Run, SetRun(i, row), i # run[d]
      PROVE  runs'[run[d]] = runs[run[d]]
  BY <1>1, <1>3, <1>5, SetRunRows
<1>6. run[c] # 0 => run[c] \in DOMAIN runs
  BY <1>1, Holds
<1> QED BY <1>2, <1>3, <1>4, <1>5, <1>6 DEF OwnRows
-----------------------------------------------------------------------------
(* The process that takes the step *)

\* A process that goes on with its run: the row may have got an item, and the
\* engine goes to complete_run only when it has counted enough.
LEMMA GoesOn ==
    ASSUME NEW c \in Collectors, ProcOK(c), run[c] # 0, run'[c] = run[c], want'[c] = want[c],
           pc[c] \notin {"refuse", "fail"}, pc'[c] \notin {"off", "refuse"},
           pc'[c] \in Walking => cand'[c] \in Reels,
           pc'[c] \in {"publish", "put", "commit"} => copy'[c] \in Contents,
           MyRun(c)'.status = MyRun(c).status \/ (pc'[c] = "fail" /\ MyRun(c)'.status = "completed"),
           MyRun(c)'.account = MyRun(c).account, MyRun(c)'.target = MyRun(c).target,
           pc'[c] = "complete" => Enough(c)'
    PROVE  ProcOK(c)'
<1>1. RunOK(c)
  BY DEF ProcOK
<1>2. RunOK(c)'
  BY <1>1 DEF RunOK
<1> QED BY <1>2 DEF ProcOK

LEMMA LeavesOK ==
    ASSUME TypeOK, NEW c \in Collectors, Leave(c)
    PROVE  ProcOK(c)'
<1>1. pc'[c] = "off" /\ run'[c] = 0
  BY DEF Leave, Goto, TypeOK
<1> QED BY <1>1 DEF ProcOK, Walking

\* Steps that read the database and the store, or write only the store.
LEMMA WalkOK ==
    ASSUME TypeOK, NEW c \in Collectors, ProcOK(c),
           \/ CancelSeen(c) \/ Stops(c) \/ BrowserCloses(c) \/ Interrupt(c) \/ Look(c)
           \/ ReuseFails(c) \/ Download(c) \/ FetchFails(c) \/ Publish(c) \/ Put(c)
           \/ PutFails(c) \/ CommitFails(c) \/ Undo(c) \/ UndoFails(c)
           \/ RecordFailureFails(c) \/ Tally(c) \/ Advance(c)
    PROVE  ProcOK(c)'
<1>0. /\ pc \in [Collectors -> Labels] /\ cand \in [Collectors -> Reels \cup {None}]
      /\ copy \in [Collectors -> Contents \cup {None}]
      /\ after[c] \in {"record", "cancel"}
  BY DEF TypeOK
<1>1. pc[c] \in Walking
  BY DEF CancelSeen, Stops, BrowserCloses, Interrupt, Look, ReuseFails, Download, FetchFails,
         Publish, Put, PutFails, CommitFails, Undo, UndoFails, RecordFailureFails, Tally, Advance,
         Walking
<1>2. run[c] # 0 /\ cand[c] \in Reels /\ pc[c] \notin {"refuse", "fail"}
  BY <1>1 DEF ProcOK, Walking
<1>3. /\ runs' = runs /\ run' = run /\ want' = want
  BY DEF CancelSeen, Stops, BrowserCloses, Interrupt, Look, ReuseFails, Download, FetchFails,
         Publish, Put, PutFails, CommitFails, Compensate, Undo, UndoFails, RecordFailureFails,
         Tally, Advance, feedVars
<1>4. pc'[c] \in (Walking \cup {"fail", "cancel"})
  <2>1. CASE CancelSeen(c) \/ Stops(c) \/ BrowserCloses(c) \/ Interrupt(c) \/ Look(c)
    BY <1>0, <2>1 DEF CancelSeen, Stops, BrowserCloses, Interrupt, Look, Goto, Walking
  <2>2. CASE ReuseFails(c) \/ Download(c) \/ FetchFails(c) \/ Publish(c) \/ Put(c) \/ PutFails(c)
    BY <1>0, <2>2 DEF ReuseFails, Download, FetchFails, Publish, Put, PutFails, Goto, Walking
  <2>3. CASE CommitFails(c) \/ Undo(c) \/ UndoFails(c) \/ RecordFailureFails(c) \/ Tally(c) \/ Advance(c)
    BY <1>0, <2>3 DEF CommitFails, Compensate, Undo, UndoFails, RecordFailureFails, Tally,
                      Advance, Goto, Walking
  <2> QED BY <2>1, <2>2, <2>3
<1>5. cand'[c] \in Reels
  <2>1. CASE Advance(c)
    BY <1>0, <1>2, <2>1 DEF Advance
  <2>2. CASE UNCHANGED cand
    BY <1>2, <2>2
  <2> QED
    BY <2>1, <2>2
    DEF CancelSeen, Stops, BrowserCloses, Interrupt, Look, ReuseFails, Download, FetchFails,
        Publish, Put, PutFails, CommitFails, Compensate, Undo, UndoFails, RecordFailureFails,
        Tally, feedVars
<1>6. pc'[c] \in {"publish", "put", "commit"} => copy'[c] \in Contents
  <2>1. CASE CancelSeen(c) \/ Stops(c) \/ BrowserCloses(c) \/ Interrupt(c) \/ Look(c)
    BY <1>0, <2>1 DEF CancelSeen, Stops, BrowserCloses, Interrupt, Look, Goto
  <2>2. CASE ReuseFails(c) \/ FetchFails(c) \/ PutFails(c) \/ CommitFails(c)
    BY <1>0, <2>2 DEF ReuseFails, FetchFails, PutFails, CommitFails, Compensate, Goto
  <2>3. CASE Download(c)
    BY <1>0, <2>3 DEF Download
  <2>4. CASE Publish(c) \/ Put(c)
    BY <1>0, <2>4 DEF Publish, Put, ProcOK, fetchVars
  <2>5. CASE Undo(c) \/ UndoFails(c) \/ RecordFailureFails(c) \/ Tally(c) \/ Advance(c)
    BY <1>0, <2>5 DEF Undo, UndoFails, RecordFailureFails, Tally, Advance, Goto
  <2> QED BY <2>1, <2>2, <2>3, <2>4, <2>5
<1>7. pc'[c] = "complete" => Enough(c)
  <2>1. CASE CancelSeen(c) \/ Stops(c) \/ BrowserCloses(c) \/ Interrupt(c) \/ Look(c)
    BY <1>0, <2>1 DEF CancelSeen, Stops, BrowserCloses, Interrupt, Look, Goto
  <2>2. CASE ReuseFails(c) \/ Download(c) \/ FetchFails(c) \/ Publish(c) \/ Put(c) \/ PutFails(c)
    BY <1>0, <2>2 DEF ReuseFails, Download, FetchFails, Publish, Put, PutFails, Goto
  <2>3. CASE CommitFails(c) \/ Undo(c) \/ UndoFails(c) \/ RecordFailureFails(c) \/ Advance(c)
    BY <1>0, <2>3 DEF CommitFails, Compensate, Undo, UndoFails, RecordFailureFails,
                      Advance, Goto
  <2>4. CASE Tally(c)
    BY <1>0, <2>4 DEF Tally, Goto
  <2> QED BY <2>1, <2>2, <2>3, <2>4
<1>8. MyRun(c)' = MyRun(c) /\ (Enough(c) => Enough(c)')
  BY <1>3 DEF MyRun, Enough
<1>9. pc'[c] \notin {"off", "refuse"}
  BY <1>4 DEF Walking
<1> QED BY <1>2, <1>3, <1>5, <1>6, <1>7, <1>8, <1>9, GoesOn

\* Steps that add an item to the run.
LEMMA AddsOK ==
    ASSUME TypeOK, NEW c \in Collectors, ProcOK(c),
           Reuse(c) \/ CommitSource(c) \/ CommitAnswerLost(c) \/ RecordFailure(c)
    PROVE  ProcOK(c)'
<1>0. pc \in [Collectors -> Labels]
  BY DEF TypeOK
<1>1. pc[c] \in Walking /\ pc[c] \notin {"refuse", "fail"}
  BY DEF Reuse, CommitSource, CommitAnswerLost, RecordFailure, Walking
<1>2. run[c] # 0 /\ cand[c] \in Reels
  BY <1>1 DEF ProcOK, Walking
<1>3. run' = run /\ want' = want /\ cand' = cand
  BY DEF Reuse, CommitSource, CommitAnswerLost, RecordFailure, Compensate, feedVars
<1>4. pc'[c] \in {"tally", "fail", "record", "undo", "cancel"}
  BY <1>0 DEF Reuse, CommitSource, CommitAnswerLost, RecordFailure, Compensate, AfterCommit, Goto
<1>5. run[c] \in DOMAIN runs /\ MyRun(c) \in Run
  BY <1>2, Holds
<1>6. \E o \in Outcomes : SetRun(run[c], Added(MyRun(c), cand[c], o))
  BY DEF Reuse, CommitSource, CommitAnswerLost, RecordFailure, SourceCommitted, Outcomes
<1> PICK o \in Outcomes : SetRun(run[c], Added(MyRun(c), cand[c], o))
  BY <1>6
<1> PICK row \in Run : row = Added(MyRun(c), cand[c], o)
  BY <1>2, <1>5, AddedType
<1>7. /\ row.status = MyRun(c).status /\ row.account = MyRun(c).account
      /\ row.target = MyRun(c).target
  BY <1>2, <1>5, AddedType
<1>8. runs'[run[c]] = row
  BY <1>5, SetRunRows
<1>9. /\ MyRun(c)'.status = MyRun(c).status /\ MyRun(c)'.account = MyRun(c).account
      /\ MyRun(c)'.target = MyRun(c).target
  BY <1>3, <1>7, <1>8 DEF MyRun
<1> QED BY <1>1, <1>2, <1>3, <1>4, <1>9, GoesOn

LEMMA ClaimOK ==
    ASSUME TypeOK, NEW c \in Collectors, ProcOK(c), NEW i \in DOMAIN runs, ClaimQueuedRun(c, i)
    PROVE  ProcOK(c)'
<1>1. runs[i] \in Run /\ i # 0
  BY RunType
<1> PICK row \in Run : row = [runs[i] EXCEPT !.status = "running"] /\ row.status = "running"
                       /\ row.account = runs[i].account /\ row.target = runs[i].target
  BY <1>1, StatusSet DEF RunStatuses
<1>2. runs'[i] = row
  BY SetRunRows DEF ClaimQueuedRun
<1>3. /\ run'[c] = i /\ want'[c] = Target /\ pc'[c] \in {"setup", "refuse"}
      /\ pc'[c] # "refuse" => runs[i].target = Target
      /\ runs[i].account = AccountOf[c]
  BY DEF ClaimQueuedRun, Goto, TypeOK
<1>4. MyRun(c)' = row
  BY <1>2, <1>3 DEF MyRun
<1>5. RunOK(c)'
  BY <1>3, <1>4 DEF RunOK
<1> QED BY <1>1, <1>3, <1>5 DEF ProcOK, Walking

LEMMA BeginOK ==
    ASSUME TypeOK, NEW c \in Collectors, ProcOK(c), BeginRun(c)
    PROVE  ProcOK(c)'
<1>0. /\ pc'[c] = "look" /\ cand'[c] \in Reels /\ want'[c] = want[c] /\ pc[c] = "setup"
  BY DEF BeginRun, Goto, TypeOK
<1>1. CASE run[c] # 0
  <2>1. runs' = runs /\ run' = run
    BY <1>1 DEF BeginRun
  <2>2. MyRun(c)' = MyRun(c)
    BY <2>1 DEF MyRun
  <2> QED BY <1>0, <1>1, <2>1, <2>2, GoesOn
<1>2. CASE run[c] = 0
  <2>1. AccountOf[c] \in Accounts /\ want[c] \in Nat
    BY ConstantsAssumption DEF TypeOK
  <2> PICK a \in Accounts, n \in Nat : a = AccountOf[c] /\ n = want[c]
    BY <2>1
  <2> DEFINE row == NewRun(a, "running", n)
  <2>a. row.account = a /\ row.status = "running" /\ row.target = n
    BY DEF NewRun
  <2>b. row \in Run
    BY NewRunType
  <2>2. /\ row \in Run /\ row.account = AccountOf[c] /\ row.status = "running"
        /\ row.target = want[c]
    BY <2>a, <2>b, Zenon
  <2>3. runs' = Append(runs, row) /\ run'[c] = Len(runs) + 1
    BY <1>2 DEF BeginRun, TypeOK
  <2> HIDE DEF row
  <2>4. runs'[Len(runs) + 1] = row
    BY <2>2, <2>3, AppendRunRows
  <2>5. Len(runs) + 1 # 0
    BY LenProperties DEF TypeOK
  <2>6. MyRun(c)' = row
    BY <2>3, <2>4 DEF MyRun
  <2>7. RunOK(c)'
    BY <1>0, <2>2, <2>6 DEF RunOK
  <2> QED BY <1>0, <2>3, <2>5, <2>7 DEF ProcOK
<1> QED BY <1>1, <1>2

LEMMA CompleteOK ==
    ASSUME TypeOK, NEW c \in Collectors, ProcOK(c), Complete(c) \/ CompleteFails(c)
    PROVE  ProcOK(c)'
<1>0. pc[c] = "complete" /\ pc \in [Collectors -> Labels]
  BY DEF Complete, CompleteFails, TypeOK
<1>1. CASE Leave(c)
  BY <1>1, LeavesOK
<1>2. CASE ~Leave(c)
  <2>1. /\ pc'[c] = "fail" /\ run' = run /\ want' = want /\ run[c] # 0
        /\ runs' = runs \/ CompletedRun(c)
    BY <1>0, <1>2 DEF Complete, CompleteFails, Goto, feedVars, ProcOK
  <2>2. run[c] \in DOMAIN runs /\ MyRun(c) \in Run
    BY <2>1, Holds
  <2>3. CASE runs' = runs
    <3>1. MyRun(c)' = MyRun(c)
      BY <2>1, <2>3 DEF MyRun
    <3> QED BY <1>0, <2>1, <3>1, GoesOn DEF Walking
  <2>4. CASE CompletedRun(c)
    <3> PICK row \in Run : row = [MyRun(c) EXCEPT !.status = "completed"] /\ row.status = "completed"
                           /\ row.account = MyRun(c).account /\ row.target = MyRun(c).target
      BY <2>2, StatusSet DEF RunStatuses
    <3>1. runs'[run[c]] = row
      BY <2>2, <2>4, SetRunRows DEF CompletedRun
    <3>2. MyRun(c)' = row
      BY <2>1, <3>1 DEF MyRun
    <3> QED BY <1>0, <2>1, <3>2, GoesOn DEF Walking
  <2> QED BY <2>1, <2>3, <2>4
<1> QED BY <1>1, <1>2

LEMMA MoverOK ==
    ASSUME TypeOK, NEW c \in Collectors, ProcOK(c), ProcStep(c)
    PROVE  ProcOK(c)'
<1>1. NoQueuedRun(c) => ProcOK(c)'
  <2> SUFFICES ASSUME NoQueuedRun(c) PROVE ProcOK(c)'
    OBVIOUS
  <2>1. pc[c] = "off" /\ run'[c] = run[c] /\ pc'[c] = "setup"
    BY DEF NoQueuedRun, Goto, TypeOK
  <2>2. run[c] = 0
    BY <2>1 DEF ProcOK
  <2> QED BY <2>1, <2>2 DEF ProcOK, Walking
<1>2. Leave(c) => ProcOK(c)'
  BY LeavesOK
<1>3. Operate(c) => ProcOK(c)'
  BY <1>1, <1>2, ClaimOK DEF Operate, RefuseTarget, SetupFails, SetupDeclined, SetupBreaks
<1>4. FailRun(c) \/ CancelRun(c) \/ EndSwallowed(c) \/ Crash(c) => ProcOK(c)'
  BY <1>2 DEF FailRun, CancelRun, EndSwallowed, Crash
<1> QED BY <1>3, <1>4, WalkOK, AddsOK, BeginOK, CompleteOK DEF ProcStep, Collect
-----------------------------------------------------------------------------
(* All processes *)

EnvStep ==
    \/ \E a \in Accounts, n \in Requests : CreateCollectionRun(a, n)
    \/ \E i \in DOMAIN runs : CancelCollectionRun(i) \/ CancelCommand(i)
    \/ \E r \in Reels : NormalizerStep(r) \/ NormalizerCleanup(r)

LEMMA Steps == ASSUME [Next]_vars
               PROVE  EnvStep \/ (\E c \in Collectors : ProcStep(c)) \/ UNCHANGED vars
BY DEF Next, EnvStep, ProcStep

\* What another step may do to the row of process d without disturbing it.
LEMMA BystanderOK ==
    ASSUME NEW d \in Collectors, ProcOK(d),
           pc'[d] = pc[d], run'[d] = run[d], want'[d] = want[d],
           cand'[d] = cand[d], copy'[d] = copy[d],
           run[d] # 0 =>
              /\ MyRun(d)'.status # "queued"
              /\ ~CancelLive => MyRun(d)'.status = MyRun(d).status
              /\ MyRun(d)'.account = MyRun(d).account
              /\ MyRun(d)'.target = MyRun(d).target
              /\ MyRun(d)'.committed = MyRun(d).committed
              /\ MyRun(d)'.available = MyRun(d).available
    PROVE  ProcOK(d)'
<1>1. CASE run[d] = 0
  BY <1>1 DEF ProcOK
<1>2. CASE run[d] # 0
  <2>1. RunOK(d)
    BY <1>2 DEF ProcOK
  <2>2. Enough(d) => Enough(d)'
    BY <1>2 DEF Enough
  <2>3. RunOK(d)'
    BY <1>2, <2>1, <2>2 DEF RunOK
  <2> QED BY <1>2, <2>3 DEF ProcOK
<1> QED BY <1>1, <1>2

\* The API, the recovery command and the normalizer disturb no process.
LEMMA EnvOK ==
    ASSUME Inv, EnvStep, NEW d \in Collectors
    PROVE  ProcOK(d)'
<1>0. TypeOK /\ ProcOK(d)
  BY DEF Inv, ProcsOK
<1>1. UNCHANGED <<pc, run, want, cand, copy>>
  BY DEF EnvStep, CreateCollectionRun, CancelCollectionRun, CancelCommand, NormalizerStep,
         NormalizerCleanup, feedVars, fetchVars
<1>2. CASE run[d] = 0
  BY <1>0, <1>1, <1>2, BystanderOK
<1>3. CASE run[d] # 0
  <2>1. run[d] \in DOMAIN runs /\ MyRun(d) \in Run /\ MyRun(d).status # "queued"
    BY <1>0, <1>3, Holds DEF ProcOK, RunOK
  <2>2. ASSUME runs'[run[d]] = runs[run[d]]
        PROVE  ProcOK(d)'
    <3>1. MyRun(d)' = MyRun(d)
      BY <1>1, <2>2 DEF MyRun
    <3> QED BY <1>0, <1>1, <2>1, <3>1, BystanderOK
  <2>3. ASSUME NEW a \in Accounts, NEW n \in Requests, CreateCollectionRun(a, n)
        PROVE  ProcOK(d)'
    <3>1. n \in Nat
      BY ConstantsAssumption
    <3>2. NewRun(a, "queued", n) \in Run
      BY <3>1, NewRunType
    <3>3. runs' = Append(runs, NewRun(a, "queued", n))
      BY <2>3 DEF CreateCollectionRun
    <3> QED BY <1>0, <2>1, <2>2, <3>2, <3>3, AppendRunRows
  <2>4. ASSUME NEW i \in DOMAIN runs, NEW row \in Run, SetRun(i, row), i # run[d]
        PROVE  ProcOK(d)'
    BY <1>0, <2>1, <2>2, <2>4, SetRunRows
  <2>5. ASSUME NEW i \in DOMAIN runs, CancelCollectionRun(i)
        PROVE  ProcOK(d)'
    <3>1. runs[i] \in Run /\ runs[i].status \in RunStatuses
      BY <1>0, RunType DEF Run
    <3> PICK st \in RunStatuses :
               st = IF runs[i].status = "queued" THEN "cancelled" ELSE runs[i].status
      BY <3>1 DEF RunStatuses
    <3> PICK row \in Run : /\ row = [runs[i] EXCEPT !.cancel = TRUE, !.status = st]
                           /\ row.status = st /\ row.account = runs[i].account
                           /\ row.target = runs[i].target /\ row.committed = runs[i].committed
                           /\ row.available = runs[i].available
      <4> DEFINE new == Moved(runs[i], st, TRUE)
      <4>1. new = [runs[i] EXCEPT !.cancel = TRUE, !.status = st]
        BY <3>1 DEF Moved, Run
      <4>2. /\ new \in Run /\ new.status = st /\ new.account = runs[i].account
            /\ new.target = runs[i].target /\ new.committed = runs[i].committed
            /\ new.available = runs[i].available
        BY <3>1, MovedType
      <4> HIDE DEF new
      <4> QED BY <4>1, <4>2
    <3>2. SetRun(i, row)
      BY <2>5 DEF CancelCollectionRun
    <3>3. CASE i # run[d]
      BY <2>4, <3>2, <3>3
    <3>4. CASE i = run[d]
      <4>1. runs'[run[d]] = row
        BY <1>0, <3>2, <3>4, SetRunRows
      <4>2. MyRun(d)' = row
        BY <1>1, <4>1 DEF MyRun
      <4>3. MyRun(d) = runs[i] /\ st = MyRun(d).status
        BY <2>1, <3>4 DEF MyRun
      <4> QED BY <1>0, <1>1, <2>1, <4>2, <4>3, BystanderOK
    <3> QED BY <3>3, <3>4
  <2>6. ASSUME NEW i \in DOMAIN runs, CancelCommand(i)
        PROVE  ProcOK(d)'
    <3>1. runs[i] \in Run
      BY <1>0, RunType
    <3> PICK row \in Run : /\ row = [runs[i] EXCEPT !.status = "cancelled"]
                           /\ row.status = "cancelled" /\ row.account = runs[i].account
                           /\ row.target = runs[i].target /\ row.committed = runs[i].committed
                           /\ row.available = runs[i].available
      BY <3>1, StatusSet DEF RunStatuses
    <3>2. SetRun(i, row)
      BY <2>6 DEF CancelCommand
    <3>3. CASE i # run[d]
      BY <2>4, <3>2, <3>3
    <3>4. CASE i = run[d]
      <4>1. runs'[run[d]] = row
        BY <1>0, <3>2, <3>4, SetRunRows
      <4>2. MyRun(d)' = row
        BY <1>1, <4>1 DEF MyRun
      <4>3. MyRun(d) = runs[i] /\ CancelLive
        BY <2>6, <3>4 DEF MyRun, CancelCommand, Abandoned
      <4> QED BY <1>0, <1>1, <2>1, <4>2, <4>3, BystanderOK
    <3> QED BY <3>3, <3>4
  <2>7. ASSUME UNCHANGED runs
        PROVE  ProcOK(d)'
    BY <2>2, <2>7
  <2> QED BY <2>3, <2>5, <2>6, <2>7 DEF EnvStep, NormalizerStep, NormalizerCleanup
<1> QED BY <1>2, <1>3

LEMMA StepProcs ==
    ASSUME Inv, [Next]_vars
    PROVE  ProcsOK'
<1> SUFFICES ASSUME NEW d \in Collectors PROVE ProcOK(d)'
  BY DEF ProcsOK
<1>0. TypeOK /\ ProcOK(d) /\ ProcsOK
  BY DEF Inv, ProcsOK
<1>1. CASE EnvStep
  BY <1>1, EnvOK
<1>2. ASSUME NEW c \in Collectors, ProcStep(c)
      PROVE  ProcOK(d)'
  <2>1. CASE c = d
    BY <1>0, <1>2, <2>1, MoverOK
  <2>2. CASE c # d
    <3>1. /\ pc'[d] = pc[d] /\ run'[d] = run[d] /\ want'[d] = want[d]
          /\ cand'[d] = cand[d] /\ copy'[d] = copy[d]
      BY <1>0, <1>2, <2>2, OthersLocals
    <3>2. run[d] # 0 => MyRun(d)' = MyRun(d) /\ MyRun(d).status # "queued"
      BY <1>0, <1>2, <2>2, <3>1, OthersRuns DEF MyRun, ProcOK, RunOK
    <3> QED BY <1>0, <3>1, <3>2, BystanderOK
  <2> QED BY <2>1, <2>2
<1>3. CASE UNCHANGED vars
  <2>1. UNCHANGED <<runs, pc, run, want, cand, copy>>
    BY <1>3 DEF vars
  <2>2. MyRun(d)' = MyRun(d) /\ (run[d] # 0 => MyRun(d).status # "queued")
    BY <1>0, <2>1 DEF MyRun, ProcOK, RunOK
  <2> QED BY <1>0, <2>1, <2>2, BystanderOK
<1> QED BY <1>1, <1>2, <1>3, Steps

\* A process gets hold of a run only when nobody else can have it.
LEMMA Takes ==
    ASSUME TypeOK, NEW c \in Collectors, ProcStep(c)
    PROVE  \/ run'[c] = run[c] \/ run'[c] = 0 \/ run'[c] = Len(runs) + 1
           \/ run'[c] \in DOMAIN runs /\ runs[run'[c]].status = "queued"
<1>0. run \in [Collectors -> 0 .. Len(runs)]
  BY DEF TypeOK
<1>1. Leave(c) => run'[c] = 0
  BY <1>0 DEF Leave
<1>2. BeginRun(c) => run'[c] = run[c] \/ run'[c] = Len(runs) + 1
  BY <1>0 DEF BeginRun
<1>3. \A i \in DOMAIN runs : ClaimQueuedRun(c, i) => run'[c] = i /\ runs[i].status = "queued"
  BY <1>0 DEF ClaimQueuedRun
<1> QED
  BY <1>1, <1>2, <1>3
  DEF ProcStep, Operate, RefuseTarget, NoQueuedRun, SetupFails, SetupDeclined, SetupBreaks,
      Collect, Interrupt, Crash, CancelSeen, Stops, BrowserCloses, Look, Reuse, ReuseFails,
      Download, FetchFails, Publish, Put, PutFails, CommitSource, CommitAnswerLost, Compensate,
      CommitFails, Undo, UndoFails, RecordFailure, RecordFailureFails, Tally, Complete,
      CompleteFails, Advance, FailRun, CancelRun, EndSwallowed

LEMMA StepHolder ==
    ASSUME Inv, [Next]_vars
    PROVE  OneHolder'
<1>0. TypeOK /\ ProcsOK /\ OneHolder
  BY DEF Inv
<1>1. CASE UNCHANGED run
  BY <1>0, <1>1 DEF OneHolder
<1>2. ASSUME NEW c \in Collectors, ProcStep(c)
      PROVE  OneHolder'
  <2>1. \A d \in Collectors : d # c => run'[d] = run[d]
    BY <1>0, <1>2, OthersLocals
  <2>2. \/ run'[c] = run[c] \/ run'[c] = 0 \/ run'[c] = Len(runs) + 1
        \/ run'[c] \in DOMAIN runs /\ runs[run'[c]].status = "queued"
    BY <1>0, <1>2, Takes
  <2>3. \A d \in Collectors : run[d] # Len(runs) + 1
    <3>1. Len(runs) \in Nat /\ \A d \in Collectors : run[d] \in 0 .. Len(runs)
      BY <1>0, LenProperties DEF TypeOK
    <3> QED BY <3>1
  <2>4. \A d \in Collectors : run[d] # 0 => runs[run[d]].status # "queued"
    BY <1>0 DEF ProcsOK, ProcOK, RunOK, MyRun
  <2>5. \A d \in Collectors : d # c => ~(run'[c] # 0 /\ run'[c] = run[d])
    BY <1>0, <2>2, <2>3, <2>4 DEF OneHolder
  <2> QED BY <1>0, <2>1, <2>5 DEF OneHolder
<1>3. EnvStep \/ UNCHANGED vars => UNCHANGED run
  BY DEF EnvStep, CreateCollectionRun, CancelCollectionRun, CancelCommand, NormalizerStep,
         NormalizerCleanup, vars
<1> QED BY <1>1, <1>2, <1>3, Steps
-----------------------------------------------------------------------------
(* Types *)

\* The parts of TypeOK that are about the locals of the processes ...
LocalTypes ==
    /\ pc \in [Collectors -> Labels]
    /\ want \in [Collectors -> Nat]
    /\ cand \in [Collectors -> Reels \cup {None}]
    /\ seen \in [Collectors -> SUBSET Reels]
    /\ looks \in [Collectors -> Nat]
    /\ copy \in [Collectors -> Contents \cup {None}]
    /\ created \in [Collectors -> BOOLEAN]
    /\ after \in [Collectors -> {"record", "cancel"}]

\* ... and about the Reels.
ReelTypes ==
    /\ status \in [Reels -> ReelStatuses]
    /\ digest \in [Reels -> Contents \cup {None}]
    /\ object \in [Reels -> Contents \cup {None}]

LEMMA StepLocalTypes ==
    ASSUME TypeOK, ProcsOK, NEW c \in Collectors, ProcStep(c)
    PROVE  LocalTypes'
<1>0. LocalTypes
  BY DEF TypeOK, LocalTypes
<1> USE <1>0 DEF Labels, Walking, Goto
<1>1. Leave(c) => LocalTypes'
  BY DEF Leave, LocalTypes
<1>2. \A i \in DOMAIN runs : ClaimQueuedRun(c, i) => LocalTypes'
  BY ConstantsAssumption DEF ClaimQueuedRun, LocalTypes, fetchVars
<1>3. NoQueuedRun(c) => LocalTypes'
  <2> SUFFICES ASSUME NoQueuedRun(c) PROVE LocalTypes'
    OBVIOUS
  <2> DEFINE n == Cardinality(Owned(AccountOf[c]))
  <2>1. c \in Continuing => n \in Minimum .. (Desired - 1)
    BY DEF NoQueuedRun, Prepared
  <2> DEFINE wanted == IF c \in Continuing THEN Desired - n ELSE Target
  <2>2. want' = [want EXCEPT ![c] = wanted]
    BY DEF NoQueuedRun
  <2> HIDE DEF n
  <2>3. wanted \in Nat
    BY <2>1, ConstantsAssumption
  <2> HIDE DEF wanted
  <2> QED BY <2>2, <2>3 DEF NoQueuedRun, LocalTypes, fetchVars
<1>4. Operate(c) => LocalTypes'
  BY <1>1, <1>2, <1>3 DEF Operate, RefuseTarget, SetupFails, SetupDeclined, SetupBreaks
<1>5. BeginRun(c) => LocalTypes'
  BY DEF BeginRun, LocalTypes, fetchVars
<1>6. CancelSeen(c) \/ Stops(c) \/ BrowserCloses(c) \/ ReuseFails(c) \/ FetchFails(c)
      \/ RecordFailureFails(c) \/ Tally(c) \/ UndoFails(c) \/ Undo(c) => LocalTypes'
  BY DEF CancelSeen, Stops, BrowserCloses, ReuseFails, FetchFails, RecordFailureFails, Tally,
         UndoFails, Undo, LocalTypes, feedVars, fetchVars
<1>7. Look(c) => LocalTypes'
  <2> SUFFICES ASSUME Look(c) PROVE LocalTypes'
    OBVIOUS
  <2>1. cand[c] \in Reels
    BY DEF Look, ProcsOK, ProcOK
  <2> QED BY <2>1 DEF Look, LocalTypes, fetchVars
<1>8. Reuse(c) \/ RecordFailure(c) => LocalTypes'
  BY DEF Reuse, RecordFailure, LocalTypes, feedVars, fetchVars
<1>9. Download(c) \/ Publish(c) \/ Put(c) \/ PutFails(c) => LocalTypes'
  BY DEF Download, Publish, Put, PutFails, LocalTypes, feedVars, fetchVars
<1>10. CommitSource(c) \/ CommitAnswerLost(c) \/ CommitFails(c) => LocalTypes'
  BY DEF CommitSource, CommitAnswerLost, CommitFails, Compensate, AfterCommit, LocalTypes, feedVars
<1>11. Complete(c) \/ CompleteFails(c) => LocalTypes'
  BY <1>1 DEF Complete, CompleteFails, LocalTypes, feedVars, fetchVars
<1>12. Advance(c) => LocalTypes'
  BY DEF Advance, LocalTypes, fetchVars
<1>13. Interrupt(c) => LocalTypes'
  BY DEF Interrupt, LocalTypes, feedVars
<1>14. FailRun(c) \/ CancelRun(c) \/ EndSwallowed(c) \/ Crash(c) => LocalTypes'
  BY <1>1 DEF FailRun, CancelRun, EndSwallowed, Crash
<1> QED
  BY <1>4, <1>5, <1>6, <1>7, <1>8, <1>9, <1>10, <1>11, <1>12, <1>13, <1>14
  DEF ProcStep, Collect

\* Reels change in these steps only.
LEMMA ReelSteps ==
    ASSUME [Next]_vars
    PROVE  \/ UNCHANGED reelVars
           \/ \E r \in Reels : NormalizerStep(r) \/ NormalizerCleanup(r)
           \/ \E c \in Collectors : \/ Put(c) \/ PutFails(c) \/ Undo(c) \/ RecordFailure(c)
                                    \/ CommitSource(c) \/ CommitAnswerLost(c)
<1>1. \A c \in Collectors : Operate(c) => UNCHANGED reelVars
  BY DEF Operate, ClaimQueuedRun, RefuseTarget, NoQueuedRun, SetupFails, SetupDeclined, SetupBreaks
<1>2. ASSUME NEW c \in Collectors, Collect(c) \/ Interrupt(c) \/ Crash(c)
      PROVE  \/ UNCHANGED reelVars
             \/ Put(c) \/ PutFails(c) \/ Undo(c) \/ RecordFailure(c)
             \/ CommitSource(c) \/ CommitAnswerLost(c)
  BY <1>2
  DEF Collect, Interrupt, Crash, BeginRun, CancelSeen, Stops, BrowserCloses, Look, Reuse,
      ReuseFails, Download, FetchFails, Publish, CommitFails, Compensate, UndoFails,
      RecordFailureFails, Tally, Complete, CompleteFails, Advance, FailRun, CancelRun,
      EndSwallowed, reelVars
<1>3. EnvStep \/ UNCHANGED vars => \/ UNCHANGED reelVars
                                   \/ \E r \in Reels : NormalizerStep(r) \/ NormalizerCleanup(r)
  BY DEF EnvStep, CreateCollectionRun, CancelCollectionRun, CancelCommand, vars, reelVars
<1> QED BY <1>1, <1>2, <1>3, Steps DEF ProcStep

LEMMA StepReelTypes ==
    ASSUME TypeOK, ProcsOK, [Next]_vars
    PROVE  ReelTypes'
<1>0. ReelTypes /\ \A c \in Collectors : copy[c] \in Contents \cup {None}
  BY DEF TypeOK, ReelTypes
<1>1. CASE UNCHANGED reelVars
  BY <1>0, <1>1 DEF ReelTypes, reelVars
<1>2. ASSUME NEW r \in Reels, NormalizerStep(r) \/ NormalizerCleanup(r)
      PROVE  ReelTypes'
  BY <1>0, <1>2 DEF NormalizerStep, NormalizerCleanup, ReelTypes, ReelStatuses, Durable
<1>3. ASSUME NEW c \in Collectors, Put(c) \/ PutFails(c) \/ Undo(c)
      PROVE  ReelTypes'
  BY <1>0, <1>3 DEF Put, PutFails, Undo, ReelTypes
<1>4. ASSUME NEW c \in Collectors, CommitSource(c) \/ CommitAnswerLost(c)
      PROVE  ReelTypes'
  BY <1>0, <1>4 DEF CommitSource, CommitAnswerLost, SourceCommitted, Compensate, ReelTypes,
                    ReelStatuses, Durable
<1>5. ASSUME NEW c \in Collectors, RecordFailure(c)
      PROVE  ReelTypes'
  <2>1. cand[c] \in Reels
    BY <1>5 DEF RecordFailure, ProcsOK, ProcOK, Walking
  <2>2. FailedReel(status[cand[c]]) \in ReelStatuses
    BY <1>0, <2>1 DEF FailedReel, ReelTypes, ReelStatuses
  <2> QED BY <1>0, <1>5, <2>2 DEF RecordFailure, ReelTypes
<1> QED BY <1>1, <1>2, <1>3, <1>4, <1>5, ReelSteps

LEMMA StepType ==
    ASSUME Inv, [Next]_vars
    PROVE  TypeOK'
<1>0. TypeOK /\ ProcsOK /\ RowsAddUp /\ OneActive
  BY DEF Inv
<1>1. runs' \in Seq(Run) /\ Len(runs') \in Nat /\ Len(runs') >= Len(runs) /\ Len(runs) \in Nat
  BY <1>0, StepRows, RowsKept, LenProperties DEF TypeOK
<1>2. ReelTypes'
  BY <1>0, StepReelTypes
<1>3. CASE EnvStep \/ UNCHANGED vars
  <2>1. UNCHANGED <<pc, run, want, cand, seen, looks, copy, created, after>>
    BY <1>3 DEF EnvStep, CreateCollectionRun, CancelCollectionRun, CancelCommand, NormalizerStep,
         NormalizerCleanup, feedVars, fetchVars, vars
  <2>2. run' \in [Collectors -> 0 .. Len(runs')]
    <3>1. run \in [Collectors -> 0 .. Len(runs)]
      BY <1>0 DEF TypeOK
    <3> QED BY <1>1, <2>1, <3>1
  <2> QED BY <1>0, <1>1, <1>2, <2>1, <2>2 DEF TypeOK, ReelTypes
<1>4. ASSUME NEW c \in Collectors, ProcStep(c)
      PROVE  TypeOK'
  <2>1. LocalTypes'
    BY <1>0, <1>4, StepLocalTypes
  <2>2. run' \in [Collectors -> 0 .. Len(runs')]
    <3>0. run \in [Collectors -> 0 .. Len(runs)]
      BY <1>0 DEF TypeOK
    <3>1. CASE run' = run
      BY <1>1, <3>0, <3>1
    <3>2. ASSUME NEW n \in 0 .. Len(runs'), run' = [run EXCEPT ![c] = n]
          PROVE  run' \in [Collectors -> 0 .. Len(runs')]
      BY <1>1, <3>0, <3>2
    <3>3. Leave(c) => run' = [run EXCEPT ![c] = 0]
      BY DEF Leave
    <3>4. 0 \in 0 .. Len(runs')
      BY <1>1
    <3>5. ASSUME NEW i \in DOMAIN runs, ClaimQueuedRun(c, i)
          PROVE  run' \in [Collectors -> 0 .. Len(runs')]
      <4>1. i \in 0 .. Len(runs')
        BY <1>0, <1>1, RunType
      <4> QED BY <3>2, <3>5, <4>1 DEF ClaimQueuedRun
    <3>6. ASSUME BeginRun(c), run' # run
          PROVE  run' \in [Collectors -> 0 .. Len(runs')]
      <4>1. run' = [run EXCEPT ![c] = Len(runs) + 1]
            /\ runs' = Append(runs, NewRun(AccountOf[c], "running", want[c]))
        BY <3>6 DEF BeginRun
      <4>2. AccountOf[c] \in Accounts /\ want[c] \in Nat
        BY <1>0, ConstantsAssumption DEF TypeOK
      <4>3. Len(runs') = Len(runs) + 1
        BY <1>0, <4>1, <4>2, NewRunType, AppendRunRows
      <4>4. Len(runs) + 1 \in 0 .. Len(runs')
        BY <1>1, <4>3
      <4> QED BY <3>2, <4>1, <4>4
    <3>7. Leave(c) => run' \in [Collectors -> 0 .. Len(runs')]
      BY <3>2, <3>3, <3>4
    <3> QED
      BY <1>4, <3>1, <3>5, <3>6, <3>7
      DEF ProcStep, Operate, RefuseTarget, NoQueuedRun, SetupFails, SetupDeclined, SetupBreaks,
          Collect, Interrupt, Crash, CancelSeen, Stops, BrowserCloses, Look, Reuse, ReuseFails,
          Download, FetchFails, Publish, Put, PutFails, CommitSource, CommitAnswerLost, Compensate,
          CommitFails, Undo, UndoFails, RecordFailure, RecordFailureFails, Tally, Complete,
          CompleteFails, Advance, FailRun, CancelRun, EndSwallowed
  <2> QED BY <1>1, <1>2, <2>1, <2>2 DEF TypeOK, ReelTypes, LocalTypes
<1> QED BY <1>3, <1>4, Steps
-----------------------------------------------------------------------------
(* Sources *)

\* With one account and no live cancellation, only one process is in its loop.
LEMMA OneWalker ==
    ASSUME Inv, Alone, NEW c \in Collectors, NEW d \in Collectors,
           pc[c] \in Walking, pc[d] \in Walking
    PROVE  c = d
<1>0. TypeOK /\ ProcOK(c) /\ ProcOK(d) /\ OneActive /\ OneHolder
  BY DEF Inv, ProcsOK
<1>1. /\ run[c] # 0 /\ run[d] # 0 /\ pc[c] # "fail" /\ pc[d] # "fail"
      /\ RunOK(c) /\ RunOK(d)
  BY <1>0 DEF ProcOK, Walking
<1>2. run[c] \in DOMAIN runs /\ run[d] \in DOMAIN runs
  BY <1>0, <1>1, Holds
<1>3. ActiveRun(runs[run[c]]) /\ ActiveRun(runs[run[d]])
  BY <1>1 DEF RunOK, MyRun, ActiveRun, Alone
<1>4. runs[run[c]].account = runs[run[d]].account
  BY <1>1 DEF RunOK, MyRun, Alone
<1>5. run[c] = run[d]
  BY <1>0, <1>2, <1>3, <1>4 DEF OneActive
<1> QED BY <1>0, <1>1, <1>5 DEF OneHolder

\* A step that leaves the Reels alone: a process comes to have a fresh Reel by
\* looking at its status, and to have it published by comparing the object.
LEMMA QuietMover ==
    ASSUME TypeOK, NEW c \in Collectors, ProcOK(c), FreshAt(c), ProcStep(c), UNCHANGED reelVars
    PROVE  FreshAt(c)'
<1>0. /\ pc \in [Collectors -> Labels] /\ cand \in [Collectors -> Reels \cup {None}]
      /\ after[c] \in {"record", "cancel"}
      /\ copy \in [Collectors -> Contents \cup {None}]
      /\ status' = status /\ object' = object
  BY DEF TypeOK, reelVars
<1> DEFINE fresh == {"download", "publish", "put", "commit", "undo"}
<1>1. pc'[c] \notin fresh => FreshAt(c)'
  BY DEF FreshAt
<1>2. Leave(c) => pc'[c] \notin fresh
  BY <1>0 DEF Leave, Goto
<1>3. Operate(c) => pc'[c] \notin fresh
  BY <1>0, <1>2 DEF Operate, ClaimQueuedRun, RefuseTarget, NoQueuedRun, SetupFails,
                    SetupDeclined, SetupBreaks, Goto
<1>4. \/ BeginRun(c) \/ CancelSeen(c) \/ Stops(c) \/ BrowserCloses(c) \/ Reuse(c) \/ ReuseFails(c)
      \/ FetchFails(c) \/ PutFails(c) \/ CommitSource(c) \/ Undo(c) \/ UndoFails(c)
      \/ RecordFailure(c) \/ RecordFailureFails(c) \/ Tally(c) \/ Advance(c)
      => pc'[c] \notin fresh
  BY <1>0 DEF BeginRun, CancelSeen, Stops, BrowserCloses, Reuse, ReuseFails, FetchFails, PutFails,
              CommitSource, AfterCommit, Undo, UndoFails, RecordFailure, RecordFailureFails,
              Tally, Advance, Goto
<1>5. \/ Complete(c) \/ CompleteFails(c) \/ FailRun(c) \/ CancelRun(c) \/ EndSwallowed(c) \/ Crash(c)
      => pc'[c] \notin fresh
  BY <1>0, <1>2 DEF Complete, CompleteFails, FailRun, CancelRun, EndSwallowed, Crash, Goto
<1>6. Look(c) => FreshAt(c)'
  BY <1>0 DEF Look, Goto, FreshAt
<1>7. Download(c) => FreshAt(c)'
  BY <1>0 DEF Download, Goto, FreshAt, feedVars
<1>8. Publish(c) => FreshAt(c)'
  BY <1>0 DEF Publish, Goto, FreshAt, feedVars, fetchVars
<1>9. Put(c) => FreshAt(c)'
  <2> SUFFICES ASSUME Put(c) PROVE FreshAt(c)'
    OBVIOUS
  <2>1. cand[c] \in Reels /\ object \in [Reels -> Contents \cup {None}]
    BY DEF Put, ProcOK, Walking, TypeOK
  <2> QED BY <1>0, <2>1 DEF Put, Goto, FreshAt, feedVars
<1>10. CommitFails(c) \/ CommitAnswerLost(c) => FreshAt(c)'
  BY <1>0 DEF CommitFails, CommitAnswerLost, SourceCommitted, Compensate, Goto, FreshAt, feedVars
<1>11. Interrupt(c) => FreshAt(c)'
  BY <1>0 DEF Interrupt, Goto, FreshAt, feedVars
<1> HIDE DEF fresh
<1> QED BY <1>1, <1>3, <1>4, <1>5, <1>6, <1>7, <1>8, <1>9, <1>10, <1>11 DEF ProcStep, Collect

LEMMA StepSource ==
    ASSUME Inv, SourceInv, [Next]_vars
    PROVE  SourceInv'
<1> SUFFICES ASSUME Alone PROVE Fresh' /\ SourceDurable'
  BY DEF SourceInv, Alone
<1>0. TypeOK /\ ProcsOK /\ Fresh /\ SourceDurable
  BY DEF Inv, SourceInv
<1>t. /\ status \in [Reels -> ReelStatuses] /\ digest \in [Reels -> Contents \cup {None}]
      /\ object \in [Reels -> Contents \cup {None}]
      /\ pc \in [Collectors -> Labels] /\ copy \in [Collectors -> Contents \cup {None}]
  BY <1>0 DEF TypeOK
<1>1. CASE UNCHANGED reelVars
  <2>1. SourceDurable'
    BY <1>0, <1>1 DEF SourceDurable, reelVars
  <2>2. ASSUME NEW d \in Collectors PROVE FreshAt(d)'
    <3>1. ASSUME pc'[d] = pc[d], cand'[d] = cand[d], copy'[d] = copy[d]
          PROVE  FreshAt(d)'
      BY <1>0, <1>1, <3>1 DEF Fresh, FreshAt, reelVars
    <3>2. EnvStep \/ UNCHANGED vars => UNCHANGED <<pc, cand, copy>>
      BY DEF EnvStep, CreateCollectionRun, CancelCollectionRun, CancelCommand, NormalizerStep,
             NormalizerCleanup, feedVars, fetchVars, vars
    <3>3. ASSUME NEW c \in Collectors, ProcStep(c), c # d
          PROVE  FreshAt(d)'
      BY <1>0, <3>1, <3>3, OthersLocals
    <3>4. ProcStep(d) => FreshAt(d)'
      BY <1>0, <1>1, QuietMover DEF Fresh, ProcsOK
    <3> QED BY <3>1, <3>2, <3>3, <3>4, Steps
  <2> QED BY <2>1, <2>2 DEF Fresh
<1>2. ASSUME NEW r \in Reels, NormalizerStep(r) \/ NormalizerCleanup(r)
      PROVE  Fresh' /\ SourceDurable'
  <2>1. UNCHANGED <<pc, cand, copy, digest>>
    BY <1>2 DEF NormalizerStep, NormalizerCleanup, feedVars, fetchVars
  <2>2. /\ status[r] \in Durable
        /\ \A q \in Reels : q # r => status'[q] = status[q] /\ object'[q] = object[q]
    BY <1>t, <1>2 DEF NormalizerStep, NormalizerCleanup, Durable
  <2>3. SourceDurable'
    BY <1>0, <1>t, <1>2, <2>1 DEF SourceDurable, NormalizerStep, NormalizerCleanup
  <2>4. ASSUME NEW d \in Collectors PROVE FreshAt(d)'
    <3>1. FreshAt(d) /\ (pc[d] \in Walking => cand[d] \in Reels)
      BY <1>0 DEF Fresh, ProcsOK, ProcOK
    <3> QED BY <2>1, <2>2, <3>1 DEF FreshAt, Walking
  <2> QED BY <2>3, <2>4 DEF Fresh
<1>3. ASSUME NEW c \in Collectors, Put(c) \/ PutFails(c) \/ Undo(c) \/ RecordFailure(c) \/ CommitSource(c)
      PROVE  Fresh' /\ SourceDurable'
  <2>1. pc[c] \in Walking /\ FreshAt(c)
    BY <1>0, <1>3 DEF Fresh, Put, PutFails, Undo, RecordFailure, CommitSource, Walking
  <2>2. cand[c] \in Reels /\ (pc[c] = "commit" => copy[c] \in Contents)
    BY <1>0, <2>1 DEF ProcsOK, ProcOK
  <2>3. cand' = cand /\ copy' = copy
    BY <1>3 DEF Put, PutFails, Undo, RecordFailure, CommitSource, feedVars, fetchVars
  <2>4. ASSUME NEW d \in Collectors, d # c PROVE FreshAt(d)'
    <3>1. pc[d] \notin Walking
      BY <2>1, <2>4, OneWalker
    <3>2. pc'[d] = pc[d]
      BY <1>t, <1>3, <2>4 DEF Put, PutFails, Undo, RecordFailure, CommitSource, Goto
    <3> QED BY <3>1, <3>2 DEF FreshAt, Walking
  <2>5. CASE Put(c)
    <3>1. pc'[c] = "commit" /\ object'[cand[c]] = copy[c] /\ status' = status /\ pc[c] = "put"
      BY <1>t, <2>2, <2>5 DEF Put, Goto
    <3>2. FreshAt(c)'
      BY <2>1, <2>3, <3>1 DEF FreshAt
    <3>3. SourceDurable'
      BY <1>0, <1>t, <2>1, <2>2, <2>5, <3>1 DEF SourceDurable, FreshAt, Put, Durable
    <3> QED BY <2>4, <3>2, <3>3 DEF Fresh
  <2>6. CASE PutFails(c) \/ Undo(c)
    <3>1. /\ pc'[c] \in {"record", "cancel"} /\ status' = status /\ digest' = digest
          /\ pc[c] \in {"put", "undo"}
          /\ \A q \in Reels : q # cand[c] => object'[q] = object[q]
      <4>1. after[c] \in {"record", "cancel"}
        BY <1>0 DEF TypeOK
      <4> QED BY <1>t, <2>6, <4>1 DEF PutFails, Undo, Goto
    <3>2. FreshAt(c)'
      BY <3>1 DEF FreshAt
    <3>3. SourceDurable'
      BY <1>0, <1>t, <2>1, <2>2, <3>1 DEF SourceDurable, FreshAt, Durable
    <3> QED BY <2>4, <3>2, <3>3 DEF Fresh
  <2>7. CASE RecordFailure(c)
    <3>1. pc'[c] = "fail" /\ object' = object /\ digest' = digest
          /\ status' = [status EXCEPT ![cand[c]] = FailedReel(status[cand[c]])]
      BY <1>t, <2>7 DEF RecordFailure, Goto
    <3>2. FreshAt(c)'
      BY <3>1 DEF FreshAt
    <3>3. SourceDurable'
      BY <1>0, <1>t, <2>2, <3>1 DEF SourceDurable, FailedReel
    <3> QED BY <2>4, <3>2, <3>3 DEF Fresh
  <2>8. CASE CommitSource(c)
    <3>1. /\ pc'[c] \in {"tally", "fail"} /\ object' = object /\ pc[c] = "commit"
          /\ digest' = [digest EXCEPT ![cand[c]] = copy[c]]
          /\ status' = [status EXCEPT ![cand[c]] = "source_ready"]
      BY <1>t, <2>8 DEF CommitSource, SourceCommitted, AfterCommit, Goto
    <3>2. FreshAt(c)'
      BY <3>1 DEF FreshAt
    <3>3. object[cand[c]] = copy[c] /\ copy[c] # None
      BY <2>1, <2>2, <3>1, ConstantsAssumption DEF FreshAt
    <3>4. SourceDurable'
      BY <1>0, <1>t, <2>2, <3>1, <3>3 DEF SourceDurable
    <3> QED BY <2>4, <3>2, <3>4 DEF Fresh
  <2> QED BY <1>3, <2>5, <2>6, <2>7, <2>8
<1>4. \A c \in Collectors : ~CommitAnswerLost(c)
  BY DEF CommitAnswerLost, Alone
<1> QED BY <1>1, <1>2, <1>3, <1>4, ReelSteps

-----------------------------------------------------------------------------
(* The theorems *)

LEMMA InitInv == Init => Inv /\ SourceInv
<1> SUFFICES ASSUME Init PROVE Inv /\ SourceInv
  OBVIOUS
<1> USE DEF Init
<1>1. runs = <<>> /\ DOMAIN runs = {} /\ Len(runs) = 0 /\ runs \in Seq(Run)
  BY EmptySeq
<1>2. run \in [Collectors -> 0 .. Len(runs)]
  BY <1>1
<1>3. TypeOK
  BY <1>1, <1>2 DEF TypeOK, ReelStatuses, Labels
<1>4. RowsAddUp /\ OneActive
  BY <1>1 DEF RowsAddUp, OneActive
<1>5. ProcsOK /\ OneHolder
  BY DEF ProcsOK, ProcOK, OneHolder, Walking
<1>6. SourceInv
  BY DEF SourceInv, Fresh, FreshAt, SourceDurable
<1> QED BY <1>3, <1>4, <1>5, <1>6 DEF Inv

LEMMA StepInv == Inv /\ [Next]_vars => Inv'
<1> SUFFICES ASSUME Inv, [Next]_vars PROVE Inv'
  OBVIOUS
<1>1. RowsAddUp' /\ OneActive'
  BY StepRows, RowsKept DEF Inv
<1> QED BY <1>1, StepType, StepProcs, StepHolder DEF Inv

\* The inductive invariant holds in every state that the operator processes, the
\* API, the recovery command and the normalizer can reach together.
THEOREM Invariance == Spec => []Inv
BY InitInv, StepInv, PTL DEF Spec

\* The types of the tables and of the locals of the processes.
THEOREM TypeCorrect == Spec => []TypeOK
<1>1. Inv => TypeOK
  BY DEF Inv
<1> QED BY <1>1, Invariance, PTL

\* The counters of a run are the numbers of its items, and complete_run, which
\* looks at nothing, completes only runs that have what was asked for.
THEOREM RunAlwaysAddsUp == Spec => []RunAddsUp
<1>1. Inv => RunAddsUp
  BY DEF Inv, RowsAddUp, RowAddsUp, Reached, RunAddsUp
<1> QED BY <1>1, Invariance, PTL

\* An account never has two runs that are queued or running, although the API,
\* the operator and the engine each check for it in a transaction of its own.
THEOREM OneActiveRun == Spec => []OneActive
<1>1. Inv => OneActive
  BY DEF Inv
<1> QED BY <1>1, Invariance, PTL

\* A terminal run never changes, when the recovery command is used on runs that
\* no process works on.
THEOREM TerminalAlwaysFrozen == ASSUME ~CancelLive PROVE Spec => TerminalFrozen
<1>1. Inv /\ [Next]_vars =>
         [\A i \in DOMAIN runs : ~ActiveRun(runs[i]) => runs'[i] = runs[i]]_vars
  BY StepRows, RowsKept DEF Inv
<1> QED BY <1>1, Invariance, PTL DEF Spec, TerminalFrozen

\* No failure that a Collector records takes a durable Reel back.
THEOREM DurableAlwaysKept == Spec => DurableKept
<1> DEFINE Kept == \A r \in Reels : status[r] \in Durable =>
                      \/ status'[r] \in Durable
                      \/ status[r] = "normalizing" /\ UNCHANGED <<runs, pc>>
<1>1. Inv /\ [Next]_vars => Kept
  <2> SUFFICES ASSUME Inv, [Next]_vars PROVE Kept
    OBVIOUS
  <2>0. status \in [Reels -> ReelStatuses]
    BY DEF Inv, TypeOK
  <2>1. CASE UNCHANGED status
    BY <2>1
  <2>2. ASSUME NEW q \in Reels, NormalizerStep(q) PROVE Kept
    BY <2>0, <2>2 DEF NormalizerStep, Durable
  <2>3. ASSUME NEW c \in Collectors, CommitSource(c) \/ CommitAnswerLost(c) PROVE Kept
    BY <2>0, <2>3 DEF CommitSource, CommitAnswerLost, SourceCommitted, Durable
  <2>4. ASSUME NEW c \in Collectors, RecordFailure(c) PROVE Kept
    BY <2>0, <2>4 DEF RecordFailure, FailedReel, Durable
  <2> QED
    BY <2>1, <2>2, <2>3, <2>4, ReelSteps DEF reelVars, NormalizerCleanup, Put, PutFails, Undo
<1>2. Inv /\ [Next]_vars => [Kept]_vars
  BY <1>1
<1> QED BY <1>2, Invariance, PTL DEF Spec, DurableKept

\* A Reel that waits for the normalizer has the source its row describes, as long
\* as one account collects, no answer to commit_source is lost and no run is
\* cancelled under its process.  Each condition is needed: a second walker, or a
\* compensation after a lost answer, may remove or replace a committed source.
THEOREM SourceAlwaysDurable == ASSUME Alone PROVE Spec => []SourceDurable
<1>1. Inv /\ SourceInv /\ [Next]_vars => SourceInv'
  BY StepSource
<1>2. SourceInv => SourceDurable
  BY DEF SourceInv
<1> QED BY <1>1, <1>2, InitInv, Invariance, PTL DEF Spec
=============================================================================
