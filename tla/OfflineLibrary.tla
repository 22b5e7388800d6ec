--------------------------- MODULE OfflineLibrary ---------------------------
(***************************************************************************)
(* The offline library of the PWA (apps/web/lib/offline): the records in   *)
(* IndexedDB, the media in Cache Storage, the download queue and its pump, *)
(* the reconciliation of both stores and the life cycle of viewed Reels.   *)
(*                                                                         *)
(* Everything runs in one thread and yields at every await, so each agent  *)
(* below is a sequence of steps between which the others run.  An update   *)
(* of a record is two IndexedDB transactions: it reads the record, and     *)
(* puts back what it read with its changes.                                *)
(***************************************************************************)
EXTENDS Naturals, FiniteSets

CONSTANTS
    Videos,      \* the Reels of the catalogue
    None,        \* no record, no Reel, no job
    MaxActs      \* bound: what the user asks of the queue and the list, reloads of
                 \* the page, and failed removals from the cache that are ignored

ASSUME LibraryAssumption ==
    /\ None \notin Videos
    /\ IsFiniteSet(Videos)
    /\ MaxActs \in Nat

VARIABLES
    rec,      \* the records in IndexedDB
    cache,    \* what Cache Storage holds for a Reel
    due,      \* the Reels whose deleteAfter is past
    q,        \* memory of OfflineDownloadQueue
    app,      \* memory of the page and of ViewedReelLifecycle
    proc,     \* the agents: where each is and what it works on
    used      \* how many acts there were

vars == <<rec, cache, due, q, app, proc, used>>

\* queue: a call under runControlled; cancel, clear: cancelBatch and
\* cancelAndClear, which let go of that lock while they wait; pump: the
\* download loop; life: ViewedReelLifecycle.run; page: the reconciliation that a
\* page load, the list and the reserve start.
Agents == {"queue", "cancel", "clear", "pump", "life", "page"}

Statuses == {"queued", "downloading", "completed", "failed", "deleted"}
DeletionStates == {"none", "pending", "deleting", "deleted", "failed"}
\* viewSyncState and viewSyncAttempts are left out: a report to the server only
\* adds an update of the record.
Records == [status : Statuses, viewed : BOOLEAN, del : DeletionStates]

\* toQueueRecord, createQueuedRecord
Fresh == [status |-> "queued", viewed |-> FALSE, del |-> "none"]

\* A job is the label it starts at and, for a download that failed, whether its
\* error pauses the queue.
Job(v, what) == [v |-> v, what |-> what, halts |-> FALSE]
JobsFor(S, what) == {Job(v, what) : v \in S}

Idle == [pc |-> "idle", job |-> None, saw |-> None, todo |-> {}, done |-> {}]

At(a) == proc[a].pc
Reel(a) == proc[a].job.v

\* The loops over a snapshot of the records, and where an agent goes on after one.
Loops == {"marking", "syncing", "removing", "scanning", "sweeping", "offering", "discarding"}
AfterLoop(a, l) ==
    CASE l = "marking"    -> "outbox"
      [] l = "syncing"    -> "overdue"
      [] l = "removing"   -> "list"
      [] l = "scanning"   -> "orphans"
      [] l = "sweeping"   -> IF a = "page" THEN "loaded" ELSE "idle"
      [] l = "offering"   -> "offered"
      [] l = "discarding" -> "refresh"

\* ViewedReelLifecycle spares the Reel that is being played when its turn comes.
Spared(job) == job.what = "deleting" /\ job.v = app.playing

\* An agent goes on as p: in a loop with its next job, or after the loop.
Run(a, p) ==
    LET open == {job \in p.todo : ~ Spared(job)}
        next == CHOOSE job \in open : TRUE
    IN [proc EXCEPT ![a] =
            IF p.pc \notin Loops THEN p
            ELSE IF open # {} THEN [p EXCEPT !.pc = next.what, !.job = next, !.todo = @ \ {next}]
            ELSE [Idle EXCEPT !.pc = AfterLoop(a, p.pc),
                              !.done = IF p.pc \in {"scanning", "offering"} THEN p.done ELSE {}]]
Goto(a, l) == Run(a, [proc[a] EXCEPT !.pc = l])
GotoLoop(a, l, jobs) == Run(a, [proc[a] EXCEPT !.pc = l, !.todo = jobs])
Retire(a) == [proc EXCEPT ![a] = Idle]

Exists(v) == rec[v] # None
Status(v) == IF Exists(v) THEN rec[v].status ELSE "none"
Viewed(v) == Exists(v) /\ rec[v].viewed
Tombstone(v) == Exists(v) /\ (rec[v].viewed \/ rec[v].del = "deleted")
WithStatus(s) == {v \in Videos : Status(v) = s}

\* The download that holds the abort controller.
Active == At("pump") \notin {"idle", "pick", "ending"}

\* runControlled: one control operation at a time, in the order they come.
Unlocked == At("queue") = "idle" /\ At("cancel") \in {"idle", "waiting"}

Refreshed == [q EXCEPT !.seen = WithStatus("queued")]

Memory == [paused |-> TRUE, clearing |-> FALSE, aborted |-> FALSE, cancelled |-> {},
           batch |-> {}, seen |-> {}]
Page == [ready |-> FALSE, playing |-> None, feed |-> {}]
Loading == [a \in Agents |-> IF a = "page" THEN [Idle EXCEPT !.pc = "list"] ELSE Idle]

Acts == used < MaxActs /\ used' = used + 1

Init ==
    /\ rec = [v \in Videos |-> None]
    /\ cache = [v \in Videos |-> "none"]
    /\ due = {}
    /\ q = Memory
    /\ app = Page
    /\ proc = Loading
    /\ used = 0

(***************************************************************************)
(* updateOfflineVideo: the labels at which an agent changes a record, what *)
(* it changes and where it goes on.                                        *)
(***************************************************************************)
Updating == {"begin", "commit", "overquota", "fail", "interrupt", "requeue", "deleting",
             "deleted", "delfail", "reported"}

Patch(l, r) ==
    CASE l = "begin"    -> [r EXCEPT !.status = "downloading"]
      [] l = "commit"   -> [r EXCEPT !.status = "completed"]
      [] l = "requeue"  -> [r EXCEPT !.status = "queued"]
      [] l = "deleting" -> [r EXCEPT !.del = "deleting"]
      [] l = "deleted"  -> [r EXCEPT !.status = "deleted", !.del = "deleted"]
      [] l = "delfail"  -> [r EXCEPT !.del = "failed"]
      [] l = "reported" -> r
      [] OTHER          -> [r EXCEPT !.status = "failed"]

\* A record that is gone is an error for the downloader only.  A download that was
\* cancelled as it completed is taken back.
Saved(v) == IF v \in q.cancelled THEN "undo" ELSE "over"
Then(l, found, job) ==
    CASE l = "begin"                   -> "fetch"
      [] l = "commit"                  -> IF found THEN Saved(job.v) ELSE "cleanup"
      [] l = "overquota"               -> IF found THEN "halt" ELSE "over"
      [] l = "fail"                    -> IF found /\ job.halts THEN "halt" ELSE "over"
      [] l = "requeue"                 -> "offering"
      [] l = "deleting"                -> "uncache"
      [] l \in {"deleted", "delfail"}  -> "removing"
      [] l = "interrupt"               -> "scanning"
      [] OTHER                         -> "syncing"

UpdateReads(a) ==
    /\ At(a) \in Updating
    /\ proc[a].saw = None
    /\ proc' = IF Exists(Reel(a)) THEN [proc EXCEPT ![a].saw = rec[Reel(a)]]
               ELSE Goto(a, Then(At(a), FALSE, proc[a].job))
    /\ UNCHANGED <<rec, cache, due, q, app, used>>

\* Mutant: the record stays read after it was written back.
UpdatePutsHeld(a) ==
    /\ At(a) \in Updating
    /\ proc[a].saw # None
    /\ rec' = [rec EXCEPT ![Reel(a)] = Patch(At(a), proc[a].saw)]
    /\ proc' = Goto(a, Then(At(a), TRUE, proc[a].job))
    /\ UNCHANGED <<cache, due, q, app, used>>

UpdatePuts(a) ==
    /\ At(a) \in Updating
    /\ proc[a].saw # None
    /\ rec' = [rec EXCEPT ![Reel(a)] = Patch(At(a), proc[a].saw)]
    /\ proc' = Run(a, [proc[a] EXCEPT !.pc = Then(At(a), TRUE, proc[a].job), !.saw = None])
    /\ UNCHANGED <<cache, due, q, app, used>>

\* markOfflineVideoViewed: the tombstone and its outbox entry, in one transaction.
Mark(v) ==
    IF Exists(v) /\ ~ rec[v].viewed
    THEN /\ rec' = [rec EXCEPT ![v] = [rec[v] EXCEPT !.viewed = TRUE, !.del = "pending"]]
         /\ due' = due \ {v}
    ELSE UNCHANGED <<rec, due>>

(***************************************************************************)
(* Removals from the cache, whose failure only the life cycle notices.     *)
(***************************************************************************)
\* Whether the estimated quota suffices for a download is open.
Space == {"begin", "overquota"}

AfterDrop(l) ==
    CASE l = "stale"   -> Space
      [] l = "cleanup" -> {"look"}
      [] l = "undo"    -> {"forget"}
      [] l = "drop"    -> {"interrupt"}
      [] l = "sweep"   -> {"sweeping"}
      [] l = "uncache" -> {"deleted"}

Drops == {"stale", "cleanup", "undo", "drop", "sweep", "uncache"}

DropCache(a) ==
    /\ At(a) \in Drops
    /\ cache' = [cache EXCEPT ![Reel(a)] = "none"]
    /\ \E l \in AfterDrop(At(a)) : proc' = Goto(a, l)
    /\ UNCHANGED <<rec, due, q, app, used>>

DropFails(a) ==
    /\ At(a) \in Drops
    /\ \/ At(a) = "uncache" /\ proc' = Goto(a, "delfail") /\ UNCHANGED used
       \/ At(a) # "uncache" /\ Acts /\ \E l \in AfterDrop(At(a)) : proc' = Goto(a, l)
    /\ UNCHANGED <<rec, cache, due, q, app>>

(***************************************************************************)
(* reconcileOfflineLibrary                                                 *)
(***************************************************************************)
ListRecords(a) ==
    /\ At(a) = "list"
    /\ proc' = GotoLoop(a, "scanning", JobsFor(WithStatus("downloading"), "drop")
                                       \cup JobsFor(WithStatus("completed"), "verify"))
    /\ UNCHANGED <<rec, cache, due, q, app, used>>

Verify(a) ==
    /\ At(a) = "verify"
    /\ proc' = CASE cache[Reel(a)] = "good" ->
                        Run(a, [proc[a] EXCEPT !.pc = "scanning", !.done = @ \cup {Reel(a)}])
                 [] cache[Reel(a)] = "bad"  -> Goto(a, "drop")
                 [] cache[Reel(a)] = "none" -> Goto(a, "interrupt")
    /\ UNCHANGED <<rec, cache, due, q, app, used>>

Orphans(a) == {v \in Videos : cache[v] # "none"} \ proc[a].done

ListOrphans(a) ==
    /\ At(a) = "orphans"
    /\ proc' = GotoLoop(a, "sweeping", JobsFor(Orphans(a), "sweep"))
    /\ UNCHANGED <<rec, cache, due, q, app, used>>

Reconcile(a) == ListRecords(a) \/ Verify(a) \/ ListOrphans(a)

\* The list, or initialize, has the reconciled library.
Loaded ==
    /\ At("page") = "loaded"
    /\ app' = [app EXCEPT !.ready = TRUE, !.feed = WithStatus("completed")]
    /\ q' = Refreshed
    /\ proc' = Retire("page")
    /\ UNCHANGED <<rec, cache, due, used>>

\* The list is shown again, or the reserve controller starts a cycle.
Reopen ==
    /\ Acts
    /\ At("page") = "idle"
    /\ proc' = Goto("page", "list")
    /\ UNCHANGED <<rec, cache, due, q, app>>

(***************************************************************************)
(* ViewedReelLifecycle                                                     *)
(***************************************************************************)
\* reconcile(): asked for by a view, the active Reel, the timer and the "online",
\* "pageshow" and "visibilitychange" events; one run at a time, and one more when
\* it was asked for during a run.
RunStarts ==
    /\ At("life") = "idle"
    /\ proc' = [proc EXCEPT !["life"] = [Idle EXCEPT !.pc = "confirm"]]
    /\ UNCHANGED <<rec, cache, due, q, app, used>>

\* syncOutbox, first half: offline, no answer, or the views that this or another
\* device of the account has reported.
Confirm ==
    /\ At("life") = "confirm"
    /\ \/ proc' = Goto("life", "overdue")
       \/ proc' = Goto("life", "outbox")
       \/ \E new \in SUBSET {v \in Videos : Exists(v) /\ ~ Viewed(v)} :
            proc' = GotoLoop("life", "marking", JobsFor(new, "mark"))
    /\ UNCHANGED <<rec, cache, due, q, app, used>>

MarkConfirmed ==
    /\ At("life") = "mark"
    /\ Mark(Reel("life"))
    /\ proc' = Goto("life", "marking")
    /\ UNCHANGED <<cache, q, app, used>>

\* syncOutbox, second half: nothing to send, no attempts left or no session; or
\* events were sent, and the answer, or its loss, is noted in each of them.
SendOutbox ==
    /\ At("life") = "outbox"
    /\ \E pending \in SUBSET {v \in Videos : Viewed(v)} :
        proc' = GotoLoop("life", "syncing", JobsFor(pending, "reported"))
    /\ UNCHANGED <<rec, cache, due, q, app, used>>

\* Mutant: a deletion that was begun, or failed, is not taken up again.
OverdueOnce == {v \in due : Viewed(v) /\ rec[v].del = "pending"}

\* The Reels whose hour is over and whose deletion is not complete.
Overdue == {v \in due : Viewed(v) /\ rec[v].del # "deleted"}

ListOverdue ==
    /\ At("life") = "overdue"
    /\ proc' = GotoLoop("life", "removing", JobsFor(Overdue, "deleting"))
    /\ UNCHANGED <<rec, cache, due, q, app, used>>

Life == RunStarts \/ Confirm \/ MarkConfirmed \/ SendOutbox \/ ListOverdue

(***************************************************************************)
(* OfflineDownloadQueue: control operations                                *)
(***************************************************************************)
\* enqueueCatalogAndStart and enqueueReserveAndStart, on an initialized page.  The
\* application makes no other call: enqueue, retry and removeQueued are used
\* through them or not at all.
EnqueueCatalog(S) ==
    /\ Acts
    /\ Unlocked
    /\ app.ready
    /\ proc' = GotoLoop("queue", "offering", JobsFor(S, "catalog"))
    /\ UNCHANGED <<rec, cache, due, q, app>>

\* Mutant: a viewed Reel whose file is gone may be offered again.
CatalogNextAnew(v) ==
    IF Status(v) \in {"completed", "queued", "downloading"} THEN "offering"
    ELSE IF Status(v) = "failed" THEN "retry" ELSE "enqueue"

\* What a call finds in the record decides where it goes on.
CatalogNext(v) ==
    IF Tombstone(v) \/ Status(v) \in {"completed", "queued", "downloading"} THEN "offering"
    ELSE IF Status(v) = "failed" THEN "retry" ELSE "enqueue"
RetryNext(v) == IF q.clearing \/ Status(v) # "failed" THEN "offering" ELSE "requeue"
EnqueueNext(v) ==
    IF q.clearing \/ Status(v) \in {"completed", "queued", "downloading", "failed"}
    THEN "offering" ELSE "put"

\* A Reel that is going to be queued counts as queued by this call.
Decided(l) ==
    Run("queue", [proc["queue"] EXCEPT !.pc = l,
                      !.done = IF l \in {"requeue", "put"} THEN @ \cup {Reel("queue")} ELSE @])
CallReads ==
    /\ \/ At("queue") = "catalog" /\ proc' = Decided(CatalogNext(Reel("queue")))
       \/ At("queue") = "retry"   /\ proc' = Decided(RetryNext(Reel("queue")))
       \/ At("queue") = "enqueue" /\ proc' = Decided(EnqueueNext(Reel("queue")))
    /\ UNCHANGED <<rec, cache, due, q, app, used>>

PutQueued ==
    /\ At("queue") = "put"
    /\ rec' = [rec EXCEPT ![Reel("queue")] = Fresh]
    /\ proc' = Goto("queue", "offering")
    /\ UNCHANGED <<cache, due, q, app, used>>

\* start(): the pump begins unless it runs, the library is being cleared or the
\* device is offline.
Started(mem, procs) ==
    \/ mem.clearing /\ q' = mem /\ proc' = procs
    \/ ~ mem.clearing /\ q' = [mem EXCEPT !.paused = TRUE] /\ proc' = procs
    \/ /\ ~ mem.clearing
       /\ q' = [mem EXCEPT !.paused = FALSE]
       /\ proc' = IF At("pump") = "idle" THEN [procs EXCEPT !["pump"].pc = "pick"] ELSE procs

\* A call that queued something starts the pump.
CallEnds ==
    /\ At("queue") = "offered"
    /\ LET mem == [Refreshed EXCEPT !.batch = proc["queue"].done]
       IN IF proc["queue"].done = {} THEN q' = mem /\ proc' = Retire("queue")
          ELSE Started(mem, Retire("queue"))
    /\ UNCHANGED <<rec, cache, due, app, used>>

\* The "offline" event: the abort reaches an active download only.
Stopped(mem) == [mem EXCEPT !.paused = TRUE, !.aborted = @ \/ Active]
Interrupt ==
    /\ Acts
    /\ Active \/ ~ q.paused
    /\ q' = Stopped(q)
    /\ UNCHANGED <<rec, cache, due, app, proc>>

\* The pump promise is awaited when there is one.
Awaiting == IF At("pump") = "idle" THEN "released" ELSE "waiting"

CancelBatch ==
    /\ Acts
    /\ Unlocked
    /\ At("cancel") = "idle"
    /\ q' = Stopped([q EXCEPT !.cancelled = @ \cup
                        {v \in q.batch : Active /\ v = Reel("pump")}])
    /\ proc' = Goto("cancel", Awaiting)
    /\ UNCHANGED <<rec, cache, due, app>>

\* It removes the Reels of its batch that its snapshot still shows as queued.
CancelRest ==
    /\ At("cancel") = "released"
    /\ At("queue") = "idle"
    /\ proc' = GotoLoop("cancel", "discarding", JobsFor(q.batch \cap q.seen, "discard"))
    /\ UNCHANGED <<rec, cache, due, q, app, used>>

CancelDeletes ==
    /\ At("cancel") = "discard"
    /\ rec' = [rec EXCEPT ![Reel("cancel")] = None]
    /\ proc' = Goto("cancel", "discarding")
    /\ UNCHANGED <<cache, due, q, app, used>>

CancelEnds ==
    /\ At("cancel") = "refresh"
    /\ q' = Refreshed
    /\ proc' = Retire("cancel")
    /\ UNCHANGED <<rec, cache, due, app, used>>

CancelAndClear ==
    /\ Acts
    /\ Unlocked
    /\ At("clear") = "idle"
    /\ q' = Stopped([q EXCEPT !.clearing = TRUE])
    /\ proc' = Goto("clear", Awaiting)
    /\ UNCHANGED <<rec, cache, due, app>>

ClearMediaCache ==
    /\ At("clear") = "released"
    /\ \/ cache' = [v \in Videos |-> "none"] /\ proc' = Goto("clear", "records")
       \/ UNCHANGED cache /\ proc' = Goto("clear", "cleared")
    /\ UNCHANGED <<rec, due, q, app, used>>

\* clearOfflineVideos(true): tombstones stay.
ClearRecords ==
    /\ At("clear") = "records"
    /\ rec' = [v \in Videos |-> IF Viewed(v) THEN rec[v] ELSE None]
    /\ q' = [q EXCEPT !.batch = {}]
    /\ proc' = Goto("clear", "cleared")
    /\ UNCHANGED <<cache, due, app, used>>

ClearEnds ==
    /\ At("clear") = "cleared"
    /\ q' = [Refreshed EXCEPT !.clearing = FALSE, !.paused = TRUE]
    /\ proc' = Retire("clear")
    /\ UNCHANGED <<rec, cache, due, app, used>>

QueueSteps == CallReads \/ PutQueued \/ CallEnds
CancelSteps == CancelRest \/ CancelDeletes \/ CancelEnds
ClearSteps == ClearMediaCache \/ ClearRecords \/ ClearEnds

(***************************************************************************)
(* The pump and downloadVideoForOffline                                    *)
(***************************************************************************)
\* What was paused or cancelled since the head of the loop is not looked at.
PumpPick ==
    /\ At("pump") = "pick"
    /\ \/ /\ q.clearing \/ WithStatus("queued") = {}
          /\ proc' = Goto("pump", "ending")
       \/ /\ ~ q.clearing
          /\ \E v \in WithStatus("queued") :
                proc' = [proc EXCEPT !["pump"] =
                            [proc["pump"] EXCEPT !.pc = "get", !.job = Job(v, "get")]]
    /\ UNCHANGED <<rec, cache, due, q, app, used>>

\* The promise resolves, and those who await it go on.
PumpEnds ==
    /\ At("pump") = "ending"
    /\ proc' = [a \in Agents |->
                    IF a = "pump" THEN Idle
                    ELSE IF At(a) = "waiting" THEN [proc[a] EXCEPT !.pc = "released"] ELSE proc[a]]
    /\ UNCHANGED <<rec, cache, due, q, app, used>>

GetNext(v) ==
    IF Tombstone(v) THEN {"halt"}
    ELSE IF ~ Exists(v) THEN {"fresh"}
    ELSE IF Status(v) # "completed" THEN Space
    ELSE IF cache[v] = "good" THEN {Saved(v)} ELSE {"stale"}

DownloadReads ==
    /\ At("pump") = "get"
    /\ \E l \in GetNext(Reel("pump")) : proc' = Goto("pump", l)
    /\ UNCHANGED <<rec, cache, due, q, app, used>>

PutFresh ==
    /\ At("pump") = "fresh"
    /\ rec' = [rec EXCEPT ![Reel("pump")] = Fresh]
    /\ \E l \in Space : proc' = Goto("pump", l)
    /\ UNCHANGED <<cache, due, q, app, used>>

\* An error in the try block: an abort, or a full quota, will pause the queue.
Errs(outcomes) ==
    \E halts \in IF q.aborted THEN {TRUE} ELSE outcomes :
        LET job == [proc["pump"].job EXCEPT !.halts = halts]
        IN  proc' = [proc EXCEPT !["pump"] = [proc["pump"] EXCEPT !.pc = "cleanup", !.job = job]]

\* An abort may come too late to stop the response.
Fetch ==
    /\ At("pump") = "fetch"
    /\ \/ cache' = [cache EXCEPT ![Reel("pump")] = "good"] /\ proc' = Goto("pump", "validate")
       \/ cache' = [cache EXCEPT ![Reel("pump")] = "bad"] /\ Errs({FALSE})
       \/ UNCHANGED cache /\ Errs(BOOLEAN)
    /\ UNCHANGED <<rec, due, q, app, used>>

Validate ==
    /\ At("pump") = "validate"
    /\ IF cache[Reel("pump")] = "good" THEN proc' = Goto("pump", "check") ELSE Errs({FALSE})
    /\ UNCHANGED <<rec, cache, due, q, app, used>>

\* beforeCommit: a tombstone written since the start wins.
BeforeCommit ==
    /\ At("pump") = "check"
    /\ IF Tombstone(Reel("pump")) THEN Errs({TRUE}) ELSE proc' = Goto("pump", "commit")
    /\ UNCHANGED <<rec, cache, due, q, app, used>>

\* After an error, a tombstone is not turned into a failed record.
LookAgain ==
    /\ At("pump") = "look"
    /\ proc' = Goto("pump", IF ~ Tombstone(Reel("pump")) THEN "fail"
                            ELSE IF proc["pump"].job.halts THEN "halt" ELSE "over")
    /\ UNCHANGED <<rec, cache, due, q, app, used>>

Forget ==
    /\ At("pump") = "forget"
    /\ rec' = [rec EXCEPT ![Reel("pump")] = None]
    /\ proc' = Goto("pump", "over")
    /\ UNCHANGED <<cache, due, q, app, used>>

\* The loop goes on unless it is paused or the device is offline.
DownloadOver ==
    /\ At("pump") \in {"over", "halt"}
    /\ q' = [Refreshed EXCEPT !.cancelled = @ \ {Reel("pump")},
                              !.aborted = FALSE,
                              !.paused = @ \/ At("pump") = "halt"]
    /\ \E l \in {"ending"} \cup (IF q'.paused THEN {} ELSE {"pick"}) :
        proc' = [proc EXCEPT !["pump"] = [Idle EXCEPT !.pc = l]]
    /\ UNCHANGED <<rec, cache, due, app, used>>

Pump ==
    \/ PumpPick \/ PumpEnds \/ DownloadReads \/ PutFresh \/ Fetch
    \/ Validate \/ BeforeCommit \/ LookAgain \/ Forget \/ DownloadOver

(***************************************************************************)
(* The user, the clock and the browser                                     *)
(***************************************************************************)
\* A swipe away from a Reel of the feed, which may be older than its record.
Swipe(v) ==
    /\ v \in app.feed
    /\ Mark(v)
    /\ UNCHANGED <<cache, q, app, proc, used>>

\* setActiveVideoId: a Reel of the feed is played, and left again.
Play(v) ==
    /\ v \in app.feed
    /\ app' = [app EXCEPT !.playing = v]
    /\ UNCHANGED <<rec, cache, due, q, proc, used>>

Leave ==
    /\ app.playing # None
    /\ app' = [app EXCEPT !.playing = None]
    /\ UNCHANGED <<rec, cache, due, q, proc, used>>

\* No read and put of one update are an hour apart.
InFlight(v) == \E a \in Agents : proc[a].job # None /\ Reel(a) = v
                                 /\ (proc[a].saw # None \/ At(a) \in {"commit", "put", "fresh"})
Expire(v) ==
    /\ Viewed(v)
    /\ v \notin due
    /\ ~ InFlight(v)
    /\ due' = due \cup {v}
    /\ UNCHANGED <<rec, cache, q, app, proc, used>>

\* The page is reloaded, or the browser ends it, wherever its agents are.
Reload ==
    /\ Acts
    /\ q' = Memory
    /\ app' = Page
    /\ proc' = Loading
    /\ UNCHANGED <<rec, cache, due>>

\* One step of an agent.
Step(a) ==
    \/ UpdateReads(a) \/ UpdatePuts(a) \/ DropCache(a) \/ DropFails(a)
    \/ Reconcile(a)
    \/ a = "page" /\ Loaded
    \/ a = "life" /\ Life
    \/ a = "queue" /\ QueueSteps
    \/ a = "cancel" /\ CancelSteps
    \/ a = "clear" /\ ClearSteps
    \/ a = "pump" /\ Pump

User ==
    \/ Interrupt \/ CancelBatch \/ CancelAndClear \/ Reopen
    \/ \E S \in SUBSET Videos \ {{}} : EnqueueCatalog(S)
    \/ Leave
    \/ \E v \in Videos : Swipe(v) \/ Play(v)

World ==
    \/ Reload
    \/ \E v \in Videos : Expire(v)

Next == (\E a \in Agents : Step(a)) \/ User \/ World

Spec == Init /\ [][Next]_vars

\* The event loop runs every pending continuation; the page keeps being opened, so
\* that a run of the life cycle starts again; the hour passes, and a removal from
\* the cache does not fail for ever.
Fairness ==
    /\ WF_vars(Step("life"))
    /\ WF_vars(\E a \in Agents \ {"life"} : Step(a))
    /\ \A v \in Videos : SF_vars(Expire(v))
    /\ SF_vars(DropCache("life"))

FairSpec == Spec /\ Fairness

(***************************************************************************)
(* Properties                                                              *)
(***************************************************************************)
JobLabels == {"mark", "reported", "deleting", "drop", "verify", "sweep", "catalog",
              "discard", "get"}
Jobs == [v : Videos, what : JobLabels, halts : BOOLEAN]

ASSUME NoneAssumption == None \notin Records /\ None \notin Jobs

Labels == {"idle", "list", "orphans", "loaded", "verify", "confirm", "mark", "outbox",
           "overdue", "catalog", "retry", "enqueue", "put", "discard", "offered",
           "refresh", "waiting", "released", "records", "cleared", "pick", "ending", "get",
           "fresh", "fetch", "validate", "check", "look", "forget", "over", "halt"}
          \cup Updating \cup Loops \cup Drops

\* Every record, the memory of the queue and of the page and the place of every
\* agent have their types; what an update has read belongs to a job.
TypeOK ==
    /\ rec \in [Videos -> Records \cup {None}]
    /\ cache \in [Videos -> {"none", "good", "bad"}]
    /\ due \subseteq Videos
    /\ q \in [paused : BOOLEAN, clearing : BOOLEAN, aborted : BOOLEAN,
              cancelled : SUBSET Videos, batch : SUBSET Videos, seen : SUBSET Videos]
    /\ app \in [ready : BOOLEAN, playing : Videos \cup {None}, feed : SUBSET Videos]
    /\ \A a \in Agents :
        /\ proc[a].pc \in Labels
        /\ proc[a].job \in Jobs \cup {None}
        /\ proc[a].saw \in Records \cup {None}
        /\ proc[a].todo \subseteq Jobs
        /\ proc[a].done \subseteq Videos
        /\ proc[a].saw # None => proc[a].job # None /\ At(a) \in Updating
    /\ used \in 0..MaxActs

\* A write of what an update read before the Reel was viewed (repository.ts:62).
StaleWrite(v) ==
    \E a \in Agents :
        /\ proc[a].saw # None
        /\ Reel(a) = v
        /\ ~ proc[a].saw.viewed
        /\ proc'[a].saw = None

\* A record put afresh by an agent that looked for one before the Reel was viewed
\* (download-queue.ts:426, downloader.ts:202), and a cancelled record, deleted
\* whatever it says by now (download-queue.ts:361, 411).
On(a, labels, v) == At(a) \in labels /\ Reel(a) = v
Moves(a, labels, v) == On(a, labels, v) /\ proc'[a] # proc[a]
LatePut(v) == rec'[v] = Fresh /\ (Moves("queue", {"put"}, v) \/ Moves("pump", {"fresh"}, v))
Cancelled(v) == rec'[v] = None /\ (Moves("cancel", {"discard"}, v) \/ Moves("pump", {"forget"}, v))

\* What an agent does with a Reel only after a look at its record that found no
\* tombstone: to queue it, to download it, to commit the download, to note its
\* failure (download-queue.ts:205, 238, downloader.ts:191, 273, 292).
Guarded == {[agent |-> "queue", at |-> {"retry", "requeue", "enqueue", "put"}],
            [agent |-> "pump", at |-> {"stale", "fresh", "begin", "overquota", "fetch",
                                       "validate", "check"}],
            [agent |-> "pump", at |-> {"commit"}],
            [agent |-> "pump", at |-> {"fail"}]}

\* From the moment a Reel is viewed nothing begins to queue, download, commit or
\* fail it; and its tombstone outlives reconciliations, reports, deletions, the
\* clearing of the library and reloads.  It is lost only to an agent that had
\* looked before the view, to write what it read then or a fresh record, or to a
\* cancellation.
TombstoneHolds ==
    [][\A v \in Videos : Viewed(v) =>
        /\ Viewed(v)' \/ StaleWrite(v) \/ LatePut(v) \/ Cancelled(v)
        /\ \A g \in Guarded : On(g.agent, g.at, v)' => On(g.agent, g.at, v)]_vars

\* The file of a viewed Reel leaves the device, whatever fails, is retried or is
\* cut short by a reload in between, unless its tombstone is lost or the Reel is
\* played once more (view-lifecycle.ts:100-124).
ViewedRemoved ==
    \A v \in Videos : Viewed(v) ~> (cache[v] = "none" \/ ~ Viewed(v) \/ app.playing = v)
=============================================================================
