# Offline Reels: TLA+ models, checks and proofs

Offline Reels collects short videos from an Instagram account, normalizes them on a server and lets a
phone keep them for offline viewing. This directory models the parts of it in which several processes,
transactions or callbacks share state, checks the models with TLC on small instances, and proves their
safety properties for every instance with TLAPS. Paths below are relative to the repository; `worker.py`
and the like are under `apps/api/app/instagram`.

## The system

| Part | State | Operations | Talks to |
| --- | --- | --- | --- |
| Collector (`collector/service.py`, `persistence.py`, `runtime/operator.py`, `runtime/stage3c1.py`) | collection runs and items, Reel rows; a temporary file | claim or create a run, look, download, publish, commit, compensate, complete, fail, cancel | PostgreSQL, MinIO, the browser feed |
| Browser feed, downloader, verifier (`collector/runtime`) | observed Reels, scroll state, cookies, attempt files, the event transcript | open, gesture, poll, navigate, fetch, verify | a remote page, yt-dlp, ffprobe |
| Normalizer (`normalizer/worker.py`) | normalization jobs with leases, Reel status, Video rows; staging and final objects | claim, process, publish, commit, compensate, finish, reconcile, clean up | PostgreSQL, MinIO, ffmpeg |
| Login sessions (`login_sessions.py`, `login_gateway.py`, `apps/login-browser`) | one open session per account, the account status | create, activate, complete, cancel, expire | PostgreSQL, a browser container |
| Profile lock and handoff (`runtime/profile_lock.py`, `handoff_state.py`) | a lock file, a state file | take, release; activate, confirm, cancel, expire | other processes, through files |
| Management API (`api/management.py`) | pairing codes, device sessions, idempotency records, rate limits, views, reserve reports | pair, rotate, queue and cancel runs and logins, report | PostgreSQL |
| Catalogue (`api/videos.py`, `services/videos.py`, `media`) | Video rows and objects | seed, list by a signed keyset cursor, stream byte ranges | PostgreSQL, MinIO, ffmpeg |
| Offline library (`apps/web/lib/offline`) | IndexedDB records, Cache Storage entries, tombstones, a download queue | download, cancel, clear, delete after viewing, reconcile, report views | service worker, API |
| PWA shell and components (`apps/web`) | UI state | display and navigation | offline library, API |

The rows of one Reel pass through the parts in turn. The Collector publishes a *source object* and
commits the Reel as `source_ready` together with a pending job. A normalizer worker claims the job,
publishes a *final object* under the hash of its bytes and commits the Reel as `ready` with a Video
row. Then it removes the source. The two stores are not transactional together, so each part
publishes first, commits second and *compensates* (deletes what it published) when the commit fails.
The phone reads the catalogue, downloads what is listed and deletes an hour after it was viewed.

What is hard here: workers whose lease ran out while they still work; a crash, Ctrl-C or SIGTERM
between any two calls; a commit whose answer is lost; a check in one store and an action in the
other; two collectors on the same Reel; cancellation through three channels (API flag, signal,
recovery command); two browsers on one profile; requests that are repeated while their first
execution still runs; and on the phone, callbacks that interleave around asynchronous storage.
`PROJECT.json` lists these hazards at the lines where they bite.

## Modules

| Module | Models |
| --- | --- |
| `Normalizer` | worker processes and `--reconcile` commands on jobs, Reels, Video rows and three kinds of objects |
| `ReelLife` | the abstract specification of the life of a Reel, which `Normalizer` implements |
| `Collector` | operator processes, the engine's loop, the object store, the API's and the recovery command's part in a run |
| `FeedSource`, `Transcript` | the memory of observed Reels; the two validators of a run's events, both as operators |
| `FeedWalk` | one process walking the feed: browser, engine, download, verification |
| `Connection` | login sessions, gateway, login browser, profile lock, Collector, handoff, profile reset |
| `ControlPlane` | the requests of the management API and the rows they share |
| `Media`, `Catalogue` | the choice and result of a normalization; seeding, paging and streaming |
| `OfflineLibrary` | the agents of the PWA on IndexedDB and Cache Storage |
| `MC...` | the small instances: outputs, accounts of processes, symmetry |
| `NormalizerProofs`, `ReelLifeProofs`, `CollectorProofs`, `FeedWalkProofs`, `ConnectionProofs`, `ControlPlaneProofs`, `CatalogueProofs`, `OfflineLibraryProofs` | the theorems about the module of that name; `ReelLifeProofs` has the refinement |

### Normalizer and ReelLife

A process is a label `pc[p]` with the local variables of `run_once` and `reconcile` that live across
a call: the claimed `reel` and `job`, `key` (`final_key`), `created` (`created_final`), `again` (is the
exception retryable), and the work lists of a reconcile pass. A database transaction is one action
because it locks the rows it writes; each call to the object store is one action; an exception is an
action that goes to the handler's label. Claiming and recovering use `SKIP LOCKED`, which only means
that a row is left for a later attempt. A database error in `claim` or `reconcile` ends the process,
like `Crash`; so does the end of a bounded (`--limit`) run.

Time is abstracted to the flag `expired` of a job row. `LeaseExpires` may happen under a busy worker
(`SlowWorkers`), because nothing renews a lease. `Crash` forgets the locals; the replacement of a
worker has a new `worker_id` and is another element of `Workers`. Bytes are abstracted to the key they
hash to: `Outputs[r]` are the keys that normalizing `r` may yield. The Collector's part is one action,
`CommitSource`; that it leaves the source in place is what `SourceDurable` of `Collector` is about.
`status()` and `verify()` only read and are not modelled.

`ReelLife` knows neither jobs nor workers: a Reel is committed, taken at most `MaxAttempts` times for
each commit, given back or given up, and shown once with a Video row of its own. `Normalizer` maps its
Reel status to `state`, the attempt number of the youngest job to `takes` and the Video row to `shown`.
A recovery of several expired jobs is one `GiveBack` of several Reels.

### Collector

A process is a label with the locals of `run_stage_3b` and `collect`. `Continuing` processes run stage
3C1, which skips Reels the account already owns and completes only at a durable total. The feed, the
download, validation, the byte limit and the deadline are nondeterministic here: they may fail at every
point where the code checks them. A run row carries its items, with the unique indexes and the check
constraint as the guard `Fits`. The job that `commit_source` inserts is not repeated here: by
`JobsMatchReel` it exists exactly while the Reel is `source_ready` or `normalizing`. The normalizer is
the environment (`NormalizerStep`, `NormalizerCleanup`). `fail_run`, `cancel_run` and `complete_run` do
not lock the run; the only other writer of the status of a running run is the recovery command, which
`CancelLive` would allow beside a live collector.

### FeedWalk

`FeedWalk` is the other half of a Collector process: `PlaywrightReelsFeed` (`open`, `current`, the
gestures, `wait_for_next`, `next_from_authenticated_feed`, navigation and reload), the loop of
`CollectorEngine` that drives it, the attempt to fetch a Reel with its cookie jar and temporary files,
and the verification of the finished run. The page is external: a probe finds any Reel of the instance
or none, a document embeds any list of `Scripts`, a response brings any of `Payloads`, and
`Respond` may happen between any two steps. The deadline (`late`) may pass at any time. A "source"
feed is `PlaywrightReelsFeed`; a "gesture" feed is a feed port without `next_from_authenticated_feed`,
which the engine supports and the tests use. `walk`, `touch`, `sample` and `source` are the locals of
`collect()`, the scroll state, the locals of `wait_for_next` and `AuthenticatedFeedSource`; `log` is
the transcript. Probe geometry, modal dialogs, jitter and diagnostics are abstracted. `MaxKnown` is
larger than the feed of the instance: with a longer feed the memory of 64 codes drops the oldest and
may offer a Reel again, which the engine then refuses or skips. `OfferAll` and `Without`, the loops of
the source over a payload and over its queue, are recursive functions, so that theorems can be about them.

### Connection

One account, its login sessions, and the processes that use its browser profile. A handler of the
gateway is split at its awaits: `StateAsked`, `StateReadiness`, `StateComplete` and `StateClose` are the
`state` handler, between which the session may be cancelled, expire or be replaced; a reply of
`verify_profile` may be lost (`lost`), and `GatewayRestart` forgets `profile_verifications_started`.
`held[p]` is the number of the lock *file* a process holds: a reset deletes the profile with the lock
file in it, so that the next process locks another one. A lock and its Chromium are steps apart. The
login browser takes the lock (`starting`), brings Chromium up (`login`, later `connected`), is told to
stop (`stopping`, which is all that a shutdown request does), sees Chromium gone (`stopped`) and only then
releases the lock; the Collector does the same through `launch`, `close` and `unlock`, and through `undo`
and `failed` when its browser does not come up. A killed container takes its Chromium and its lock with
it. A Chromium that survives a failed `context.close()` or a `SIGKILL` of its parent inside a living
container is left out. The handoff file is loaded, expired and
written by the Collector and by the gateway without a lock; a read and the write that follows are two
steps. `worker` is the Collector process with the account transitions it makes. Left out: the VNC
relay, the supervision of the X server; that both writers of the handoff file use the same temporary
name. The account row is read without a lock in one transaction, which is one step here. Reachable
here, and promised otherwise nowhere: a Collector that moves the account while a session of a
connected profile is open leaves a session that can be neither expired nor cancelled
(`login_sessions.py:233`), and a Collector that is killed leaves the account `connecting`.

### ControlPlane

A request passes `auth`, the rate limit and then its command, each a transaction of its own. The
rate-limit transaction reads `now()` first (`RateRead`), then waits for its row and counts it up
(`RateLimit`), or finds none and inserts one (`RateInsert`); whatever it writes as the start of a window
is the time it read, which may be past by then. `Delay` bounds that time: `Tick` does not pass it. Expired rows are cleaned up in the transaction of a command that is carried out
(`Perform`) or answered from its record (`Replay`); a refusal (`Refuse`) rolls that back. What `auth` has
read may be stale in the next one: the session revoked or expired, its token rotated, its rows cleaned
up. `records` are the idempotency rows; a command and its record are one transaction. Two handlers that
insert the same row collide (`Collided`), as the unique index makes them. `stale` remembers whether a
request was sent without a session or token in force. The clock is small and explicit, because the
argument is about lifetimes: a record must live as long as the session it protects
(`ControlPlaneAssumption`; the settings allow sessions of at most 24 hours, the lifetime of a record). A
request authenticated before a revocation may still be carried out after it; the fingerprint of a
cancellation does not include the run named in the path, so a key used again for another run is answered
from the first one's record. The cleanup of one device's rows by a request of another is in the model but
needs more requests than the instance has. `WindowBounded` is about requests less than `Window - Delay`
apart, of which fewer than twice the limit pass. A window that starts in the past ends early, so over a
full window's length almost three times the limit can pass; and the code bounds the wait of a transaction
nowhere, so nothing is claimed for one that waits as long as a window.

### Media and Catalogue

`Media` has the decision of `select_normalization_strategy` and what `normalize` may return, with ffmpeg
producing anything. `Catalogue` has the seed command (normalize, stat, upload, upsert, commit, and the
removal after a failure), a client that reads all pages as `getEntireVideoCatalog` does, and the stream
endpoint. `created_at` is the time at which a transaction began, so rows appear behind a cursor that
is in use; ids are random, so ties are broken in any order. A restart with another secret makes old
cursors invalid. `tidy` and `torn` are history variables: a command is tidy while no other worked on its
key and no answer of its commit was lost, and `torn` are the keys whose object a command that was not
tidy removed. `left` are the keys whose object a command left behind because it was killed or because its
removal failed. That the output of ffmpeg is probed again before it is published is the filter of
`Normalized` and no property of its own. Objects that the normalizer publishes under the same keys are not composed in. Both
range parsers, that of the API and that of the service worker, are compared with one reference.

### OfflineLibrary

JavaScript runs one callback at a time and yields at every `await`, so an agent is a sequence of steps
between which the others run: a `queue` call under `runControlled`, `cancel` and `clear` (which let go of
that lock while they await the pump), the `pump` with its download, the view `life` cycle and the `page`
reconciliation. `updateOfflineVideo` is two IndexedDB transactions (`UpdateReads`, `UpdatePuts`): what
it puts back may be older than what it overwrites. Loops run over a snapshot (`todo`). `Reload` ends all
agents wherever they are. Only operations that the application calls are modelled;
`enqueueMany`, direct `enqueue` and `retry`, `removeQueued`, `pause`, `abortActive` and
`deleteOfflineLibraryVideo` have no caller in a component (a direct `enqueue` would ignore the
tombstone of a deleted record, `download-queue.ts:423`). Also left out: failures of IndexedDB, a second
tab, two page reconciliations at once, and the attempts of the outbox, whose events stay pending
after five failures: a report is a read and a put of the record.

## Runs

| Run | Instance | Shows |
| --- | --- | --- |
| `normalizer` | 2 workers that may outlive their leases, one killable, 2 Reels with the same output, 2 attempts | `JobsMatchReel`, `SourceKept`, `CleanupRemembered`, `StaleWorkerHarmless`, `ImplementsReelLife` |
| `recovery` | a worker that is killed, one that is not, repeated `--reconcile`; no early expiry | `ReadyHasFinal`, `Settles`, `SourceRemoved` |
| `lost` (violation) | 2 workers, early expiry | an object in use is compensated |
| `collector` | 2 accounts, 2 Reels, target 2; interrupts, kills, lost answers | `RunAddsUp`, `TerminalFrozen`, `DurableKept` |
| `collector_alone` | 1 account, an ordinary and a continuing process, 2 Reels, 2 contents, 2 runs | `SourceDurable`, `RunEnds` |
| `walk` | 1 process, both kinds of feed, both stages, 3 Reels | `HandedOnce`, `GestureVerified`, `Tidy`, `WalkEnds` |
| `transcript` (violation) | the authenticated source | a completed run fails its verification |
| `connect` | 2 sessions, plain Collector runs, 1 reset | `LoginOwnsAccount`, `ExclusiveProfile`, `ClosedStays` |
| `handoff` | 1 session, a Collector that offers a handoff, 1 lost reply or restart | `VerifiedOnce`, `HandoffConfirmed`, `HandoffEnds` |
| `control` | 3 requests, 1 code, 2 devices, 1 key; transactions that wait 1 tick of a window of 2 | `AppliedOnce`, `PairedOnce`, `StaleRefused`, `WindowBounded` |
| `catalogue` | 2 seed processes, 3 commands, 2 files, 2 times, 2 secrets, page sizes 1 and 2 | `CatalogueComplete`, `RowsBacked`, `RangesExact`, `NoStrayObjects` |
| `library` | 1 Reel, 2 acts of the user, reloads and ignored failures among them | `TombstoneHolds`, `ViewedRemoved` |

Every run that passes also checks `TypeOK`, except the second instances of a module.

What some of them say, in more words. `StaleWorkerHarmless`: a worker in its attempt that does not own the
running job changes no row at all; the step that makes a Reel ready is its owner's; a Reel leaves
`normalizing` by a step of the owner or because the lease had expired. `ExclusiveProfile`: the login
browser and the Collector have a Chromium on the profile at the same time only if one of them holds the
lock of a file that a reset has deleted; a lock taken too late or released too early violates it.
`NoStrayObjects`: an object without a row belongs to a command that is still running, or is in `left`.
`TombstoneHolds`: once a Reel is viewed no agent begins to queue, download, commit or fail it, so each of
the tombstone checks (`download-queue.ts:205` and `238`, `downloader.ts:191`, `273`, `292`) is needed; and the view is lost
only to an agent that had looked before it, or to a cancellation.

Bounds. Two workers are enough for an owner and a former owner to meet; two attempts reach the first
retry and its exhaustion; two Reels reach a shared output. Two runs let one follow another, with the
objects and Reels the first one left; target 2 makes an advance between two commits necessary; two
contents make a conflict possible. Three Reels let a walk skip one and still advance; polls, wheels and
scrolls are as small as their nesting allows, and `MaxObs` lets one response come between two
navigations. A document embeds nothing, one Reel or a pair of neighbours, a response brings at most one
Reel; longer ones are covered by `NoReelHandedTwice`. Two sessions let one replace the other. Three
requests let a repetition meet the first execution while a third revokes, rotates or cleans up; `Limit =
1`, two ticks per window and a delay of one reach the edge of a window and a start that is past. Three commands on two files reach two commands on
one key and a third row behind a cursor; the client's limit of 10 000 videos is not reached. Two acts are
a download and one of cancel, clear, interrupt, reload, show again or an ignored failed removal; views
and the life cycle are not counted; that a call puts a fresh record over a tombstone (`LatePut`) takes a
third act and is covered by the theorem alone. Named bounds: `MaxCollects`, `MaxRuns`, `MaxObs`, `Resets`,
`MaxLost`, `MaxClock`, `Delay`, `MaxSeeds`, `MaxTime`, `MaxKeys`, `MaxActs`. Elements are interchangeable where a
run uses symmetry, which no run with a liveness property does. Deadlock is checked in `walk` and
`library`; in the others the system may stop when every process has ended.

Fairness. A started process keeps taking steps (operating system); leases run out (clock);
`docker-compose.prod.yml` restarts the daemon; the operator repeats `--reconcile` and does not meet a
storage error on the same source for ever (strong fairness of `ScrubSource`); the operator ends an
abandoned collection run with the recovery command. A walk takes its next step; a waiting Collector
polls, and a handoff becomes due. In the PWA the event loop runs every pending continuation and the page
is opened again and again, so that the life cycle runs; the hour passes (strong, because a lost tombstone
may start it again); removing a viewed Reel from the cache does not fail for ever. Nothing makes a user
leave the Reel that plays, and `ViewedRemoved` excuses it. No fairness is assumed of the branch a step
takes: downloads, commits and removals may fail every time.

### Disagreements with the documentation

1. `lost`: `_compensate_final_if_unreferenced` looks for a Video row and removes the object later. A
   worker that outlived its lease can remove the object another worker has just committed. ADR 011:12
   limits compensation to objects without a durable reference. With `SlowWorkers = FALSE` the property
   holds (`recovery`, and `ReadyAlwaysHasFinal` for all instances) as long as no two Reels have the same
   output. With `SharedOutput` TLC finds it violated without any slow worker: the attempt of one Reel
   fails its verification and, between its check and its removal, the attempt of another commits the key.
2. `transcript`: the engine records `feed_source_advance` for the live feed, and neither validator knows
   that event, so a completed live run with an advance fails its post-run verification, which
   `docs/operations/stage-10-linux-staging.md:137` makes part of success. For a gesture feed the
   validators accept every completed walk (`GestureVerified`).

Five more follow from the models, with the instances that show them:

- ADR 011:13 and ARCHITECTURE.md:53 leave expired leases to reconcile; the daemon calls it once as it
  starts, when the lease of the worker it replaces is usually still running. `Settles` therefore needs
  the repeated command: without `Commands`, it fails.
- `complete_run` does not look at the status it overwrites, and the recovery command does not set the flag
  the collector polls (`transitions.py:59`). With `CancelLive = TRUE`, `TerminalFrozen` fails.
- Compensation of a source does not ask whether a committed Reel uses it (RISKS.md:13). With two
  accounts, or with `LostCommits = TRUE`, `SourceDurable` fails.
- A tombstone is called durable (`downloader.ts:189`, ADR 014:14), but an update that read the record
  before it was viewed puts the old record back (`repository.ts:62`). `TombstoneHolds` states that this,
  a fresh record put by a call or a download that had found none before the view, and a cancellation
  (`download-queue.ts:361`, `411`) are the only ways to lose one; with any of the three taken out of it, it
  fails (the second with a third act). Once it is lost the Reel is queued again. With a third act, TLC also finds an
  update that puts back a record which `cancelBatch` had just deleted, and a deleted Reel that becomes
  playable again: the stale `begin` write of a download, a stale update of the life cycle, then the commit.
- ARCHITECTURE.md:95 says that the Collector and the login browser never use the profile at the same time.
  A profile reset under an open browser deletes the lock file with the profile, and the next browser locks
  a new one: without its exception for a reset, `ExclusiveProfile` fails in `connect`.

## Proofs

Every theorem below holds for all values of its module's constants that satisfy the named assumptions
of that module (`ConstantsAssumption` and the like); a hypothesis beyond these is given in the table. In every
module `Invariance` is `Spec => []Inv` for an `Inv` that is inductive, and `TypeCorrect` is `Spec =>
[]TypeOK`; the others follow from `Inv`, and an action property from `Inv` and one step.

| Module | Theorem | States |
| --- | --- | --- |
| `NormalizerProofs` | `JobsAlwaysMatch`, `SourceAlwaysKept`, `CleanupAlwaysRemembered`, `StaleWorkerAlwaysHarmless` | the properties of the run `normalizer` |
| | `RetriesAlwaysBounded`, `VideoAlwaysOwn`, `HistoryAlwaysKept` | jobs per commit, ownership of Video rows, the history of job rows |
| | `ReadyAlwaysHasFinal` | `ReadyHasFinal`, if `Undisturbed`: `~SlowWorkers`, and no two Reels have the same output |
| `ReelLifeProofs` | `NormalizerImplementsReelLife` | `ImplementsReelLife`: initial states map to initial states, steps to steps or stutters |
| `CollectorProofs` | `RunAlwaysAddsUp`, `DurableAlwaysKept`, `OneActiveRun` | `RunAddsUp`, `DurableKept`; one active run per account |
| | `TerminalAlwaysFrozen` | `TerminalFrozen`, if `~CancelLive` |
| | `SourceAlwaysDurable` | `SourceDurable`, if `Alone`: `~CancelLive`, `~LostCommits` and one account |
| `FeedWalkProofs` | `NoReelHandedTwice` | `HandedOnce`, if the memory has room for the Reels of the walk |
| | `GesturesVerified`, `AlwaysTidy` | `GestureVerified`, `Tidy` |
| `ConnectionProofs` | `LoginAlwaysOwnsAccount`, `AlwaysVerifiedOnce`, `ProfileAlwaysExclusive`, `HandoffAlwaysConfirmed`, `ClosedAlwaysStays` | the safety properties of `connect` and `handoff` |
| `ControlPlaneProofs` | `AlwaysAppliedOnce`, `AlwaysPairedOnce`, `StaleAlwaysRefused`, `WindowAlwaysBounded` | the safety properties of `control` |
| `CatalogueProofs` | `CatalogueAlwaysComplete`, `RowsAlwaysBacked`, `RangesAlwaysExact`, `NeverStrayObjects` | the safety properties of `catalogue` |
| `OfflineLibraryProofs` | `TombstonesHold` | `TombstoneHolds` |

The conditional hypotheses are those under which the property is true, not a convenience: without
them TLC finds the counterexamples listed above, and for a memory without room, a Reel handed out twice. The assumptions on constants worth knowing are that
sessions live no longer than records (`ControlPlaneAssumption`, which `AppliedOnce` needs and the settings
guarantee), that the set of requests is finite, and that `None` is none of the values it stands in for.

**Normalizer.** `TypeInv` adds to the types that a process inside an attempt holds a Reel and the number of
one of its jobs. `JobInv` is `JobsMatchReel` with the fact that no row used more than `MaxAttempts`
attempts and a pending one has one left. `Budget` strengthens `RetriesBounded` to count the jobs *still to
come*: the number of rows plus the attempts a pending or running row has left is at most `MaxAttempts` per
commit. `SourceInv` says which processes may be about to remove a source or clear a flag (only ones whose
Reel is ready), which is what makes `SourceKept` and `CleanupRemembered` survive a crash between the two.
The lemmas below the invariants are about one row or one sequence of rows, so that every action's case
only instantiates them. For the refinement each action gets a lemma that names its abstract step; a
failed attempt and a recovery give back or give up, depending on the attempts left, and all others stutter.
`ReadyHasFinal` needs `FinalInv`: when no attempt outlives its lease, a worker owns the running job of its
Reel until its failure is recorded, unless the commit it is about to compensate was durable
(`LeasesHeld`). So whoever removes a final object (`RemoverOwns`) keeps its Reel from being ready, and a
Reel with another output, ready or about to be committed, has another object.

**Collector.** The counters follow from `RowAddsUp`, an invariant of one run row: what `_add_item` does keeps
it (`AddedAddsUp`), and so does every change of status. That `complete_run`, which checks nothing, completes
only runs with enough items needs what a process knows at each label (`RunOK`: at `complete` its run has
enough, and its target is the process's). `OneHolder`, that no two processes work on one run, follows from
the claim's guard; with it a step of one process leaves the facts about another alone. `SourceDurable` needs
`SourceInv`: between the look at a Reel's status and the commit nobody else makes it durable (`FreshAt`), and
a compensation meets no durable Reel. This is where the hypothesis `Alone` enters.

**FeedWalk.** `SourceInv`: every Reel that was seen or handed out is used up, that is remembered and not in
the queue. A document or a response offers its Reels one after the other; `OfferGood` is one of them and
`OfferAllGood` the loop. The recursive functions are unfolded by exhibiting the finite function that
satisfies their equation (`Traced`), by the least number at which it would fail (`UpTo`). If the memory
could overflow, nothing follows, hence the hypothesis of `NoReelHandedTwice`. For `GesturesVerified`, `Told`
gives the events of the last position by the label of the process, and of every earlier one that it is one
of finitely many shapes (`Passed`); `Counted` says that in stage 3B each position added one Reel, so that
the number of positions is the target. At the end the two validators are evaluated on these shapes.
`Clean` says where cookies and temporary files may exist, and `Tidy` is its consequence at the last step.

**Connection.** `LockExclusive` and `UsersHoldLock` carry `ExclusiveProfile`: two processes never hold
the same lock file, and a process holds one from before its Chromium is up until it releases the lock
after it. Two open browsers thus hold two files, and one of the two is older than the present one.
`VerificationCounted` adds to `VerifiedOnce`
that a verification that did not navigate yet is not counted while every lost reply is. `HandoffInv`
follows a confirmation through the file and the local variable of a writer that has read it.

**ControlPlane.** `AppliedRecorded` says that a carried-out request has a record that lives as long as its
session, or that the session is gone, which gives `AppliedOnce`. `StaleCaught` says of a stale request on its
way that its session is dead or its token old, and stays so. `Timely` says that
the time a rate-limit transaction read is past by `Delay` at most. `Counts` splits the passed requests of a
scope by its row, which was made at some time `c` no later than its start plus `Delay`: those it counts,
one of which passed at `c`, and the old ones, which had passed by `c` and of which the recent ones do not fill
the limit. When the window is over, the one that opened it is at least `Window - Delay` back, so that the
recent ones do not fill the limit again (`WindowClosed`). These are facts about cardinalities of sets of
requests.

**Catalogue.** A page is the rows behind a cursor with fewer than the page size above them; the lemmas
show that its last row separates it from the rest (`Newer` is a strict order; the newest and the oldest
row of a set come from the least natural number). `Midway` then says that what was listed at the start is
read or still behind the cursor, what was read is not behind it, and the cursor grows older: no row is
missed, read twice or asked for again, also when the page size changes. `Removals` and `TidyAlone` say
when a seed command may remove an object. `NoStrayObjects` is inductive with what a command knows of its
key: each step that ends a command, or takes a row or an object away, is shown to leave no object unaccounted
for (`StrayStep`). The two range parsers are equal to the reference for every
size, by arithmetic.

**OfflineLibrary.** `Inv` says of every agent that it has a job where a step needs one, holds a record it read
only inside the update that read it, and never rests at the head of a loop. `TombstonesHold` has two
halves. `StepTombstone` goes through the writers of a record, each of which keeps a view or is one of the
three named losses, by the agent that steps. `StepBegins` goes through all steps: only the queue and the
pump ever reach a guarded label (`OthersBegin`), a loop hands out no guarded one (`RunLabel`), and each look
at a tombstone leads elsewhere.

Not proved: liveness (`Settles`, `SourceRemoved`, `RunEnds`, `WalkEnds`, `HandoffEnds`, `ViewedRemoved`)
is out of the prover's reach and only model-checked. `CompletedVerified` is false (see `transcript`).

## Not modelled

Deployment files, smoke scripts, fixtures, spikes and the user interface. The local reserve controller,
which reads, waits and calls what `OfflineLibrary` and `ControlPlane` model. The heuristics by which the
browser recognises a Reel on a remote page, the VNC relay and process supervision of the login browser,
and the external programs (ffmpeg, ffprobe, yt-dlp, Chromium): their outcomes are nondeterministic where a
model meets them. Chunked reading of a stream from the object store.

## Plan

The safety properties of all runs are proved, some of them under the hypotheses of the table. What
remains:

1. Lemmas that bound each loop of `FeedWalk`, the safety part of `WalkEnds`.
2. An abstract specification of a download on the phone (absent, queued, playable, viewed) that
   `OfflineLibrary` implements, once the losses of a tombstone are steps of it.
