------------------------------ MODULE FeedWalk ------------------------------
(***************************************************************************)
(* The walk of one Collector process through the Reels feed: the browser   *)
(* (collector/runtime/browser_feed.py), the part of CollectorEngine that   *)
(* drives it (collector/service.py), the download of a Reel                *)
(* (runtime/downloader.py, session_cookies.py, validator.py) and the check *)
(* of the finished run (runtime/verification.py, stage3c1.py).  What the   *)
(* database makes of it is module Collector.                               *)
(*                                                                         *)
(* The page is external: what a probe finds is nondeterministic, and so is *)
(* the deadline.  Responses reach the feed source between any two steps.   *)
(***************************************************************************)
EXTENDS FeedSource, Transcript, FiniteSets

CONSTANTS
    Reels,           \* shortcodes
    Scripts,         \* what the JSON scripts of a document may hold
    Payloads,        \* the codes a GraphQL response may hold
    Feeds,           \* the kinds of feed: "source" (PlaywrightReelsFeed), "gesture"
    Stages,          \* the stages run: "3b", "3c1"
    Remaining,       \* plan.remaining of stage 3C1
    MaxTransitions,  \* STAGE_3C1_MAX_TRANSITIONS
    MaxObservations, \* STAGE_3C1_MAX_OBSERVATIONS
    MaxWheels,       \* max_scroll_actions
    MaxScrolls,      \* maximum_scroll_attempts
    MaxPolls,        \* polls of wait_for_next
    MorePolls,       \* its stabilization polls
    MaxObs           \* bound: responses between two navigations

ASSUME WalkAssumption ==
    /\ None \notin Reels
    /\ Scripts \subseteq Seq(Reels) /\ Payloads \subseteq Seq(Reels)
    /\ Feeds \subseteq {"source", "gesture"} /\ Stages \subseteq {"3b", "3c1"}
    /\ {Remaining, MaxTransitions, MaxObservations, MaxWheels, MaxScrolls,
        MaxPolls, MorePolls, MaxObs} \subseteq Nat

VARIABLES
    pc,     \* what the process does next
    kind,   \* the feed and the stage of this process
    source, \* AuthenticatedFeedSource of the feed
    touch,  \* the scroll state of the feed
    sample, \* the locals of wait_for_next
    walk,   \* the locals of collect()
    log,    \* SafeEventTranscript.events
    status, \* CollectorSummary.status
    late,   \* is the deadline over?
    open,   \* are the browser and the profile lock held?
    jar,    \* does a cookie jar of an attempt hold cookies?
    files,  \* the temporary files in the workspace
    verdict \* what the verifier said of a completed run

vars == <<pc, kind, source, touch, sample, walk, log, status, late,
          open, jar, files, verdict>>
feedVars == <<source, touch, sample>>
fetchVars == <<jar, files>>
runVars == <<kind, open, verdict>>

\* The labels of collect(), and those of an attempt to acquire a Reel.
Fetching == {"cookies", "mkdtemp", "media", "validate", "publish", "commit"}
Collecting == {"first", "look", "pause", "tally", "cooldown", "advance", "gesture",
               "sample", "navigate", "reload", "arrive"} \cup Fetching
Labels == Collecting \cup {"off", "ready", "end"}

\* The directory of an attempt, the .part file of the candidate, and what was
\* left behind: nothing removes it but a download of the same Reel.
Files == {"attempt", "part", "orphan"}

NoTouch == [scrolls |-> 0, forced |-> FALSE, confirmed |-> FALSE,
            identity |-> FALSE, checkpoint |-> 0]
NoSample == [polls |-> 0, more |-> FALSE, stable |-> 0,
             different |-> FALSE, refreshed |-> FALSE]
NoWalk == [cand |-> None, seen |-> {}, mine |-> {}, committed |-> 0,
           available |-> 0, wheels |-> 0, attempt |-> 1]

TypeOK ==
    /\ pc \in Labels
    /\ kind \in [feed : {"source", "gesture"}, stage : {"3b", "3c1"}]
    /\ source.known \in Seq(Reels) /\ Len(source.known) <= MaxKnown
    /\ IsInjective(source.known)
    /\ source.codes \in Seq([obs : Nat, code : Reels]) /\ Len(source.codes) <= MaxCodes
    /\ touch \in [scrolls : 0 .. MaxScrolls, forced : BOOLEAN, confirmed : BOOLEAN,
                  identity : BOOLEAN, checkpoint : Nat]
    /\ walk.cand \in Reels \cup {None} /\ walk.seen \subseteq Reels
    /\ walk.mine \subseteq walk.seen /\ walk.wheels \in 0 .. MaxWheels
    /\ log \in Seq(Seq(Events))
    /\ status \in {"none", "running", "completed", "failed", "cancelled"}
    /\ {late, open, jar} \subseteq BOOLEAN
    /\ files \subseteq Files
    /\ verdict \in {"none", "verified", "changed", "refused"}

-----------------------------------------------------------------------------
(* Control *)

Goto(label) == pc' = label

Record(event) == log' = [log EXCEPT ![Len(log)] = Append(log[Len(log)], event)]

\* collect() returns with this status; the feed is closed in the next step.
Finish(st) == Goto("end") /\ status' = st

\* The limits of CollectorLimits.
Wanted == IF kind.stage = "3b" THEN Target ELSE Remaining
Advances == IF kind.stage = "3b" THEN Target - 1 ELSE MaxTransitions
Continuing == kind.stage = "3c1"

\* What a step that needs the page, and finds no Reel, ends the walk with:
\* BROWSER_CLOSED cancels the run, every other reason fails it.
Outcome(reason) == IF reason = "BROWSER_CLOSED" THEN "cancelled" ELSE "failed"

-----------------------------------------------------------------------------
(* The page, external *)

\* What the state and identity probes find on an open tab.
Tabs == Reels \cup {"challenge", "login", "limited", "blank"}

Stop == [challenge |-> "CHECKPOINT_REQUIRED", login |-> "AUTH_REQUIRED",
         limited |-> "TEMPORARILY_LIMITED"]

\* _raise_if_closed and _raise_if_controlled_stop on the tab in use: the reasons
\* they may raise, None when they return.
ControlledStops == {Stop[s] : s \in DOMAIN Stop} \cup {"BROWSER_CLOSED", None}

\* _select_reels_page: a Reel of any tab, or the worst thing found.
SelectReelsPage(tabs) ==
    IF tabs \cap Reels # {} THEN tabs \cap Reels
    ELSE IF "challenge" \in tabs THEN {Stop.challenge}
    ELSE IF "login" \in tabs THEN {Stop.login}
    ELSE IF "limited" \in tabs THEN {Stop.limited}
    ELSE {"ACTIVE_REEL_NOT_FOUND"}

\* _wait_for_initial_reel: tabs are selected again until there is a Reel, a
\* controlled stop or no poll left; the browser may be closed meanwhile.
InitialReel ==
    UNION {SelectReelsPage(tabs) : tabs \in SUBSET Tabs} \cup {"BROWSER_CLOSED"}

-----------------------------------------------------------------------------
(* Before the engine *)

Init ==
    /\ pc = "off"
    /\ kind \in [feed : Feeds, stage : Stages]
    /\ source = EmptySource
    /\ touch = NoTouch
    /\ sample = NoSample
    /\ walk = NoWalk
    /\ log = <<>>
    /\ status = "none"
    /\ late = FALSE /\ open = FALSE /\ jar = FALSE
    /\ files = {}
    /\ verdict = "none"

\* PlaywrightReelsFeed.open: the profile lock, the browser, the Reels page.
Open ==
    /\ pc = "off"
    /\ kind' \in [feed : Feeds, stage : Stages]
    /\ verdict' = "none"
    /\ UNCHANGED <<feedVars, walk, log, status, late, fetchVars>>
    /\ \/ open' = TRUE /\ Goto("ready")
       \/ open' = FALSE /\ Goto("off")  \* an exception: _close_runtime

\* current(), once a Reel is on the screen.
Current(card, script) == source' = MarkUsed(ObserveEmbedded(source, script), card)

\* The operator is ready: current(), and the confirmation.
Ready ==
    /\ pc = "ready"
    /\ \/ \E card \in InitialReel \cap Reels, script \in Scripts :
             Current(card, script) /\ Goto("first") /\ status' = "running"
       \/ UNCHANGED source /\ Finish("none")  \* no Reel, no time or no confirmation
    /\ UNCHANGED <<touch, sample, walk, log, late, fetchVars, runVars>>

\* The engine asks for the current Reel again.
First ==
    /\ pc = "first"
    /\ \E card \in InitialReel :
          IF card \in Reels
          THEN /\ \E script \in Scripts : Current(card, script)
               /\ walk' = [walk EXCEPT !.cand = card]
               /\ Goto("look")
               /\ UNCHANGED status
          ELSE Finish(Outcome(card)) /\ UNCHANGED <<source, walk>>
    /\ UNCHANGED <<touch, sample, log, late, fetchVars, runVars>>

-----------------------------------------------------------------------------
(* A position of collect() *)

\* The top of the loop; the log has one entry per observation.
Look ==
    /\ pc = "look"
    /\ IF late \/ (Continuing /\ Len(log) >= MaxObservations)
       THEN Finish("failed") /\ UNCHANGED <<walk, log>>
       ELSE /\ walk' = [walk EXCEPT !.seen = walk.seen \cup {walk.cand}]
            /\ log' = Append(log, <<"detect">>)
            /\ Goto("pause")
            /\ UNCHANGED status
    /\ UNCHANGED <<feedVars, late, fetchVars, runVars>>

\* The account has the Reel, the database has it, or it must be downloaded.
Pause ==
    /\ pc = "pause"
    /\ \/ Record("pause") /\ Goto("cookies") /\ walk.cand \notin walk.mine /\ UNCHANGED <<walk, status>>
       \/ /\ Continuing
          /\ log' = [log EXCEPT ![Len(log)] = @ \o <<"pause", "duplicate_skipped">>]
          /\ Goto("tally") /\ UNCHANGED <<walk, status>>
       \/ /\ walk.cand \notin walk.mine
          /\ log' = [log EXCEPT ![Len(log)] = @ \o <<"pause", "db_commit">>]
          /\ walk' = [walk EXCEPT !.available = @ + 1, !.mine = @ \cup {walk.cand}]
          /\ Goto("tally") /\ UNCHANGED status
       \/ /\ \E st \in {"failed", "cancelled"} : Finish(st)  \* no video, closed, no database
          /\ UNCHANGED <<walk, log>>
    /\ UNCHANGED <<feedVars, late, fetchVars, runVars>>

-----------------------------------------------------------------------------
(* Acquiring a Reel: downloader, validator, publication *)

\* Mutant: the directory of a failed attempt stays.
AttemptLeft == files' = files \ {"part"}

\* The finally clauses of the download: the directory of the attempt and the
\* .part file are removed, or an error that is swallowed leaves them behind.
AttemptClosed ==
    \/ files' = files \ {"attempt", "part"}
    \/ files \cap {"attempt", "part"} # {} /\ files' = {"orphan"}

\* An exception in an attempt fails the run.
AttemptFails(st) == Finish(st) /\ AttemptClosed /\ jar' = FALSE

\* A fresh jar for the attempt; without a session cookie or browser there is none.
Cookies ==
    /\ pc = "cookies"
    /\ \/ ~late /\ jar' = TRUE /\ Goto("mkdtemp") /\ UNCHANGED <<status, files>>
       \/ AttemptFails("failed")
    /\ UNCHANGED <<feedVars, walk, log, late, runVars>>

MakeAttempt ==
    /\ pc = "mkdtemp"
    /\ files' = files \cup {"attempt"}
    /\ Goto("media")
    /\ UNCHANGED <<feedVars, walk, log, status, late, jar, runVars>>

\* yt-dlp under its own deadline.  Exactly one .mp4 must come out; it is moved
\* out of the attempt directory and must not be too large.
Media ==
    /\ pc = "media"
    /\ \/ \E outputs \in 0 .. 2, fits \in BOOLEAN :
             IF outputs = 1 /\ fits
             THEN /\ files' \in {{"part"}, {"part"} \cup (files \cap {"orphan"})}
                  /\ jar' = FALSE
                  /\ Record("download")
                  /\ Goto("validate")
                  /\ UNCHANGED status
             ELSE AttemptFails("failed") /\ UNCHANGED log
       \/ AttemptFails("failed") /\ UNCHANGED log
    /\ UNCHANGED <<feedVars, walk, late, runVars>>

\* A step that records its event, if the deadline is not over before it.
Acquire(label, event, then) ==
    /\ pc = label
    /\ \/ ~late /\ Record(event) /\ Goto(then) /\ UNCHANGED <<status, files, jar>>
       \/ AttemptFails("failed") /\ UNCHANGED log
    /\ UNCHANGED <<feedVars, walk, late, runVars>>

Validate == Acquire("validate", "validation", "publish")

Publish == Acquire("publish", "publish", "commit")

\* The deadline may be over once the source is committed.
Commit ==
    /\ pc = "commit"
    /\ \/ /\ ~late
          /\ Record("db_commit")
          /\ walk' = [walk EXCEPT !.committed = @ + 1, !.mine = @ \cup {walk.cand}]
          /\ AttemptClosed
          /\ jar' = FALSE
          /\ (Goto("tally") /\ UNCHANGED status) \/ Finish("failed")
       \/ AttemptFails("failed") /\ UNCHANGED <<walk, log>>
    /\ UNCHANGED <<feedVars, late, runVars>>

\* Enough Reels, or a limit, or the cooldown before the next one.
Tally ==
    /\ pc = "tally"
    /\ IF walk.committed + walk.available >= Wanted
       THEN (\E st \in {"completed", "failed"} : Finish(st)) /\ UNCHANGED log
       ELSE IF late \/ Len(log) - 1 >= Advances
       THEN Finish("failed") /\ UNCHANGED log
       ELSE Record("cooldown") /\ Goto("advance") /\ UNCHANGED status
    /\ UNCHANGED <<feedVars, walk, late, fetchVars, runVars>>

-----------------------------------------------------------------------------
(* _confirm_transition *)

\* After the cooldown: a feed with an authenticated source, or gestures.
Advance ==
    /\ pc = "advance"
    /\ IF late THEN Finish("failed") /\ UNCHANGED walk
       ELSE /\ Goto(IF kind.feed = "source" THEN "navigate" ELSE "gesture")
            /\ walk' = [walk EXCEPT !.attempt = 1]
            /\ UNCHANGED status
    /\ UNCHANGED <<feedVars, log, late, fetchVars, runVars>>

\* A candidate from the source is handed to the engine.
HandOut(taken, event) ==
    /\ source' = MarkUsed(taken.source, taken.code)
    /\ walk' = [walk EXCEPT !.cand = taken.code]
    /\ Record(event)
    /\ Goto("arrive")
    /\ UNCHANGED status

\* next_from_authenticated_feed: the queue first, and only if it has no embedded
\* candidate the Reels page is loaded again.
TakeQueued ==
    /\ pc = "navigate"
    /\ kind.feed = "source"
    /\ \E stop \in ControlledStops :
          LET taken == NextEmbedded(source, walk.cand) IN
          IF stop # None THEN Finish(Outcome(stop)) /\ UNCHANGED <<source, walk, log>>
          ELSE IF late THEN Finish("failed") /\ UNCHANGED <<source, walk, log>>
          ELSE IF taken.code # None THEN HandOut(taken, "feed_source_advance")
          ELSE /\ source' = ResetForNavigation(source)
               /\ Goto("reload")
               /\ UNCHANGED <<walk, log, status>>
    /\ UNCHANGED <<touch, sample, late, fetchVars, runVars>>

\* The page is there again; the Reel on it is used up, not handed out.
TakeReloaded ==
    /\ pc = "reload"
    /\ kind.feed = "source"
    /\ \/ \E reason \in InitialReel \ Reels :
             Finish(Outcome(reason)) /\ UNCHANGED <<source, walk, log>>
       \/ \E card \in InitialReel \cap Reels, script \in Scripts :
             LET fresh == MarkUsed(ObserveEmbedded(source, script), card)
                 taken == NextEmbedded(fresh, walk.cand)
             IN  IF taken.code = None  \* AUTHENTICATED_FEED_EXHAUSTED
                 THEN source' = fresh /\ Finish("failed") /\ UNCHANGED <<walk, log>>
                 ELSE HandOut(taken, "feed_source_advance")
    /\ UNCHANGED <<touch, sample, late, fetchVars, runVars>>

\* Mutant: the retry is recorded like the first attempt.
GestureEventPlain == "advance"

GestureEvent == IF walk.attempt = 1 THEN "advance" ELSE "advance_retry"

\* What is hit at an endpoint of the swipe: the central video, the shell of the
\* feed over it, or anything else (a control, a dialog, another video).
Surfaces == {"video", "shell", "other"}

\* Both endpoints hit the video, or both the eligible shell.
FeedInputTarget(start, end) == start = end /\ start \in {"video", "shell"}

\* A swipe needs a target; `changed' says that two equal new media samples follow.
SwipeAdvances(start, end, changed) == FeedInputTarget(start, end) /\ changed

\* A gesture is confirmed by new media, if the media before it were known.
GestureConfirmed(identity, swiped, keyed) == ~touch.forced /\ identity /\ (swiped \/ keyed)

\* advance(): a swipe, else a key, else the pointer wheel; the wheel at once if
\* the last gesture changed the media but brought no Reel.  wait_for_next looks
\* for the media again when they were not known before the gesture.
Gesture ==
    /\ pc = "gesture"
    /\ IF walk.attempt > MaxWheels - walk.wheels \/ late \/ touch.scrolls >= MaxScrolls
       THEN Finish("failed") /\ UNCHANGED <<touch, sample, log>>
       ELSE \/ \E identity, found, changed, keyed, wheeled \in BOOLEAN, start, end \in Surfaces :
                  LET confirmed == GestureConfirmed(identity, SwipeAdvances(start, end, changed), keyed)
                  IN  IF confirmed \/ wheeled
                      THEN /\ touch' = [scrolls |-> touch.scrolls + 1, forced |-> FALSE,
                                        confirmed |-> confirmed, identity |-> identity \/ found,
                                        checkpoint |-> source.obs]
                           /\ sample' = NoSample
                           /\ Record(GestureEvent)
                           /\ Goto("sample")
                           /\ UNCHANGED status
                      ELSE Finish("failed") /\ UNCHANGED <<touch, sample, log>>
            \/ Finish("cancelled") /\ UNCHANGED <<touch, sample, log>>
    /\ UNCHANGED <<source, walk, late, fetchVars, runVars>>

\* Mutant: the polls are not counted.
SampledUncounted(media) ==
    [sample EXCEPT !.different = sample.different \/ media # "no",
                   !.stable = IF media = "no" THEN 0 ELSE 1]

\* The sampled media element is none or the one before the gesture ("no"), the
\* one of the last sample, or a new one: two equal samples in a row are stable.
Sampled(media) ==
    LET differs == touch.identity /\ media # "no" IN
    [sample EXCEPT
        !.polls = sample.polls + 1,
        !.different = sample.different \/ differs,
        !.stable = IF ~differs THEN 0
                   ELSE IF media = "same" /\ sample.stable > 0 THEN 2 ELSE 1]

\* The candidate of a stable sample: the Reel on the screen or one observed after
\* the gesture, if there was a response since; else one of the queue.
Sighting(s, card) ==
    IF ~ObservedAfter(s, touch.checkpoint) THEN NextEmbedded(s, walk.cand)
    ELSE IF card \notin {None, walk.cand} THEN [code |-> card, source |-> s]
    ELSE LET after == NextAfter(s, walk.cand, touch.checkpoint) IN
         IF after.code # None THEN after ELSE NextFromCurrentFeed(s, walk.cand)

\* Is there another poll?  The stabilization polls follow a late change.
PollsLeft(next) ==
    \/ next.polls < MaxPolls
    \/ next.different /\ (next.stable < 2 \/ next.more) /\ next.polls < MaxPolls + MorePolls

\* wait_for_next returns a candidate.
Sighted(taken) ==
    /\ source' = MarkUsed(taken.source, taken.code)
    /\ touch' = [touch EXCEPT !.confirmed = FALSE]
    /\ sample' = NoSample
    /\ walk' = [walk EXCEPT !.cand = taken.code, !.wheels = @ + walk.attempt]
    /\ Goto("arrive")
    /\ UNCHANGED status

\* A sample without a candidate: another poll, the one retry, or the end.
Unsighted(s, next) ==
    /\ source' = s
    /\ IF PollsLeft(next)
       THEN /\ sample' = [next EXCEPT !.more = next.polls >= MaxPolls]
            /\ Goto("sample") /\ UNCHANGED <<touch, walk, status>>
       ELSE /\ sample' = NoSample
            /\ touch' = [touch EXCEPT !.forced = touch.forced \/ touch.confirmed]
            /\ IF walk.attempt = 1 /\ ~late
               THEN walk' = [walk EXCEPT !.attempt = 2] /\ Goto("gesture") /\ UNCHANGED status
               ELSE Finish("failed") /\ UNCHANGED walk

\* Two equal samples: a candidate, or the one refresh of the page for it, which
\* a tab that is no longer on Instagram does not get.
SampleStable(next, s, card) ==
    LET taken == Sighting(s, card)
        once == [next EXCEPT !.refreshed = TRUE]
    IN  IF taken.code # None THEN Sighted(taken)
        ELSE \/ /\ ~sample.refreshed
                /\ source' = ResetForNavigation(s)
                /\ sample' = once
                /\ Goto("reload") /\ UNCHANGED <<touch, walk, status>>
             \/ Unsighted(s, once)

\* One poll of wait_for_next; the document is read once the media are stable.
Sample ==
    /\ pc = "sample"
    /\ \/ late /\ Finish("failed") /\ UNCHANGED <<feedVars, walk>>
       \/ /\ ~late
          /\ \E stop \in ControlledStops \ {None} : Finish(Outcome(stop))
          /\ UNCHANGED <<feedVars, walk>>
       \/ /\ ~late
          /\ \E media \in {"no", "same", "new"} :
                LET next == Sampled(media) IN
                IF next.stable < 2 THEN Unsighted(source, next)
                ELSE \E script \in Scripts, card \in Reels \cup {None} :
                        SampleStable(next, ObserveEmbedded(source, script), card)
    /\ UNCHANGED <<log, late, fetchVars, runVars>>

\* _refresh_embedded_feed_candidate, once for each wait_for_next.
SampleReloaded ==
    /\ pc = "reload"
    /\ kind.feed = "gesture"
    /\ \/ \E reason \in InitialReel \ Reels :
             Finish(Outcome(reason)) /\ UNCHANGED <<feedVars, walk>>
       \/ \E card \in InitialReel \cap Reels, script \in Scripts :
             LET fresh == MarkUsed(ObserveEmbedded(source, script), card)
                 taken == NextEmbedded(fresh, walk.cand)
             IN  IF taken.code = None THEN Unsighted(fresh, sample) ELSE Sighted(taken)
    /\ UNCHANGED <<log, late, fetchVars, runVars>>

\* The candidate is another Reel; stage 3B ends when it has seen it before.
Arrive ==
    /\ pc = "arrive"
    /\ IF ~Continuing /\ walk.cand \in walk.seen
       THEN Finish("failed") /\ UNCHANGED log
       ELSE Record("transition_confirmed") /\ Goto("look") /\ UNCHANGED status
    /\ UNCHANGED <<feedVars, walk, late, fetchVars, runVars>>

-----------------------------------------------------------------------------
(* The end, and what happens at any time *)

\* The operator presses Ctrl-C or the run's cancellation is requested.
Interrupt ==
    /\ pc \in Collecting
    /\ Finish("cancelled")
    /\ jar' = FALSE
    /\ IF pc \in Fetching THEN AttemptClosed ELSE UNCHANGED files
    /\ UNCHANGED <<feedVars, walk, log, late, runVars>>

\* The verifiers of the two stages.
Verified ==
    /\ walk.available = 0
    /\ IF Continuing
       THEN ValidContinuation(log, "completed", Len(log))
       ELSE files = {} /\ ValidTranscript(log, "completed")

\* The process is gone, and what it had in memory with it.
Gone ==
    /\ Goto("off")
    /\ source' = EmptySource
    /\ touch' = NoTouch
    /\ sample' = NoSample
    /\ walk' = NoWalk
    /\ log' = <<>>
    /\ status' = "none"
    /\ late' = FALSE
    /\ open' = FALSE
    /\ UNCHANGED kind

\* close(), and the verification of a completed run; the normalizer or another
\* collector may have changed a row or an object that the verifier compares.
End ==
    /\ pc = "end"
    /\ \E moved \in BOOLEAN :
          verdict' = IF status # "completed" THEN "none"
                     ELSE IF Verified /\ ~moved THEN "verified"
                     ELSE IF moved \/ walk.available > 0 \/ files # {} THEN "changed"
                     ELSE "refused"
    /\ Gone
    /\ UNCHANGED fetchVars

\* The process is killed: the system releases its lock and its memory only.
Kill ==
    /\ pc # "off"
    /\ Gone
    /\ jar' = FALSE
    /\ files' = IF files = {} THEN {} ELSE {"orphan"}
    /\ UNCHANGED verdict

\* The response handler of the feed.
Respond(payload) ==
    /\ open
    /\ source.obs < MaxObs
    /\ source' = Observe(source, payload)
    /\ UNCHANGED <<pc, touch, sample, walk, log, status, late, fetchVars, runVars>>

DeadlinePasses ==
    /\ pc \in Collecting /\ ~late
    /\ late' = TRUE
    /\ UNCHANGED <<pc, feedVars, walk, log, status, fetchVars, runVars>>

Walk ==
    \/ Ready \/ First \/ Look \/ Pause \/ Cookies \/ MakeAttempt \/ Media
    \/ Validate \/ Publish \/ Commit \/ Tally \/ Advance \/ TakeQueued
    \/ TakeReloaded \/ Gesture \/ Sample \/ SampleReloaded \/ Arrive \/ End

Next ==
    \/ Open \/ Walk \/ Interrupt \/ Kill \/ DeadlinePasses
    \/ \E payload \in Payloads : Respond(payload)

Spec == Init /\ [][Next]_vars

\* A process goes on until it ends or is killed.
FairSpec == Spec /\ WF_vars(Walk)

-----------------------------------------------------------------------------
(* Properties *)

\* The authenticated source hands no Reel out twice in a walk, whatever the
\* documents embed, what the responses bring and how often the page is loaded
\* again: "Session-wide deduplication prevents reuse after refresh"
\* (browser_feed.py:1208).
HandedOnce == kind.feed = "source" /\ pc = "arrive" => walk.cand \notin walk.seen

\* A completed walk by gestures is verified, unless others changed what the
\* verifier compares: whatever order of retries, refreshes and skipped Reels led
\* to it, the validators accept the events the engine records.
GestureVerified == kind.feed = "gesture" => verdict # "refused"

\* The same of every feed: the success of a live run includes "post-run
\* verification" (docs/operations/stage-10-linux-staging.md:137-138).
CompletedVerified == verdict # "refused"

\* A walk that ends by itself, on whatever path, has tried to remove its
\* temporary files and holds neither cookies nor browser nor profile lock.
Tidy ==
    [][pc # "off" /\ pc' = "off" =>
          /\ ~open' /\ ~jar'
          /\ Kill \/ files' \subseteq {"orphan"}]_vars

\* A walk ends: every loop of the feed and of the engine is bounded.
WalkEnds == pc # "off" ~> pc = "off"
=============================================================================
