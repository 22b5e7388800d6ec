------------------------ MODULE OfflineLibraryProofs ------------------------
(***************************************************************************)
(* Proofs about the offline library, for every set of Reels and any number *)
(* of acts: every step leaves the records, the caches and the agents well  *)
(* formed, nothing is begun with a viewed Reel, and its tombstone is lost  *)
(* in the three named ways only.                                           *)
(***************************************************************************)
EXTENDS OfflineLibrary, TLAPS

-----------------------------------------------------------------------------
(* The inductive invariant *)

\* An agent, and the labels at which it works on no Reel.
AgentRecords == [pc : Labels, job : Jobs \cup {None}, saw : Records \cup {None},
                 todo : SUBSET Jobs, done : SUBSET Videos]
Free == {"idle", "list", "orphans", "loaded", "confirm", "outbox", "overdue", "offered",
         "refresh", "waiting", "released", "records", "cleared", "pick", "ending"}

\* An agent never rests at the head of a loop, has a job wherever it needs one and
\* holds a record that it read only within the update that read it.
Sound(p) ==
    /\ p \in AgentRecords
    /\ p.pc \notin Loops
    /\ p.pc \in Free \/ p.job # None
    /\ p.saw # None => p.pc \in Updating

AgentsSound(f) ==
    /\ f \in [Agents -> AgentRecords]
    /\ \A a \in Agents : Sound(f[a])

StoresTyped ==
    /\ rec \in [Videos -> Records \cup {None}]
    /\ cache \in [Videos -> {"none", "good", "bad"}]
    /\ due \subseteq Videos

QueueTyped ==
    q \in [paused : BOOLEAN, clearing : BOOLEAN, aborted : BOOLEAN,
           cancelled : SUBSET Videos, batch : SUBSET Videos, seen : SUBSET Videos]

PageTyped ==
    /\ app \in [ready : BOOLEAN, playing : Videos \cup {None}, feed : SUBSET Videos]
    /\ used \in 0..MaxActs

Inv == StoresTyped /\ QueueTyped /\ PageTyped /\ AgentsSound(proc)

-----------------------------------------------------------------------------
(* Jobs, agents and where they go on *)

\* The jobs of a snapshot are jobs (the for loops over listOfflineVideos()).
LEMMA JobsForTyped ==
    ASSUME NEW S \in SUBSET Videos, NEW what \in JobLabels
    PROVE  JobsFor(S, what) \subseteq Jobs
<1>1. \A v \in S : Job(v, what) \in Jobs
  BY DEF Job, Jobs
<1> QED
  BY <1>1, Zenon DEF JobsFor

\* No label is both of two kinds: where jobs start, where there is none, where
\* records are updated, and the heads of the loops.
LEMMA LabelKinds ==
    /\ JobLabels \subseteq Labels /\ Free \subseteq Labels /\ Loops \subseteq Labels
    /\ Updating \subseteq Labels /\ Drops \subseteq Labels
    /\ JobLabels \cap Loops = {} /\ Free \cap Loops = {}
    /\ Updating \cap Free = {} /\ Drops \cap (Free \cup Updating) = {}
<1>1. JobLabels \subseteq Labels /\ Loops \subseteq Labels /\ Updating \subseteq Labels
      /\ Drops \subseteq Labels
  BY DEF JobLabels, Labels, Updating, Loops, Drops
<1>2. Free \subseteq Labels
  BY DEF Free, Labels
<1>3. JobLabels \cap Loops = {} /\ Free \cap Loops = {}
  BY DEF JobLabels, Loops, Free
<1>4. Updating \cap Free = {} /\ Drops \cap (Free \cup Updating) = {}
  BY DEF Updating, Free, Drops
<1> QED
  BY <1>1, <1>2, <1>3, <1>4

\* An agent at rest is sound.
LEMMA IdleSound ==
    /\ Idle \in AgentRecords /\ Sound(Idle)
    /\ \A l \in Free : Sound([Idle EXCEPT !.pc = l])
<1>1. Idle \in AgentRecords
  BY DEF Idle, AgentRecords, Labels
<1>2. Sound(Idle)
  BY <1>1 DEF Sound, Idle, Free, Loops
<1>3. ASSUME NEW l \in Free PROVE Sound([Idle EXCEPT !.pc = l])
  <2>1. [Idle EXCEPT !.pc = l] \in AgentRecords
    BY <1>1, LabelKinds DEF AgentRecords
  <2>2. l \notin Loops
    BY LabelKinds
  <2>3. [Idle EXCEPT !.pc = l].pc = l /\ [Idle EXCEPT !.pc = l].saw = None
    BY DEF Idle
  <2> QED
    BY <2>1, <2>2, <2>3 DEF Sound
<1> QED
  BY <1>1, <1>2, <1>3

\* One agent goes on, the others stay.
LEMMA OneSound ==
    ASSUME NEW f, AgentsSound(f), NEW a \in Agents, NEW p, Sound(p)
    PROVE  /\ AgentsSound([f EXCEPT ![a] = p])
           /\ \A b \in Agents \ {a} : [f EXCEPT ![a] = p][b] = f[b]
           /\ [f EXCEPT ![a] = p][a] = p
<1>1. p \in AgentRecords
  BY DEF Sound
<1>2. [f EXCEPT ![a] = p] \in [Agents -> AgentRecords]
  BY <1>1 DEF AgentsSound
<1>3. \A b \in Agents : Sound([f EXCEPT ![a] = p][b])
  BY DEF AgentsSound
<1>4. DOMAIN f = Agents
  BY DEF AgentsSound
<1>5. /\ \A b \in Agents \ {a} : [f EXCEPT ![a] = p][b] = f[b]
      /\ [f EXCEPT ![a] = p][a] = p
  BY <1>4
<1> QED
  BY <1>2, <1>3, <1>5 DEF AgentsSound

\* After a loop an agent is where it has no job.
LEMMA AfterLoopFree ==
    ASSUME NEW a, NEW l \in Loops
    PROVE  AfterLoop(a, l) \in Free
BY DEF AfterLoop, Loops, Free

\* An agent that is given its next label, and holds no record, is sound wherever
\* Run takes it; the others stay where they are.
LEMMA RunSound ==
    ASSUME AgentsSound(proc), NEW a \in Agents, NEW p \in AgentRecords, p.saw = None,
           p.pc \in Loops \/ p.pc \in Free \/ p.job # None
    PROVE  /\ AgentsSound(Run(a, p))
           /\ \A b \in Agents \ {a} : Run(a, p)[b] = proc[b]
           /\ Run(a, p)[a].saw = None
<1> DEFINE open == {job \in p.todo : ~ Spared(job)}
           next == CHOOSE job \in open : TRUE
           turn == [p EXCEPT !.pc = next.what, !.job = next, !.todo = @ \ {next}]
           out == [Idle EXCEPT !.pc = AfterLoop(a, p.pc),
                               !.done = IF p.pc \in {"scanning", "offering"} THEN p.done ELSE {}]
           G == IF p.pc \notin Loops THEN p ELSE IF open # {} THEN turn ELSE out
<1>1. Run(a, p) = [proc EXCEPT ![a] = G]
  BY DEF Run
<1>2. p = [pc |-> p.pc, job |-> p.job, saw |-> p.saw, todo |-> p.todo, done |-> p.done]
  BY DEF AgentRecords
<1>3. CASE p.pc \notin Loops
  <2>1. Sound(p)
    BY <1>3 DEF Sound
  <2>2. G = p
    BY <1>3
  <2>9. Run(a, p) = [proc EXCEPT ![a] = p]
    BY <1>1, <2>2
  <2>10. /\ AgentsSound([proc EXCEPT ![a] = p])
         /\ \A b \in Agents \ {a} : [proc EXCEPT ![a] = p][b] = proc[b]
         /\ [proc EXCEPT ![a] = p][a] = p
    BY <2>1, OneSound
  <2> QED
    BY <2>9, <2>10
<1>4. CASE p.pc \in Loops /\ open # {}
  <2>1. next \in p.todo
    BY <1>4
  <2>2. next \in Jobs /\ next.what \in JobLabels
    BY <2>1 DEF AgentRecords, Jobs
  <2>3. next # None
    BY <2>2, NoneAssumption
  <2>4. turn \in AgentRecords
    BY <2>2, LabelKinds DEF AgentRecords
  <2>5. turn.pc = next.what /\ turn.job = next /\ turn.saw = None
    BY <1>2
  <2>6. next.what \notin Loops
    BY <2>2, LabelKinds
  <2> HIDE DEF next, open, turn
  <2>7. Sound(turn)
    BY <2>3, <2>4, <2>5, <2>6 DEF Sound
  <2>8. G = turn
    BY <1>4
  <2>9. Run(a, p) = [proc EXCEPT ![a] = turn]
    BY <1>1, <2>8
  <2>10. /\ AgentsSound([proc EXCEPT ![a] = turn])
         /\ \A b \in Agents \ {a} : [proc EXCEPT ![a] = turn][b] = proc[b]
         /\ [proc EXCEPT ![a] = turn][a] = turn
    BY <2>7, OneSound
  <2> QED
    BY <2>9, <2>10, <2>5
<1>5. CASE p.pc \in Loops /\ open = {}
  <2>1. AfterLoop(a, p.pc) \in Free
    BY <1>5, AfterLoopFree
  <2>2. p.done \subseteq Videos
    BY DEF AgentRecords
  <2>3. out \in AgentRecords
    BY <2>1, <2>2, LabelKinds, IdleSound DEF AgentRecords
  <2>4. out.pc = AfterLoop(a, p.pc) /\ out.saw = None
    BY DEF Idle
  <2>5. AfterLoop(a, p.pc) \notin Loops
    BY <2>1, LabelKinds
  <2> HIDE DEF open, out
  <2>6. Sound(out)
    BY <2>1, <2>3, <2>4, <2>5 DEF Sound
  <2>7. G = out
    BY <1>5
  <2>9. Run(a, p) = [proc EXCEPT ![a] = out]
    BY <1>1, <2>7
  <2>10. /\ AgentsSound([proc EXCEPT ![a] = out])
         /\ \A b \in Agents \ {a} : [proc EXCEPT ![a] = out][b] = proc[b]
         /\ [proc EXCEPT ![a] = out][a] = out
    BY <2>6, OneSound
  <2> QED
    BY <2>9, <2>10, <2>4
<1> QED
  BY <1>3, <1>4, <1>5

\* The two ways to go on keep an agent without a record sound.
LEMMA GotoSound ==
    ASSUME AgentsSound(proc), NEW a \in Agents, proc[a].saw = None, NEW l \in Labels,
           l \in Loops \/ l \in Free \/ proc[a].job # None
    PROVE  /\ AgentsSound(Goto(a, l))
           /\ \A b \in Agents \ {a} : Goto(a, l)[b] = proc[b]
<1> DEFINE p == [proc[a] EXCEPT !.pc = l]
<1>1. proc[a] \in AgentRecords
  BY DEF AgentsSound
<1>2. p \in AgentRecords /\ p.pc = l /\ p.saw = None /\ p.job = proc[a].job
  BY <1>1 DEF AgentRecords
<1>3. Goto(a, l) = Run(a, p)
  BY DEF Goto
<1> HIDE DEF p
<1> QED
  BY <1>2, <1>3, RunSound

LEMMA GotoLoopSound ==
    ASSUME AgentsSound(proc), NEW a \in Agents, proc[a].saw = None, NEW l \in Loops,
           NEW jobs \in SUBSET Jobs
    PROVE  /\ AgentsSound(GotoLoop(a, l, jobs))
           /\ \A b \in Agents \ {a} : GotoLoop(a, l, jobs)[b] = proc[b]
<1> DEFINE p == [proc[a] EXCEPT !.pc = l, !.todo = jobs]
<1>1. proc[a] \in AgentRecords
  BY DEF AgentsSound
<1>2. p \in AgentRecords /\ p.pc = l /\ p.saw = None
  BY <1>1, LabelKinds DEF AgentRecords
<1>3. GotoLoop(a, l, jobs) = Run(a, p)
  BY DEF GotoLoop
<1> HIDE DEF p
<1> QED
  BY <1>2, <1>3, RunSound

\* What an agent holds at a label.
LEMMA AgentFacts ==
    ASSUME AgentsSound(proc), NEW a \in Agents
    PROVE  /\ At(a) \in Labels
           /\ At(a) \notin Free => proc[a].job \in Jobs /\ proc[a].job # None /\ Reel(a) \in Videos
           /\ At(a) \notin Updating => proc[a].saw = None
           /\ proc[a].saw # None => proc[a].saw \in Records
           /\ proc[a].done \subseteq Videos
<1>1. Sound(proc[a])
  BY DEF AgentsSound
<1>2. proc[a] \in AgentRecords
  BY <1>1 DEF Sound
<1>3. /\ proc[a].pc \in Labels /\ proc[a].job \in Jobs \cup {None}
      /\ proc[a].saw \in Records \cup {None} /\ proc[a].done \subseteq Videos
  BY <1>2 DEF AgentRecords
<1>4. proc[a].job \in Jobs => proc[a].job.v \in Videos
  BY DEF Jobs
<1> QED
  BY <1>1, <1>3, <1>4 DEF Sound, At, Reel

\* An agent with a job goes on at any label.
LEMMA JobGoesOn ==
    ASSUME AgentsSound(proc), NEW a \in Agents, At(a) \notin Free, proc[a].saw = None,
           NEW l \in Labels
    PROVE  /\ AgentsSound(Goto(a, l))
           /\ \A b \in Agents \ {a} : Goto(a, l)[b] = proc[b]
BY AgentFacts, GotoSound

\* The agents of a page that loads.
LEMMA LoadingSound == AgentsSound(Loading)
<1>1. \A a \in Agents : Sound(Loading[a])
  <2> SUFFICES ASSUME NEW a \in Agents PROVE Sound(Loading[a])
    OBVIOUS
  <2>1. "list" \in Free
    BY DEF Free
  <2>2. Loading[a] = Idle \/ Loading[a] = [Idle EXCEPT !.pc = "list"]
    BY DEF Loading
  <2> QED
    BY <2>1, <2>2, IdleSound
<1>2. \A a \in Agents : Loading[a] \in AgentRecords
  BY <1>1 DEF Sound
<1>3. Loading = [a \in Agents |-> Loading[a]]
  BY DEF Loading
<1>4. Loading \in [Agents -> AgentRecords]
  BY <1>2, <1>3
<1> QED
  BY <1>1, <1>4 DEF AgentsSound

\* A patch changes no view (the patches of downloader.ts, reconciliation.ts and
\* view-lifecycle.ts).
LEMMA PatchKeepsView ==
    ASSUME NEW l, NEW r \in Records
    PROVE  Patch(l, r) \in Records /\ Patch(l, r).viewed = r.viewed
BY DEF Patch, Records, Statuses, DeletionStates

\* Where an update and a removal from the cache lead.
LEMMA ThenLabels ==
    ASSUME NEW l, NEW found \in BOOLEAN, NEW job
    PROVE  Then(l, found, job) \in Labels
BY DEF Then, Saved, Labels, Loops, Drops, Updating

LEMMA AfterDropLabels ==
    ASSUME NEW l \in Drops
    PROVE  AfterDrop(l) \subseteq Labels
BY DEF AfterDrop, Drops, Space, Labels, Loops, Updating

-----------------------------------------------------------------------------
(* Preservation *)

\* The initial state satisfies the invariant (a page load on a new device).
LEMMA InitInv == Init => Inv
<1> SUFFICES ASSUME Init PROVE Inv
  OBVIOUS
<1>1. StoresTyped
  BY DEF Init, StoresTyped
<1>2. QueueTyped
  BY DEF Init, QueueTyped, Memory
<1>3. PageTyped
  BY LibraryAssumption DEF Init, PageTyped, Page
<1>4. AgentsSound(proc)
  BY LoadingSound DEF Init
<1> QED
  BY <1>1, <1>2, <1>3, <1>4 DEF Inv

\* An update and a removal from the cache, by any agent.
LEMMA UpdateStep ==
    ASSUME Inv, NEW a \in Agents, UpdateReads(a) \/ UpdatePuts(a) \/ DropCache(a) \/ DropFails(a)
    PROVE  Inv'
<1>1. AgentsSound(proc)
  BY DEF Inv
<1>2. CASE UpdateReads(a)
  <2>1. At(a) \in Updating /\ proc[a].saw = None
    BY <1>2 DEF UpdateReads
  <2>2. At(a) \notin Free
    BY <2>1, LabelKinds
  <2>3. Reel(a) \in Videos /\ proc[a].job # None
    BY <1>1, <2>2, AgentFacts
  <2>4. CASE Exists(Reel(a))
    <3>1. proc' = [proc EXCEPT ![a] = [proc[a] EXCEPT !.saw = rec[Reel(a)]]]
      BY <1>2, <2>4 DEF UpdateReads
    <3>2. rec[Reel(a)] \in Records
      BY <2>3, <2>4 DEF Inv, StoresTyped, Exists
    <3> DEFINE p == [proc[a] EXCEPT !.saw = rec[Reel(a)]]
    <3>3. proc[a] \in AgentRecords /\ Sound(proc[a])
      BY <1>1 DEF AgentsSound
    <3>4. p \in AgentRecords /\ p.pc = proc[a].pc /\ p.job = proc[a].job
      BY <3>2, <3>3 DEF AgentRecords
    <3>5. Sound(p)
      BY <3>3, <3>4, <2>1 DEF Sound, At
    <3>6. AgentsSound(proc')
      BY <1>1, <3>1, <3>5, OneSound
    <3> QED
      BY <1>2, <3>6 DEF UpdateReads, Inv, StoresTyped, QueueTyped, PageTyped
  <2>5. CASE ~ Exists(Reel(a))
    <3>1. Then(At(a), FALSE, proc[a].job) \in Labels
      BY ThenLabels
    <3>2. AgentsSound(proc')
      BY <1>1, <1>2, <2>1, <2>2, <2>5, <3>1, JobGoesOn DEF UpdateReads
    <3> QED
      BY <1>2, <3>2 DEF UpdateReads, Inv, StoresTyped, QueueTyped, PageTyped
  <2> QED
    BY <2>4, <2>5
<1>3. CASE UpdatePuts(a)
  <2> DEFINE l == Then(At(a), TRUE, proc[a].job)
             p == [proc[a] EXCEPT !.pc = l, !.saw = None]
  <2>1. At(a) \in Updating /\ proc[a].saw # None /\ proc' = Run(a, p)
        /\ rec' = [rec EXCEPT ![Reel(a)] = Patch(At(a), proc[a].saw)]
    BY <1>3 DEF UpdatePuts
  <2>2. At(a) \notin Free
    BY <2>1, LabelKinds
  <2>3. Reel(a) \in Videos /\ proc[a].job # None /\ proc[a].saw \in Records
    BY <1>1, <2>1, <2>2, AgentFacts
  <2>4. Patch(At(a), proc[a].saw) \in Records
    BY <2>3, PatchKeepsView
  <2>5. l \in Labels
    BY ThenLabels
  <2>6. proc[a] \in AgentRecords
    BY <1>1 DEF AgentsSound
  <2> HIDE DEF l
  <2>7. p \in AgentRecords /\ p.saw = None /\ p.job = proc[a].job
    BY <2>5, <2>6 DEF AgentRecords
  <2> HIDE DEF p
  <2>8. AgentsSound(proc')
    BY <1>1, <2>1, <2>3, <2>7, RunSound
  <2>9. rec' \in [Videos -> Records \cup {None}]
    BY <2>1, <2>4 DEF Inv, StoresTyped
  <2> QED
    BY <1>3, <2>8, <2>9 DEF UpdatePuts, Inv, StoresTyped, QueueTyped, PageTyped
<1>4. CASE DropCache(a) \/ DropFails(a)
  <2>1. At(a) \in Drops
    BY <1>4 DEF DropCache, DropFails
  <2>2. At(a) \notin Free /\ proc[a].saw = None /\ Reel(a) \in Videos
    BY <1>1, <2>1, LabelKinds, AgentFacts
  <2>3. \E l \in Labels : proc' = Goto(a, l)
    <3>1. "delfail" \in Labels
      BY DEF Labels, Updating
    <3> QED
      BY <1>4, <2>1, <3>1, AfterDropLabels DEF DropCache, DropFails
  <2>4. AgentsSound(proc')
    BY <1>1, <2>2, <2>3, JobGoesOn
  <2>5. CASE DropCache(a)
    <3>1. cache' \in [Videos -> {"none", "good", "bad"}]
      BY <2>5 DEF DropCache, Inv, StoresTyped
    <3> QED
      BY <2>4, <2>5, <3>1 DEF DropCache, Inv, StoresTyped, QueueTyped, PageTyped
  <2>6. CASE DropFails(a)
    <3>1. used' \in 0..MaxActs
      BY <2>6, LibraryAssumption DEF DropFails, Acts, Inv, PageTyped
    <3> QED
      BY <2>4, <2>6, <3>1 DEF DropFails, Inv, StoresTyped, QueueTyped, PageTyped
  <2> QED
    BY <1>4, <2>5, <2>6
<1> QED
  BY <1>2, <1>3, <1>4

\* A step that changes the place of one agent only: it is enough that the agents
\* stay sound.
LEMMA AgentsOnly ==
    ASSUME Inv, UNCHANGED <<rec, cache, due, q, app, used>>, AgentsSound(proc')
    PROVE  Inv'
BY DEF Inv, StoresTyped, QueueTyped, PageTyped

\* The Reels of a status are Reels.
LEMMA WithStatusReels == \A s : WithStatus(s) \subseteq Videos
BY DEF WithStatus

\* What the page does: the reconciliation, and its result.
LEMMA PageStep ==
    ASSUME Inv, NEW a \in Agents, Reconcile(a) \/ (a = "page" /\ Loaded)
    PROVE  Inv'
<1>1. AgentsSound(proc)
  BY DEF Inv
<1>2. CASE ListRecords(a)
  <2> DEFINE jobs == JobsFor(WithStatus("downloading"), "drop")
                     \cup JobsFor(WithStatus("completed"), "verify")
  <2>1. At(a) = "list" /\ proc' = GotoLoop(a, "scanning", jobs)
    BY <1>2 DEF ListRecords
  <2>2. proc[a].saw = None
    BY <1>1, <2>1, AgentFacts DEF Updating
  <2>3. "drop" \in JobLabels /\ "verify" \in JobLabels /\ "scanning" \in Loops
    BY DEF JobLabels, Loops
  <2>4. jobs \subseteq Jobs
    BY <2>3, JobsForTyped, WithStatusReels
  <2> HIDE DEF jobs
  <2>5. AgentsSound(proc')
    BY <1>1, <2>1, <2>2, <2>3, <2>4, GotoLoopSound
  <2> QED
    BY <1>2, <2>5, AgentsOnly DEF ListRecords
<1>3. CASE Verify(a)
  <2>1. At(a) = "verify"
    BY <1>3 DEF Verify
  <2>2. proc[a].saw = None /\ At(a) \notin Free
    BY <1>1, <2>1, AgentFacts DEF Updating, Free
  <2>3. Reel(a) \in Videos /\ proc[a].done \subseteq Videos
    BY <1>1, <2>2, AgentFacts
  <2>4. proc[a] \in AgentRecords
    BY <1>1 DEF AgentsSound
  <2>5. {"scanning", "drop", "interrupt"} \subseteq Labels /\ "scanning" \in Loops
    BY DEF Labels, Loops, Drops, Updating
  <2> DEFINE p == [proc[a] EXCEPT !.pc = "scanning", !.done = proc[a].done \cup {Reel(a)}]
  <2>6. p \in AgentRecords /\ p.saw = None /\ p.pc = "scanning"
    BY <2>2, <2>3, <2>4, <2>5 DEF AgentRecords
  <2>7. \/ proc' = Run(a, p) \/ proc' = Goto(a, "drop") \/ proc' = Goto(a, "interrupt")
    <3>1. cache[Reel(a)] \in {"none", "good", "bad"}
      BY <2>3 DEF Inv, StoresTyped
    <3> QED
      BY <1>3, <3>1 DEF Verify
  <2> HIDE DEF p
  <2>8. AgentsSound(proc')
    BY <1>1, <2>2, <2>5, <2>6, <2>7, RunSound, JobGoesOn
  <2> QED
    BY <1>3, <2>8, AgentsOnly DEF Verify
<1>4. CASE ListOrphans(a)
  <2> DEFINE jobs == JobsFor(Orphans(a), "sweep")
  <2>1. At(a) = "orphans" /\ proc' = GotoLoop(a, "sweeping", jobs)
    BY <1>4 DEF ListOrphans
  <2>2. proc[a].saw = None
    BY <1>1, <2>1, AgentFacts DEF Updating
  <2>3. "sweep" \in JobLabels /\ "sweeping" \in Loops /\ Orphans(a) \subseteq Videos
    BY DEF JobLabels, Loops, Orphans
  <2>4. jobs \subseteq Jobs
    BY <2>3, JobsForTyped
  <2> HIDE DEF jobs
  <2>5. AgentsSound(proc')
    BY <1>1, <2>1, <2>2, <2>3, <2>4, GotoLoopSound
  <2> QED
    BY <1>4, <2>5, AgentsOnly DEF ListOrphans
<1>5. CASE a = "page" /\ Loaded
  <2>1. AgentsSound(proc')
    BY <1>1, <1>5, OneSound, IdleSound DEF Loaded, Retire
  <2>2. QueueTyped'
    BY <1>5, WithStatusReels DEF Loaded, Refreshed, Inv, QueueTyped
  <2>3. PageTyped'
    BY <1>5, WithStatusReels DEF Loaded, Inv, PageTyped
  <2>4. StoresTyped'
    BY <1>5 DEF Loaded, Inv, StoresTyped
  <2> QED
    BY <2>1, <2>2, <2>3, <2>4 DEF Inv
<1> QED
  BY <1>2, <1>3, <1>4, <1>5 DEF Reconcile

\* markOfflineVideoViewed keeps the records well formed and takes no view back.
LEMMA MarkTyped ==
    ASSUME Inv, NEW v \in Videos, Mark(v)
    PROVE  /\ rec' \in [Videos -> Records \cup {None}] /\ due' \subseteq Videos
           /\ \A w \in Videos : Viewed(w) => rec'[w] # None /\ rec'[w].viewed
<1>1. rec \in [Videos -> Records \cup {None}] /\ due \subseteq Videos
  BY DEF Inv, StoresTyped
<1>2. CASE Exists(v) /\ ~ rec[v].viewed
  <2> DEFINE r == [rec[v] EXCEPT !.viewed = TRUE, !.del = "pending"]
  <2>1. rec[v] \in Records
    BY <1>1, <1>2 DEF Exists
  <2>2. r \in Records /\ r.viewed
    BY <2>1 DEF Records, DeletionStates
  <2>3. rec' = [rec EXCEPT ![v] = r] /\ due' = due \ {v}
    BY <1>2 DEF Mark
  <2> HIDE DEF r
  <2>4. r # None
    BY <2>2, NoneAssumption
  <2> QED
    BY <1>1, <2>2, <2>3, <2>4 DEF Viewed, Exists
<1>3. CASE ~ (Exists(v) /\ ~ rec[v].viewed)
  BY <1>1, <1>3 DEF Mark, Viewed, Exists
<1> QED
  BY <1>2, <1>3

\* The life cycle of viewed Reels.
LEMMA LifeStep ==
    ASSUME Inv, Life
    PROVE  Inv'
<1>1. AgentsSound(proc) /\ "life" \in Agents
  BY DEF Inv, Agents
<1>2. CASE RunStarts
  <2>1. "confirm" \in Free
    BY DEF Free
  <2>2. AgentsSound(proc')
    BY <1>1, <1>2, <2>1, IdleSound, OneSound DEF RunStarts
  <2> QED
    BY <1>2, <2>2, AgentsOnly DEF RunStarts
<1>3. CASE Confirm
  <2>1. At("life") = "confirm"
    BY <1>3 DEF Confirm
  <2>2. proc["life"].saw = None
    BY <1>1, <2>1, AgentFacts DEF Updating
  <2>3. {"overdue", "outbox"} \subseteq Labels /\ {"overdue", "outbox"} \subseteq Free
        /\ "marking" \in Loops /\ "mark" \in JobLabels
    BY DEF Labels, Free, Loops, JobLabels
  <2>4. CASE proc' = Goto("life", "overdue") \/ proc' = Goto("life", "outbox")
    <3>1. AgentsSound(proc')
      BY <1>1, <2>2, <2>3, <2>4, GotoSound
    <3> QED
      BY <1>3, <3>1, AgentsOnly DEF Confirm
  <2>5. ASSUME NEW new \in SUBSET {v \in Videos : Exists(v) /\ ~ Viewed(v)},
               proc' = GotoLoop("life", "marking", JobsFor(new, "mark"))
        PROVE  Inv'
    <3>1. JobsFor(new, "mark") \in SUBSET Jobs
      BY <2>3, JobsForTyped
    <3>2. AgentsSound(proc')
      BY <1>1, <2>2, <2>3, <2>5, <3>1, GotoLoopSound
    <3> QED
      BY <1>3, <3>2, AgentsOnly DEF Confirm
  <2> QED
    BY <1>3, <2>4, <2>5 DEF Confirm
<1>4. CASE MarkConfirmed
  <2>1. At("life") = "mark"
    BY <1>4 DEF MarkConfirmed
  <2>2. proc["life"].saw = None /\ At("life") \notin Free /\ "marking" \in Labels
    BY <1>1, <2>1, AgentFacts DEF Updating, Free, Labels, Loops
  <2>3. Reel("life") \in Videos
    BY <1>1, <2>2, AgentFacts
  <2>4. AgentsSound(proc')
    BY <1>1, <1>4, <2>2, JobGoesOn DEF MarkConfirmed
  <2>5. rec' \in [Videos -> Records \cup {None}] /\ due' \subseteq Videos
    BY <1>4, <2>3, MarkTyped DEF MarkConfirmed
  <2> QED
    BY <1>4, <2>4, <2>5 DEF MarkConfirmed, Inv, StoresTyped, QueueTyped, PageTyped
<1>5. CASE SendOutbox
  <2>1. At("life") = "outbox"
    BY <1>5 DEF SendOutbox
  <2>2. proc["life"].saw = None /\ "syncing" \in Loops /\ "reported" \in JobLabels
    BY <1>1, <2>1, AgentFacts DEF Updating, Loops, JobLabels
  <2>3. PICK pending \in SUBSET {v \in Videos : Viewed(v)} :
             proc' = GotoLoop("life", "syncing", JobsFor(pending, "reported"))
    BY <1>5 DEF SendOutbox
  <2>4. JobsFor(pending, "reported") \in SUBSET Jobs
    BY <2>2, JobsForTyped
  <2>5. AgentsSound(proc')
    BY <1>1, <2>2, <2>3, <2>4, GotoLoopSound
  <2> QED
    BY <1>5, <2>5, AgentsOnly DEF SendOutbox
<1>6. CASE ListOverdue
  <2>1. At("life") = "overdue" /\ proc' = GotoLoop("life", "removing", JobsFor(Overdue, "deleting"))
    BY <1>6 DEF ListOverdue
  <2>2. proc["life"].saw = None /\ "removing" \in Loops /\ "deleting" \in JobLabels
    BY <1>1, <2>1, AgentFacts DEF Updating, Loops, JobLabels
  <2>3. Overdue \subseteq Videos
    BY DEF Overdue, Inv, StoresTyped
  <2>4. JobsFor(Overdue, "deleting") \in SUBSET Jobs
    BY <2>2, <2>3, JobsForTyped
  <2>5. AgentsSound(proc')
    BY <1>1, <2>1, <2>2, <2>4, GotoLoopSound
  <2> QED
    BY <1>6, <2>5, AgentsOnly DEF ListOverdue
<1> QED
  BY <1>2, <1>3, <1>4, <1>5, <1>6 DEF Life

\* The fresh record of a queued Reel.
LEMMA FreshTyped == Fresh \in Records /\ Fresh # None
<1>1. Fresh \in Records
  BY DEF Fresh, Records, Statuses, DeletionStates
<1> QED
  BY <1>1, NoneAssumption

\* The snapshot of the queue is taken again (refreshQueue).
LEMMA RefreshedTyped ==
    ASSUME QueueTyped
    PROVE  /\ Refreshed \in [paused : BOOLEAN, clearing : BOOLEAN, aborted : BOOLEAN,
                             cancelled : SUBSET Videos, batch : SUBSET Videos,
                             seen : SUBSET Videos]
BY WithStatusReels DEF Refreshed, QueueTyped

\* start() changes the pause of the queue, and where an idle pump is.
LEMMA StartedTyped ==
    ASSUME NEW mem \in [paused : BOOLEAN, clearing : BOOLEAN, aborted : BOOLEAN,
                        cancelled : SUBSET Videos, batch : SUBSET Videos,
                        seen : SUBSET Videos],
           NEW procs, AgentsSound(procs), procs["pump"].saw = None, Started(mem, procs)
    PROVE  QueueTyped' /\ AgentsSound(proc')
<1>1. QueueTyped'
  BY DEF Started, QueueTyped
<1>2. "pump" \in Agents
  BY DEF Agents
<1> DEFINE p == [procs["pump"] EXCEPT !.pc = "pick"]
<1>3. procs["pump"] \in AgentRecords
  BY <1>2 DEF AgentsSound
<1>4. p \in AgentRecords /\ p.pc = "pick" /\ p.saw = None
  BY <1>3 DEF AgentRecords, Labels
<1>5. "pick" \in Free /\ "pick" \notin Loops
  BY DEF Free, Loops
<1>6. proc' = procs \/ proc' = [procs EXCEPT !["pump"] = p]
  BY DEF Started
<1> HIDE DEF p
<1>7. Sound(p)
  BY <1>4, <1>5 DEF Sound
<1>8. AgentsSound(proc')
  BY <1>2, <1>6, <1>7, OneSound
<1> QED
  BY <1>1, <1>8

\* A call on the queue.
LEMMA QueueStep ==
    ASSUME Inv, QueueSteps
    PROVE  Inv'
<1>1. AgentsSound(proc) /\ "queue" \in Agents /\ "pump" \in Agents
  BY DEF Inv, Agents
<1>2. CASE CallReads
  <2>1. At("queue") \in {"catalog", "retry", "enqueue"}
    BY <1>2 DEF CallReads
  <2>2. proc["queue"].saw = None /\ At("queue") \notin Free
    BY <1>1, <2>1, AgentFacts DEF Updating, Free
  <2>3. Reel("queue") \in Videos /\ proc["queue"].done \subseteq Videos /\ proc["queue"].job # None
    BY <1>1, <2>2, AgentFacts
  <2>4. PICK l \in {"offering", "retry", "enqueue", "requeue", "put"} : proc' = Decided(l)
    BY <1>2 DEF CallReads, CatalogNext, RetryNext, EnqueueNext
  <2>5. l \in Labels
    BY DEF Labels, Loops, Updating
  <2> DEFINE more == IF l \in {"requeue", "put"} THEN proc["queue"].done \cup {Reel("queue")}
                     ELSE proc["queue"].done
             p == [proc["queue"] EXCEPT !.pc = l, !.done = more]
  <2>6. proc["queue"] \in AgentRecords
    BY <1>1 DEF AgentsSound
  <2>7. more \subseteq Videos
    BY <2>3
  <2>8. proc' = Run("queue", p)
    BY <2>4 DEF Decided
  <2> HIDE DEF more
  <2>9. p \in AgentRecords /\ p.saw = None /\ p.job = proc["queue"].job
    BY <2>2, <2>5, <2>6, <2>7 DEF AgentRecords
  <2> HIDE DEF p
  <2>10. AgentsSound(proc')
    BY <1>1, <2>3, <2>8, <2>9, RunSound
  <2> QED
    BY <1>2, <2>10, AgentsOnly DEF CallReads
<1>3. CASE PutQueued
  <2>1. At("queue") = "put"
    BY <1>3 DEF PutQueued
  <2>2. proc["queue"].saw = None /\ At("queue") \notin Free /\ "offering" \in Labels
    BY <1>1, <2>1, AgentFacts DEF Updating, Free, Labels, Loops
  <2>3. AgentsSound(proc')
    BY <1>1, <1>3, <2>2, JobGoesOn DEF PutQueued
  <2>4. rec' \in [Videos -> Records \cup {None}]
    BY <1>3, FreshTyped DEF PutQueued, Inv, StoresTyped
  <2> QED
    BY <1>3, <2>3, <2>4 DEF PutQueued, Inv, StoresTyped, QueueTyped, PageTyped
<1>4. CASE CallEnds
  <2> DEFINE mem == [Refreshed EXCEPT !.batch = proc["queue"].done]
  <2>1. proc["queue"].done \subseteq Videos
    BY <1>1, AgentFacts
  <2>2. mem \in [paused : BOOLEAN, clearing : BOOLEAN, aborted : BOOLEAN,
                 cancelled : SUBSET Videos, batch : SUBSET Videos, seen : SUBSET Videos]
    BY <2>1, RefreshedTyped DEF Inv
  <2>3. AgentsSound(Retire("queue")) /\ Retire("queue")["pump"] = proc["pump"]
    BY <1>1, IdleSound, OneSound DEF Retire
  <2>4. \/ q' = mem /\ proc' = Retire("queue")
        \/ Started(mem, Retire("queue"))
    BY <1>4 DEF CallEnds
  <2> HIDE DEF mem
  <2>5. CASE q' = mem /\ proc' = Retire("queue")
    BY <1>4, <2>2, <2>3, <2>5 DEF CallEnds, Inv, StoresTyped, QueueTyped, PageTyped
  <2>6. CASE Started(mem, Retire("queue"))
    <3>1. CASE At("pump") = "idle"
      <4>1. proc["pump"].saw = None
        BY <1>1, <3>1, AgentFacts DEF Updating
      <4>2. QueueTyped' /\ AgentsSound(proc')
        BY <2>2, <2>3, <2>6, <4>1, StartedTyped
      <4> QED
        BY <1>4, <4>2 DEF CallEnds, Inv, StoresTyped, PageTyped
    <3>2. CASE At("pump") # "idle"
      <4>1. QueueTyped' /\ proc' = Retire("queue")
        BY <2>2, <2>6, <3>2 DEF Started, QueueTyped
      <4> QED
        BY <1>4, <2>3, <4>1 DEF CallEnds, Inv, StoresTyped, PageTyped
    <3> QED
      BY <3>1, <3>2
  <2> QED
    BY <2>4, <2>5, <2>6
<1> QED
  BY <1>2, <1>3, <1>4 DEF QueueSteps

\* cancelBatch.
LEMMA CancelStep ==
    ASSUME Inv, CancelSteps
    PROVE  Inv'
<1>1. AgentsSound(proc) /\ "cancel" \in Agents
  BY DEF Inv, Agents
<1>2. CASE CancelRest
  <2> DEFINE jobs == JobsFor(q.batch \cap q.seen, "discard")
  <2>1. At("cancel") = "released" /\ proc' = GotoLoop("cancel", "discarding", jobs)
    BY <1>2 DEF CancelRest
  <2>2. proc["cancel"].saw = None /\ "discarding" \in Loops /\ "discard" \in JobLabels
    BY <1>1, <2>1, AgentFacts DEF Updating, Loops, JobLabels
  <2>3. q.batch \cap q.seen \subseteq Videos
    BY DEF Inv, QueueTyped
  <2>4. jobs \in SUBSET Jobs
    BY <2>2, <2>3, JobsForTyped
  <2> HIDE DEF jobs
  <2>5. AgentsSound(proc')
    BY <1>1, <2>1, <2>2, <2>4, GotoLoopSound
  <2> QED
    BY <1>2, <2>5, AgentsOnly DEF CancelRest
<1>3. CASE CancelDeletes
  <2>1. At("cancel") = "discard"
    BY <1>3 DEF CancelDeletes
  <2>2. proc["cancel"].saw = None /\ At("cancel") \notin Free /\ "discarding" \in Labels
    BY <1>1, <2>1, AgentFacts DEF Updating, Free, Labels, Loops
  <2>3. AgentsSound(proc')
    BY <1>1, <1>3, <2>2, JobGoesOn DEF CancelDeletes
  <2>4. rec' \in [Videos -> Records \cup {None}]
    BY <1>3 DEF CancelDeletes, Inv, StoresTyped
  <2> QED
    BY <1>3, <2>3, <2>4 DEF CancelDeletes, Inv, StoresTyped, QueueTyped, PageTyped
<1>4. CASE CancelEnds
  <2>1. AgentsSound(proc')
    BY <1>1, <1>4, IdleSound, OneSound DEF CancelEnds, Retire
  <2>2. QueueTyped'
    BY <1>4, RefreshedTyped DEF CancelEnds, Inv, QueueTyped
  <2> QED
    BY <1>4, <2>1, <2>2 DEF CancelEnds, Inv, StoresTyped, PageTyped
<1> QED
  BY <1>2, <1>3, <1>4 DEF CancelSteps

\* cancelAndClear.
LEMMA ClearStep ==
    ASSUME Inv, ClearSteps
    PROVE  Inv'
<1>1. AgentsSound(proc) /\ "clear" \in Agents
  BY DEF Inv, Agents
<1>2. {"records", "cleared"} \subseteq Labels /\ {"records", "cleared"} \subseteq Free
  BY DEF Labels, Free
<1>3. CASE ClearMediaCache
  <2>1. At("clear") = "released"
    BY <1>3 DEF ClearMediaCache
  <2>2. proc["clear"].saw = None
    BY <1>1, <2>1, AgentFacts DEF Updating
  <2>3. AgentsSound(proc')
    BY <1>1, <1>2, <1>3, <2>2, GotoSound DEF ClearMediaCache
  <2>4. cache' \in [Videos -> {"none", "good", "bad"}]
    BY <1>3 DEF ClearMediaCache, Inv, StoresTyped
  <2> QED
    BY <1>3, <2>3, <2>4 DEF ClearMediaCache, Inv, StoresTyped, QueueTyped, PageTyped
<1>4. CASE ClearRecords
  <2>1. At("clear") = "records"
    BY <1>4 DEF ClearRecords
  <2>2. proc["clear"].saw = None
    BY <1>1, <2>1, AgentFacts DEF Updating
  <2>3. AgentsSound(proc')
    BY <1>1, <1>2, <1>4, <2>2, GotoSound DEF ClearRecords
  <2>4. rec' \in [Videos -> Records \cup {None}]
    BY <1>4 DEF ClearRecords, Inv, StoresTyped
  <2>5. QueueTyped'
    BY <1>4 DEF ClearRecords, Inv, QueueTyped
  <2> QED
    BY <1>4, <2>3, <2>4, <2>5 DEF ClearRecords, Inv, StoresTyped, PageTyped
<1>5. CASE ClearEnds
  <2>1. AgentsSound(proc')
    BY <1>1, <1>5, IdleSound, OneSound DEF ClearEnds, Retire
  <2>2. QueueTyped'
    BY <1>5, RefreshedTyped DEF ClearEnds, Inv, QueueTyped
  <2> QED
    BY <1>5, <2>1, <2>2 DEF ClearEnds, Inv, StoresTyped, PageTyped
<1> QED
  BY <1>3, <1>4, <1>5 DEF ClearSteps

\* An error of a download, with its effect on the queue.
LEMMA ErrsSound ==
    ASSUME AgentsSound(proc), At("pump") \notin Free, At("pump") \notin Updating,
           NEW outcomes \in SUBSET BOOLEAN, Errs(outcomes)
    PROVE  AgentsSound(proc')
<1>1. "pump" \in Agents
  BY DEF Agents
<1>2. PICK halts \in BOOLEAN :
          proc' = [proc EXCEPT !["pump"] =
                     [proc["pump"] EXCEPT !.pc = "cleanup",
                                          !.job = [proc["pump"].job EXCEPT !.halts = halts]]]
  BY DEF Errs
<1> DEFINE job == [proc["pump"].job EXCEPT !.halts = halts]
           p == [proc["pump"] EXCEPT !.pc = "cleanup", !.job = job]
<1>3. proc["pump"].job \in Jobs /\ proc["pump"].saw = None
  BY <1>1, AgentFacts
<1>4. job \in Jobs
  BY <1>3 DEF Jobs
<1>5. job # None
  BY <1>4, NoneAssumption
<1>6. proc["pump"] \in AgentRecords
  BY <1>1 DEF AgentsSound
<1> HIDE DEF job
<1>7. "cleanup" \in Labels /\ "cleanup" \notin Loops
  BY DEF Labels, Drops, Loops
<1>8. p \in AgentRecords /\ p.pc = "cleanup" /\ p.job = job /\ p.saw = None
  BY <1>3, <1>4, <1>6, <1>7 DEF AgentRecords
<1>9. proc' = [proc EXCEPT !["pump"] = p]
  BY <1>2 DEF job
<1> HIDE DEF p
<1>10. Sound(p)
  BY <1>5, <1>7, <1>8 DEF Sound
<1> QED
  BY <1>1, <1>9, <1>10, OneSound

\* The pump and its download.
LEMMA PumpStep ==
    ASSUME Inv, Pump
    PROVE  Inv'
<1>1. AgentsSound(proc) /\ "pump" \in Agents
  BY DEF Inv, Agents
<1>2. CASE PumpPick
  <2>1. At("pump") = "pick"
    BY <1>2 DEF PumpPick
  <2>2. proc["pump"].saw = None /\ "ending" \in Labels /\ "ending" \in Free
    BY <1>1, <2>1, AgentFacts DEF Updating, Labels, Free
  <2>3. CASE proc' = Goto("pump", "ending")
    <3>1. AgentsSound(proc')
      BY <1>1, <2>2, <2>3, GotoSound
    <3> QED
      BY <1>2, <3>1, AgentsOnly DEF PumpPick
  <2>4. ASSUME NEW v \in WithStatus("queued"),
               proc' = [proc EXCEPT !["pump"] =
                           [proc["pump"] EXCEPT !.pc = "get", !.job = Job(v, "get")]]
        PROVE  Inv'
    <3> DEFINE p == [proc["pump"] EXCEPT !.pc = "get", !.job = Job(v, "get")]
    <3>1. Job(v, "get") \in Jobs
      BY WithStatusReels DEF Job, Jobs, JobLabels
    <3>2. Job(v, "get") # None
      BY <3>1, NoneAssumption
    <3>3. proc["pump"] \in AgentRecords
      BY <1>1 DEF AgentsSound
    <3>4. "get" \in Labels /\ "get" \notin Loops
      BY DEF Labels, Loops
    <3>5. p \in AgentRecords /\ p.pc = "get" /\ p.job = Job(v, "get") /\ p.saw = None
      BY <2>2, <3>1, <3>3, <3>4 DEF AgentRecords
    <3> HIDE DEF p
    <3>6. Sound(p)
      BY <3>2, <3>4, <3>5 DEF Sound
    <3>7. AgentsSound(proc')
      BY <1>1, <2>4, <3>6, OneSound DEF p
    <3> QED
      BY <1>2, <3>7, AgentsOnly DEF PumpPick
  <2> QED
    BY <1>2, <2>3, <2>4 DEF PumpPick
<1>3. CASE PumpEnds
  <2>1. \A a \in Agents : Sound(proc'[a])
    <3> SUFFICES ASSUME NEW a \in Agents PROVE Sound(proc'[a])
      OBVIOUS
    <3>1. CASE a = "pump"
      BY <1>3, <3>1, IdleSound DEF PumpEnds
    <3>2. CASE a # "pump" /\ At(a) = "waiting"
      <4> DEFINE p == [proc[a] EXCEPT !.pc = "released"]
      <4>1. proc[a] \in AgentRecords /\ proc[a].saw = None
        BY <1>1, <3>2, AgentFacts DEF AgentsSound, Updating
      <4>2. "released" \in Labels /\ "released" \in Free /\ "released" \notin Loops
        BY DEF Labels, Free, Loops
      <4>3. p \in AgentRecords /\ p.pc = "released" /\ p.saw = None
        BY <4>1, <4>2 DEF AgentRecords
      <4>4. proc'[a] = p
        BY <1>3, <3>2 DEF PumpEnds
      <4> HIDE DEF p
      <4> QED
        BY <4>2, <4>3, <4>4 DEF Sound
    <3>3. CASE a # "pump" /\ At(a) # "waiting"
      BY <1>1, <1>3, <3>3 DEF PumpEnds, AgentsSound
    <3> QED
      BY <3>1, <3>2, <3>3
  <2>2. proc' = [a \in Agents |-> proc'[a]]
    BY <1>3 DEF PumpEnds
  <2>3. \A a \in Agents : proc'[a] \in AgentRecords
    BY <2>1 DEF Sound
  <2>4. proc' \in [Agents -> AgentRecords]
    BY <2>2, <2>3
  <2>5. AgentsSound(proc')
    BY <2>1, <2>4 DEF AgentsSound
  <2> QED
    BY <1>3, <2>5, AgentsOnly DEF PumpEnds
<1>4. CASE DownloadReads \/ LookAgain
  <2>1. At("pump") \in {"get", "look"}
    BY <1>4 DEF DownloadReads, LookAgain
  <2>2. proc["pump"].saw = None /\ At("pump") \notin Free
    BY <1>1, <2>1, AgentFacts DEF Updating, Free
  <2>3. {"halt", "fresh", "begin", "overquota", "undo", "over", "stale", "fail"} \subseteq Labels
    BY DEF Labels, Updating, Drops
  <2>4. \E l \in Labels : proc' = Goto("pump", l)
    <3>1. CASE DownloadReads
      <4>1. \A v : GetNext(v) \subseteq Labels
        BY <2>3 DEF GetNext, Space, Saved
      <4> QED
        BY <3>1, <4>1 DEF DownloadReads
    <3>2. CASE LookAgain
      BY <2>3, <3>2 DEF LookAgain
    <3> QED
      BY <1>4, <3>1, <3>2
  <2>5. AgentsSound(proc')
    BY <1>1, <2>2, <2>4, JobGoesOn
  <2> QED
    BY <1>4, <2>5, AgentsOnly DEF DownloadReads, LookAgain
<1>5. CASE PutFresh \/ Forget
  <2>1. At("pump") \in {"fresh", "forget"}
    BY <1>5 DEF PutFresh, Forget
  <2>2. proc["pump"].saw = None /\ At("pump") \notin Free
    BY <1>1, <2>1, AgentFacts DEF Updating, Free
  <2>3. {"begin", "overquota", "over"} \subseteq Labels
    BY DEF Labels, Updating
  <2>4. \E l \in Labels : proc' = Goto("pump", l)
    BY <1>5, <2>3 DEF PutFresh, Forget, Space
  <2>5. AgentsSound(proc')
    BY <1>1, <2>2, <2>4, JobGoesOn
  <2>6. rec' \in [Videos -> Records \cup {None}]
    BY <1>5, FreshTyped DEF PutFresh, Forget, Inv, StoresTyped
  <2> QED
    BY <1>5, <2>5, <2>6 DEF PutFresh, Forget, Inv, StoresTyped, QueueTyped, PageTyped
<1>6. CASE Fetch \/ Validate \/ BeforeCommit
  <2>1. At("pump") \in {"fetch", "validate", "check"}
    BY <1>6 DEF Fetch, Validate, BeforeCommit
  <2>2. proc["pump"].saw = None /\ At("pump") \notin Free /\ At("pump") \notin Updating
    BY <1>1, <2>1, AgentFacts DEF Updating, Free
  <2>3. {"validate", "check", "commit"} \subseteq Labels
    BY DEF Labels, Updating
  <2>4. \/ \E l \in Labels : proc' = Goto("pump", l)
        \/ \E outcomes \in SUBSET BOOLEAN : Errs(outcomes)
    BY <1>6, <2>3 DEF Fetch, Validate, BeforeCommit
  <2>5. AgentsSound(proc')
    BY <1>1, <2>2, <2>4, JobGoesOn, ErrsSound
  <2>6. cache' \in [Videos -> {"none", "good", "bad"}]
    BY <1>6 DEF Fetch, Validate, BeforeCommit, Inv, StoresTyped
  <2> QED
    BY <1>6, <2>5, <2>6 DEF Fetch, Validate, BeforeCommit, Inv, StoresTyped, QueueTyped, PageTyped
<1>7. CASE DownloadOver
  <2>1. {"ending", "pick"} \subseteq Free
    BY DEF Free
  <2>2. PICK l \in Free : proc' = [proc EXCEPT !["pump"] = [Idle EXCEPT !.pc = l]]
    BY <1>7, <2>1 DEF DownloadOver
  <2> DEFINE p == [Idle EXCEPT !.pc = l]
  <2>5. Sound(p)
    BY IdleSound
  <2>6. proc' = [proc EXCEPT !["pump"] = p]
    BY <2>2
  <2> HIDE DEF p
  <2>3. AgentsSound(proc')
    BY <1>1, <2>5, <2>6, OneSound
  <2>4. QueueTyped'
    BY <1>7, RefreshedTyped DEF DownloadOver, Inv, QueueTyped
  <2> QED
    BY <1>7, <2>3, <2>4 DEF DownloadOver, Inv, StoresTyped, PageTyped
<1> QED
  BY <1>2, <1>3, <1>4, <1>5, <1>6, <1>7 DEF Pump

\* A pause of the queue.
LEMMA StoppedTyped ==
    ASSUME NEW mem \in [paused : BOOLEAN, clearing : BOOLEAN, aborted : BOOLEAN,
                        cancelled : SUBSET Videos, batch : SUBSET Videos,
                        seen : SUBSET Videos]
    PROVE  Stopped(mem) \in [paused : BOOLEAN, clearing : BOOLEAN, aborted : BOOLEAN,
                             cancelled : SUBSET Videos, batch : SUBSET Videos,
                             seen : SUBSET Videos]
BY DEF Stopped, Active

\* What the user, the clock and the browser do.
LEMMA OutsideStep ==
    ASSUME Inv, User \/ World
    PROVE  Inv'
<1>1. AgentsSound(proc) /\ {"queue", "cancel", "clear", "page"} \subseteq Agents
  BY DEF Inv, Agents
<1>2. ASSUME Acts PROVE used' \in 0..MaxActs
  BY <1>2, LibraryAssumption DEF Acts, Inv, PageTyped
<1>3. {"released", "waiting", "list"} \subseteq Labels /\ {"released", "waiting", "list"} \subseteq Free
  BY DEF Labels, Free
<1>4. CASE Interrupt
  <2>1. QueueTyped'
    BY <1>4, StoppedTyped DEF Interrupt, Inv, QueueTyped
  <2> QED
    BY <1>2, <1>4, <2>1 DEF Interrupt, Inv, StoresTyped, PageTyped
<1>5. CASE CancelBatch \/ CancelAndClear
  <2>1. PICK a \in {"cancel", "clear"} : At(a) = "idle" /\ proc' = Goto(a, Awaiting)
    BY <1>5 DEF CancelBatch, CancelAndClear
  <2>2. proc[a].saw = None
    BY <1>1, <2>1, AgentFacts DEF Updating
  <2>3. Awaiting \in Labels /\ Awaiting \in Free
    BY <1>3 DEF Awaiting
  <2>4. AgentsSound(proc')
    BY <1>1, <2>1, <2>2, <2>3, GotoSound
  <2>5. QueueTyped'
    <3>1. CASE CancelBatch
      <4> DEFINE C == {v \in q.batch : Active /\ v = Reel("pump")}
                 mem == [q EXCEPT !.cancelled = q.cancelled \cup C]
      <4>1. C \subseteq Videos
        BY DEF Inv, QueueTyped
      <4> HIDE DEF C
      <4>2. mem \in [paused : BOOLEAN, clearing : BOOLEAN, aborted : BOOLEAN,
                     cancelled : SUBSET Videos, batch : SUBSET Videos, seen : SUBSET Videos]
        BY <4>1 DEF Inv, QueueTyped
      <4>3. q' = Stopped(mem)
        BY <3>1 DEF CancelBatch, C
      <4> HIDE DEF mem
      <4> QED
        BY <4>2, <4>3, StoppedTyped DEF QueueTyped
    <3>2. CASE CancelAndClear
      <4> DEFINE mem == [q EXCEPT !.clearing = TRUE]
      <4>1. mem \in [paused : BOOLEAN, clearing : BOOLEAN, aborted : BOOLEAN,
                     cancelled : SUBSET Videos, batch : SUBSET Videos, seen : SUBSET Videos]
        BY DEF Inv, QueueTyped
      <4>2. q' = Stopped(mem)
        BY <3>2 DEF CancelAndClear
      <4> HIDE DEF mem
      <4> QED
        BY <4>1, <4>2, StoppedTyped DEF QueueTyped
    <3> QED
      BY <1>5, <3>1, <3>2
  <2>6. used' \in 0..MaxActs
    BY <1>2, <1>5 DEF CancelBatch, CancelAndClear
  <2> QED
    BY <1>5, <2>4, <2>5, <2>6 DEF CancelBatch, CancelAndClear, Inv, StoresTyped, PageTyped
<1>6. CASE Reopen
  <2>1. proc["page"].saw = None
    BY <1>1, <1>6, AgentFacts DEF Reopen, Updating
  <2>2. AgentsSound(proc')
    BY <1>1, <1>3, <1>6, <2>1, GotoSound DEF Reopen
  <2> QED
    BY <1>2, <1>6, <2>2 DEF Reopen, Inv, StoresTyped, QueueTyped, PageTyped
<1>7. ASSUME NEW S \in SUBSET Videos, EnqueueCatalog(S) PROVE Inv'
  <2>1. At("queue") = "idle"
    BY <1>7 DEF EnqueueCatalog, Unlocked
  <2>2. proc["queue"].saw = None /\ "offering" \in Loops /\ "catalog" \in JobLabels
    BY <1>1, <2>1, AgentFacts DEF Updating, Loops, JobLabels
  <2>3. JobsFor(S, "catalog") \in SUBSET Jobs
    BY <2>2, JobsForTyped
  <2>4. AgentsSound(proc')
    BY <1>1, <1>7, <2>2, <2>3, GotoLoopSound DEF EnqueueCatalog
  <2> QED
    BY <1>2, <1>7, <2>4 DEF EnqueueCatalog, Inv, StoresTyped, QueueTyped, PageTyped
<1>8. ASSUME NEW v \in Videos, Swipe(v) PROVE Inv'
  <2>1. rec' \in [Videos -> Records \cup {None}] /\ due' \subseteq Videos
    BY <1>8, MarkTyped DEF Swipe
  <2> QED
    BY <1>8, <2>1 DEF Swipe, Inv, StoresTyped, QueueTyped, PageTyped
<1>9. CASE Leave \/ \E v \in Videos : Play(v)
  <2>1. app' \in [ready : BOOLEAN, playing : Videos \cup {None}, feed : SUBSET Videos]
    BY <1>9 DEF Leave, Play, Inv, PageTyped
  <2> QED
    BY <1>9, <2>1 DEF Leave, Play, Inv, StoresTyped, QueueTyped, PageTyped
<1>10. ASSUME NEW v \in Videos, Expire(v) PROVE Inv'
  BY <1>10 DEF Expire, Inv, StoresTyped, QueueTyped, PageTyped
<1>11. CASE Reload
  <2>1. QueueTyped'
    BY <1>11 DEF Reload, Memory, QueueTyped
  <2>2. PageTyped'
    BY <1>2, <1>11 DEF Reload, Page, PageTyped
  <2>3. AgentsSound(proc')
    BY <1>11, LoadingSound DEF Reload
  <2> QED
    BY <1>11, <2>1, <2>2, <2>3 DEF Reload, Inv, StoresTyped
<1> QED
  BY <1>4, <1>5, <1>6, <1>7, <1>8, <1>9, <1>10, <1>11 DEF User, World

\* Every step of the page preserves the invariant.
LEMMA NextInv == Inv /\ [Next]_vars => Inv'
<1> SUFFICES ASSUME Inv, [Next]_vars PROVE Inv'
  OBVIOUS
<1>1. ASSUME NEW a \in Agents, Step(a) PROVE Inv'
  BY <1>1, UpdateStep, PageStep, LifeStep, QueueStep, CancelStep, ClearStep, PumpStep DEF Step
<1>2. CASE User \/ World
  BY <1>2, OutsideStep
<1>3. CASE UNCHANGED vars
  BY <1>3 DEF vars, Inv, StoresTyped, QueueTyped, PageTyped
<1> QED
  BY <1>1, <1>2, <1>3 DEF Next

\* The invariant holds in every reachable state of the library.
THEOREM Invariance == Spec => []Inv
BY InitInv, NextInv, PTL DEF Spec

LEMMA InvTypeOK == Inv => TypeOK
<1> SUFFICES ASSUME Inv PROVE TypeOK
  OBVIOUS
<1>1. ASSUME NEW a \in Agents
      PROVE  /\ proc[a].pc \in Labels
             /\ proc[a].job \in Jobs \cup {None}
             /\ proc[a].saw \in Records \cup {None}
             /\ proc[a].todo \subseteq Jobs
             /\ proc[a].done \subseteq Videos
             /\ proc[a].saw # None => proc[a].job # None /\ At(a) \in Updating
  <2>1. Sound(proc[a])
    BY DEF Inv, AgentsSound
  <2>2. proc[a] \in AgentRecords
    BY <2>1 DEF Sound
  <2>3. /\ proc[a].pc \in Labels /\ proc[a].job \in Jobs \cup {None}
        /\ proc[a].saw \in Records \cup {None} /\ proc[a].todo \subseteq Jobs
        /\ proc[a].done \subseteq Videos
    BY <2>2 DEF AgentRecords
  <2> QED
    BY <2>1, <2>3, LabelKinds DEF Sound, At
<1> QED
  BY <1>1 DEF Inv, StoresTyped, QueueTyped, PageTyped, TypeOK

\* The records, the memory of the queue and of the page and every agent have their
\* types in every reachable state, and what an update has read belongs to a job.
THEOREM TypeCorrect == Spec => []TypeOK
BY Invariance, InvTypeOK, PTL

-----------------------------------------------------------------------------
(* Tombstones *)

\* The three ways in which a tombstone is lost.
Lost(v) == StaleWrite(v) \/ LatePut(v) \/ Cancelled(v)

\* Where Run leaves the agent: as it was to go on, or with its next job, or after
\* its loop.
LEMMA RunLabel ==
    ASSUME AgentsSound(proc), NEW a \in Agents, NEW p \in AgentRecords
    PROVE  \/ p.pc \notin Loops /\ Run(a, p)[a] = p
           \/ Run(a, p)[a].pc \in JobLabels /\ Run(a, p)[a].todo # p.todo
           \/ Run(a, p)[a].pc \in Free
<1> DEFINE open == {job \in p.todo : ~ Spared(job)}
           next == CHOOSE job \in open : TRUE
           turn == [p EXCEPT !.pc = next.what, !.job = next, !.todo = @ \ {next}]
           out == [Idle EXCEPT !.pc = AfterLoop(a, p.pc),
                               !.done = IF p.pc \in {"scanning", "offering"} THEN p.done ELSE {}]
           G == IF p.pc \notin Loops THEN p ELSE IF open # {} THEN turn ELSE out
<1>1. Run(a, p) = [proc EXCEPT ![a] = G]
  BY DEF Run
<1>2. Run(a, p)[a] = G
  BY <1>1 DEF AgentsSound
<1>3. CASE p.pc \notin Loops
  BY <1>2, <1>3
<1>4. CASE p.pc \in Loops /\ open # {}
  <2>1. next \in p.todo
    BY <1>4
  <2>2. next.what \in JobLabels
    BY <2>1 DEF AgentRecords, Jobs
  <2>3. turn.pc = next.what /\ turn.todo = p.todo \ {next}
    BY DEF AgentRecords
  <2>4. G = turn
    BY <1>4
  <2> HIDE DEF next, open, turn, G
  <2> QED
    BY <1>2, <2>1, <2>2, <2>3, <2>4
<1>5. CASE p.pc \in Loops /\ open = {}
  <2>1. AfterLoop(a, p.pc) \in Free
    BY <1>5, AfterLoopFree
  <2>2. out.pc = AfterLoop(a, p.pc)
    BY DEF Idle
  <2>3. G = out
    BY <1>5
  <2> HIDE DEF open, out, G
  <2> QED
    BY <1>2, <2>1, <2>2, <2>3
<1> QED
  BY <1>3, <1>4, <1>5

\* An agent with a job that goes on is somewhere else, or has one job less to do.
LEMMA GotoMoves ==
    ASSUME AgentsSound(proc), NEW a \in Agents, At(a) \notin Free, NEW l \in Labels, l # At(a)
    PROVE  Goto(a, l)[a] # proc[a]
<1> DEFINE p == [proc[a] EXCEPT !.pc = l]
<1>1. proc[a] \in AgentRecords
  BY DEF AgentsSound
<1>2. p \in AgentRecords /\ p.pc = l /\ p.todo = proc[a].todo
  BY <1>1 DEF AgentRecords
<1>3. Goto(a, l) = Run(a, p)
  BY DEF Goto
<1> HIDE DEF p
<1> QED
  BY <1>2, <1>3, RunLabel DEF At

\* A put of what was read is a stale write where it takes a view back.
LEMMA PutsTombstone ==
    ASSUME Inv, NEW a \in Agents, UpdatePuts(a), NEW v \in Videos, Viewed(v)
    PROVE  Viewed(v)' \/ StaleWrite(v)
<1> DEFINE p == [proc[a] EXCEPT !.pc = Then(At(a), TRUE, proc[a].job), !.saw = None]
<1>1. AgentsSound(proc)
  BY DEF Inv
<1>2. At(a) \in Updating /\ proc[a].saw # None /\ proc' = Run(a, p)
      /\ rec' = [rec EXCEPT ![Reel(a)] = Patch(At(a), proc[a].saw)]
  BY DEF UpdatePuts
<1>3. At(a) \notin Free
  BY <1>2, LabelKinds
<1>4. Reel(a) \in Videos /\ proc[a].saw \in Records /\ proc[a].job # None
  BY <1>1, <1>2, <1>3, AgentFacts
<1>5. Patch(At(a), proc[a].saw) \in Records
      /\ Patch(At(a), proc[a].saw).viewed = proc[a].saw.viewed
  BY <1>4, PatchKeepsView
<1>6. rec \in [Videos -> Records \cup {None}]
  BY DEF Inv, StoresTyped
<1>7. CASE v # Reel(a)
  BY <1>2, <1>6, <1>7 DEF Viewed, Exists
<1>8. CASE v = Reel(a) /\ proc[a].saw.viewed
  BY <1>2, <1>4, <1>5, <1>6, <1>8, NoneAssumption DEF Viewed, Exists
<1>9. CASE v = Reel(a) /\ ~ proc[a].saw.viewed
  <2>1. proc[a] \in AgentRecords /\ Then(At(a), TRUE, proc[a].job) \in Labels
    BY <1>1, ThenLabels DEF AgentsSound
  <2>2. p \in AgentRecords /\ p.saw = None /\ p.job = proc[a].job
    BY <2>1 DEF AgentRecords
  <2> HIDE DEF p
  <2>3. proc'[a].saw = None
    BY <1>1, <1>2, <1>4, <2>2, RunSound
  <2> QED
    BY <1>2, <1>9, <2>3 DEF StaleWrite
<1> QED
  BY <1>7, <1>8, <1>9

\* A deleted record is a cancellation, by the agent that steps.
LEMMA DeletesTombstone ==
    ASSUME Inv, CancelDeletes \/ Forget, NEW v \in Videos, Viewed(v)
    PROVE  Viewed(v)' \/ Cancelled(v)
<1>1. AgentsSound(proc) /\ {"cancel", "pump"} \subseteq Agents
  BY DEF Inv, Agents
<1>2. rec \in [Videos -> Records \cup {None}]
  BY DEF Inv, StoresTyped
<1>3. {"discarding", "over"} \subseteq Labels /\ "discard" \notin Free /\ "forget" \notin Free
  BY DEF Labels, Loops, Free
<1>4. CASE CancelDeletes
  <2>1. At("cancel") = "discard" /\ rec' = [rec EXCEPT ![Reel("cancel")] = None]
        /\ proc' = Goto("cancel", "discarding")
    BY <1>4 DEF CancelDeletes
  <2>2. proc'["cancel"] # proc["cancel"]
    BY <1>1, <1>3, <2>1, GotoMoves
  <2>3. rec'[v] = rec[v] \/ (rec'[v] = None /\ Reel("cancel") = v)
    BY <1>2, <2>1
  <2> QED
    BY <2>1, <2>2, <2>3 DEF Viewed, Exists, Cancelled, Moves, On
<1>5. CASE Forget
  <2>1. At("pump") = "forget" /\ rec' = [rec EXCEPT ![Reel("pump")] = None]
        /\ proc' = Goto("pump", "over")
    BY <1>5 DEF Forget
  <2>2. proc'["pump"] # proc["pump"]
    BY <1>1, <1>3, <2>1, GotoMoves
  <2>3. rec'[v] = rec[v] \/ (rec'[v] = None /\ Reel("pump") = v)
    BY <1>2, <2>1
  <2> QED
    BY <2>1, <2>2, <2>3 DEF Viewed, Exists, Cancelled, Moves, On
<1> QED
  BY <1>4, <1>5

\* A fresh record is put by an agent that found none when it looked.
LEMMA FreshTombstone ==
    ASSUME Inv, PutQueued \/ PutFresh, NEW v \in Videos, Viewed(v)
    PROVE  Viewed(v)' \/ LatePut(v)
<1>1. AgentsSound(proc) /\ {"queue", "pump"} \subseteq Agents
  BY DEF Inv, Agents
<1>2. rec \in [Videos -> Records \cup {None}]
  BY DEF Inv, StoresTyped
<1>3. "offering" \in Labels /\ Space \subseteq Labels /\ "fresh" \notin Space
      /\ "put" \notin Free /\ "fresh" \notin Free
  BY DEF Labels, Loops, Updating, Space, Free
<1>4. CASE PutQueued
  <2>1. At("queue") = "put" /\ rec' = [rec EXCEPT ![Reel("queue")] = Fresh]
        /\ proc' = Goto("queue", "offering")
    BY <1>4 DEF PutQueued
  <2>2. proc'["queue"] # proc["queue"]
    BY <1>1, <1>3, <2>1, GotoMoves
  <2>3. rec'[v] = rec[v] \/ (rec'[v] = Fresh /\ Reel("queue") = v)
    BY <1>2, <2>1
  <2> QED
    BY <2>1, <2>2, <2>3 DEF Viewed, Exists, LatePut, Moves, On
<1>5. CASE PutFresh
  <2>1. At("pump") = "fresh" /\ rec' = [rec EXCEPT ![Reel("pump")] = Fresh]
    BY <1>5 DEF PutFresh
  <2>2. PICK l \in Space : proc' = Goto("pump", l)
    BY <1>5 DEF PutFresh
  <2>3. proc'["pump"] # proc["pump"]
    BY <1>1, <1>3, <2>1, <2>2, GotoMoves
  <2>4. rec'[v] = rec[v] \/ (rec'[v] = Fresh /\ Reel("pump") = v)
    BY <1>2, <2>1
  <2> QED
    BY <2>1, <2>3, <2>4 DEF Viewed, Exists, LatePut, Moves, On
<1> QED
  BY <1>4, <1>5

\* Every step keeps a tombstone or loses it in one of the three ways.
LEMMA StepTombstone ==
    ASSUME Inv, Next, NEW v \in Videos, Viewed(v)
    PROVE  Viewed(v)' \/ Lost(v)
<1>1. ASSUME rec' = rec PROVE Viewed(v)'
  BY <1>1 DEF Viewed, Exists
<1>2. ASSUME NEW w \in Videos, Mark(w) PROVE Viewed(v)'
  BY <1>2, MarkTyped DEF Viewed, Exists
<1>3. ASSUME NEW a \in Agents, Step(a) PROVE Viewed(v)' \/ Lost(v)
  <2>1. CASE UpdateReads(a) \/ DropCache(a) \/ DropFails(a) \/ Reconcile(a) \/ Loaded
    BY <1>1, <2>1 DEF UpdateReads, DropCache, DropFails, Reconcile, ListRecords, Verify,
                      ListOrphans, Loaded
  <2>2. CASE UpdatePuts(a)
    BY <2>2, PutsTombstone DEF Lost
  <2>3. CASE Life
    <3>1. CASE MarkConfirmed
      <4>1. Reel("life") \in Videos
        BY <3>1, AgentFacts DEF MarkConfirmed, Inv, Agents, Free
      <4> QED
        BY <1>2, <3>1, <4>1 DEF MarkConfirmed
    <3>2. CASE ~ MarkConfirmed
      BY <1>1, <2>3, <3>2 DEF Life, RunStarts, Confirm, SendOutbox, ListOverdue
    <3> QED
      BY <3>1, <3>2
  <2>4. CASE QueueSteps
    BY <1>1, <2>4, FreshTombstone DEF QueueSteps, CallReads, CallEnds, Lost
  <2>5. CASE CancelSteps
    BY <1>1, <2>5, DeletesTombstone DEF CancelSteps, CancelRest, CancelEnds, Lost
  <2>6. CASE ClearSteps
    <3>1. CASE ClearRecords
      BY <3>1 DEF ClearRecords, Viewed, Exists
    <3>2. CASE ~ ClearRecords
      BY <1>1, <2>6, <3>2 DEF ClearSteps, ClearMediaCache, ClearEnds
    <3> QED
      BY <3>1, <3>2
  <2>7. CASE Pump
    BY <1>1, <2>7, FreshTombstone, DeletesTombstone
    DEF Pump, PumpPick, PumpEnds, DownloadReads, Fetch, Validate, BeforeCommit, LookAgain,
        DownloadOver, Lost
  <2> QED
    BY <1>3, <2>1, <2>2, <2>3, <2>4, <2>5, <2>6, <2>7 DEF Step
<1>4. CASE User
  <2>1. CASE \E w \in Videos : Swipe(w)
    BY <1>2, <2>1 DEF Swipe
  <2>2. CASE ~ \E w \in Videos : Swipe(w)
    BY <1>1, <1>4, <2>2 DEF User, Interrupt, CancelBatch, CancelAndClear, Reopen,
                            EnqueueCatalog, Leave, Play
  <2> QED
    BY <2>1, <2>2
<1>5. CASE World
  BY <1>1, <1>5 DEF World, Reload, Expire
<1> QED
  BY <1>3, <1>4, <1>5 DEF Next

\* Nothing begins with Reel v what only a look without a tombstone allows.
NothingBegins(v) == \A g \in Guarded : On(g.agent, g.at, v)' => On(g.agent, g.at, v)

LEMMA GuardedLabels ==
    \A g \in Guarded :
        /\ g.agent \in {"queue", "pump"} /\ g.agent \in Agents
        /\ g.at \subseteq {"retry", "requeue", "enqueue", "put", "stale", "fresh", "begin",
                           "overquota", "fetch", "validate", "check", "commit", "fail"}
        /\ g.at \cap (JobLabels \cup Free) = {}
<1>1. {"retry", "requeue", "enqueue", "put", "stale", "fresh", "begin", "overquota", "fetch",
       "validate", "check", "commit", "fail"} \cap (JobLabels \cup Free) = {}
  BY DEF JobLabels, Free
<1>2. ASSUME NEW g \in Guarded
      PROVE  /\ g.agent \in {"queue", "pump"}
             /\ g.at \subseteq {"retry", "requeue", "enqueue", "put", "stale", "fresh", "begin",
                                "overquota", "fetch", "validate", "check", "commit", "fail"}
  BY DEF Guarded
<1>3. {"queue", "pump"} \subseteq Agents
  BY DEF Agents
<1> QED
  BY <1>1, <1>2, <1>3

\* A step after which the queue and the pump are where they were, or where nothing
\* is guarded.
LEMMA OthersBegin ==
    ASSUME NEW v, \A a \in {"queue", "pump"} :
               proc'[a] = proc[a] \/ proc'[a].pc \in JobLabels \cup Free
    PROVE  NothingBegins(v)
BY GuardedLabels DEF NothingBegins, On, At, Reel

\* One agent goes on as p.
LEMMA RunBegins ==
    ASSUME AgentsSound(proc), NEW a \in Agents, NEW p \in AgentRecords, p.saw = None,
           p.pc \in Loops \/ p.pc \in Free \/ p.job # None,
           proc' = Run(a, p), NEW v,
           \A g \in Guarded : g.agent = a /\ p.pc \in g.at /\ p.job.v = v => On(a, g.at, v)
    PROVE  NothingBegins(v)
<1> SUFFICES ASSUME NEW g \in Guarded, On(g.agent, g.at, v)' PROVE On(g.agent, g.at, v)
  BY DEF NothingBegins
<1>1. proc'[g.agent].pc \in g.at /\ proc'[g.agent].job.v = v
  BY DEF On, At, Reel
<1>2. CASE g.agent # a
  <2>1. proc'[g.agent] = proc[g.agent]
    BY <1>2, GuardedLabels, RunSound
  <2> QED
    BY <1>1, <2>1 DEF On, At, Reel
<1>3. CASE g.agent = a
  <2>1. proc'[a].pc \notin JobLabels \cup Free
    BY <1>1, <1>3, GuardedLabels
  <2>2. proc'[a] = p
    BY <2>1, RunLabel
  <2> QED
    BY <1>1, <1>3, <2>2
<1> QED
  BY <1>2, <1>3

\* ... at another label, with the Reel it has.
LEMMA GotoBegins ==
    ASSUME AgentsSound(proc), NEW a \in Agents, proc[a].saw = None, NEW l \in Labels,
           l \in Loops \/ l \in Free \/ proc[a].job # None,
           proc' = Goto(a, l), NEW v,
           \A g \in Guarded : g.agent = a /\ l \in g.at /\ Reel(a) = v => At(a) \in g.at
    PROVE  NothingBegins(v)
<1> DEFINE p == [proc[a] EXCEPT !.pc = l]
<1>1. proc[a] \in AgentRecords
  BY DEF AgentsSound
<1>2. p \in AgentRecords /\ p.pc = l /\ p.saw = None /\ p.job = proc[a].job
  BY <1>1 DEF AgentRecords
<1>3. proc' = Run(a, p)
  BY DEF Goto
<1> HIDE DEF p
<1>4. \A g \in Guarded : g.agent = a /\ p.pc \in g.at /\ p.job.v = v => On(a, g.at, v)
  BY <1>2 DEF On, Reel
<1> QED
  BY <1>2, <1>3, <1>4, RunBegins

LEMMA GotoLoopBegins ==
    ASSUME AgentsSound(proc), NEW a \in Agents, proc[a].saw = None, NEW l \in Loops,
           NEW jobs \in SUBSET Jobs, proc' = GotoLoop(a, l, jobs), NEW v
    PROVE  NothingBegins(v)
<1> DEFINE p == [proc[a] EXCEPT !.pc = l, !.todo = jobs]
<1>1. proc[a] \in AgentRecords
  BY DEF AgentsSound
<1>2. p \in AgentRecords /\ p.pc = l /\ p.saw = None
  BY <1>1, LabelKinds DEF AgentRecords
<1>3. proc' = Run(a, p)
  BY DEF GotoLoop
<1> HIDE DEF p
<1>4. \A b \in Agents \ {a} : proc'[b] = proc[b]
  BY <1>2, <1>3, RunSound
<1>5. proc'[a].pc \in JobLabels \cup Free
  BY <1>2, <1>3, RunLabel
<1>6. \A b \in {"queue", "pump"} : proc'[b] = proc[b] \/ proc'[b].pc \in JobLabels \cup Free
  BY <1>4, <1>5, GuardedLabels DEF Agents
<1> QED
  BY <1>6, OthersBegin

\* An update, once it is over: only the start of a download leads to its next step.
LEMMA ThenGuarded ==
    ASSUME NEW l, NEW found \in BOOLEAN, NEW job, NEW g \in Guarded, Then(l, found, job) \in g.at
    PROVE  l = "begin" /\ "begin" \in g.at
<1>1. Then(l, found, job) \in {"fetch", "undo", "over", "cleanup", "halt", "offering", "uncache",
                               "removing", "scanning", "syncing"}
  BY DEF Then, Saved
<1>2. Then(l, found, job) = "fetch"
  BY <1>1, GuardedLabels
<1>3. l = "begin"
  BY <1>2 DEF Then, Saved
<1>4. "begin" \in g.at
  BY <1>2 DEF Guarded
<1> QED
  BY <1>3, <1>4

LEMMA UpdateBegins ==
    ASSUME Inv, NEW a \in Agents, UpdateReads(a) \/ UpdatePuts(a), NEW v \in Videos
    PROVE  NothingBegins(v)
<1>1. AgentsSound(proc) /\ At(a) \in Updating
  BY DEF Inv, UpdateReads, UpdatePuts
<1>2. At(a) \notin Free /\ proc[a].job # None /\ proc[a] \in AgentRecords
  BY <1>1, LabelKinds, AgentFacts DEF AgentsSound
<1>3. CASE UpdateReads(a) /\ Exists(Reel(a))
  <2>1. proc' = [proc EXCEPT ![a].saw = rec[Reel(a)]]
    BY <1>3 DEF UpdateReads
  <2>2. \A b \in Agents : proc'[b].pc = proc[b].pc /\ proc'[b].job = proc[b].job
    BY <1>1, <1>2, <2>1 DEF AgentsSound, AgentRecords
  <2> QED
    BY <2>2, GuardedLabels DEF NothingBegins, On, At, Reel
<1>4. CASE UpdateReads(a) /\ ~ Exists(Reel(a))
  <2> DEFINE l == Then(At(a), FALSE, proc[a].job)
  <2>1. proc[a].saw = None /\ proc' = Goto(a, l)
    BY <1>4 DEF UpdateReads
  <2>2. l \in Labels /\ \A g \in Guarded : l \in g.at => At(a) \in g.at
    BY ThenLabels, ThenGuarded
  <2> HIDE DEF l
  <2> QED
    BY <1>1, <1>2, <2>1, <2>2, GotoBegins
<1>5. CASE UpdatePuts(a)
  <2> DEFINE l == Then(At(a), TRUE, proc[a].job)
             p == [proc[a] EXCEPT !.pc = l, !.saw = None]
  <2>1. proc' = Run(a, p)
    BY <1>5 DEF UpdatePuts
  <2>2. l \in Labels /\ \A g \in Guarded : l \in g.at => At(a) \in g.at
    BY ThenLabels, ThenGuarded
  <2> HIDE DEF l
  <2>3. p \in AgentRecords /\ p.saw = None /\ p.job = proc[a].job /\ p.pc = l
    BY <1>2, <2>2 DEF AgentRecords
  <2> HIDE DEF p
  <2>4. \A g \in Guarded : g.agent = a /\ p.pc \in g.at /\ p.job.v = v => On(a, g.at, v)
    BY <2>2, <2>3 DEF On, Reel
  <2> QED
    BY <1>1, <1>2, <2>1, <2>3, <2>4, RunBegins
<1> QED
  BY <1>3, <1>4, <1>5

LEMMA DropBegins ==
    ASSUME Inv, NEW a \in Agents, DropCache(a) \/ DropFails(a), NEW v
    PROVE  NothingBegins(v)
<1>1. AgentsSound(proc) /\ At(a) \in Drops
  BY DEF Inv, DropCache, DropFails
<1>2. At(a) \notin Free /\ proc[a].saw = None /\ proc[a].job # None
  BY <1>1, LabelKinds, AgentFacts
<1>3. PICK l : (l \in AfterDrop(At(a)) \/ l = "delfail") /\ proc' = Goto(a, l)
  BY DEF DropCache, DropFails
<1>4. l \in Labels
  <2>1. "delfail" \in Labels
    BY DEF Labels, Updating
  <2> QED
    BY <1>1, <1>3, <2>1, AfterDropLabels
<1>5. \A g \in Guarded : l \in g.at => At(a) \in g.at
  <2> SUFFICES ASSUME NEW g \in Guarded, l \in g.at PROVE At(a) \in g.at
    OBVIOUS
  <2>1. l \in Space \cup {"look", "forget", "interrupt", "sweeping", "deleted", "delfail"}
        /\ (l \in Space => At(a) = "stale")
    BY <1>1, <1>3 DEF AfterDrop, Drops, Space
  <2>2. l \in Space
    BY <2>1, GuardedLabels
  <2> QED
    BY <2>1, <2>2 DEF Guarded, Space
<1> QED
  BY <1>1, <1>2, <1>3, <1>4, <1>5, GotoBegins

\* No other agent moves when one goes on.
LEMMA OthersStay ==
    ASSUME AgentsSound(proc), NEW a, NEW b \in Agents \ {a}
    PROVE  /\ \A p : Run(a, p)[b] = proc[b]
           /\ \A l : Goto(a, l)[b] = proc[b]
           /\ \A l, jobs : GotoLoop(a, l, jobs)[b] = proc[b]
           /\ Retire(a)[b] = proc[b]
<1>1. \A p : Run(a, p)[b] = proc[b]
  BY DEF Run, AgentsSound
<1> QED
  BY <1>1 DEF Goto, GotoLoop, Retire, AgentsSound

LEMMA AloneBegins ==
    ASSUME NEW a, \A b \in Agents \ {a} : proc'[b] = proc[b], NEW v,
           a \in {"queue", "pump"} => proc'[a].pc \in JobLabels \cup Free
    PROVE  NothingBegins(v)
<1>1. \A b \in {"queue", "pump"} : proc'[b] = proc[b] \/ proc'[b].pc \in JobLabels \cup Free
  BY DEF Agents
<1> QED
  BY <1>1, OthersBegin

\* The page, the life cycle, cancelBatch and cancelAndClear are none of these agents.
LEMMA AsideBegins ==
    ASSUME Inv, NEW v, Loaded \/ Life \/ CancelSteps \/ ClearSteps
    PROVE  NothingBegins(v)
<1>1. AgentsSound(proc)
  BY DEF Inv
<1>2. CASE Loaded
  <2>1. \A b \in Agents \ {"page"} : proc'[b] = proc[b]
    BY <1>1, <1>2, OthersStay DEF Loaded
  <2> QED
    BY <2>1, AloneBegins
<1>3. CASE Life
  <2>1. \A b \in Agents \ {"life"} : proc'[b] = proc[b]
    <3>1. CASE RunStarts
      BY <1>1, <3>1 DEF RunStarts, AgentsSound
    <3>2. CASE ~ RunStarts
      <4>1. CASE Confirm
        BY <1>1, <4>1, OthersStay DEF Confirm
      <4>2. CASE MarkConfirmed
        BY <1>1, <4>2, OthersStay DEF MarkConfirmed
      <4>3. CASE SendOutbox
        BY <1>1, <4>3, OthersStay DEF SendOutbox
      <4>4. CASE ListOverdue
        BY <1>1, <4>4, OthersStay DEF ListOverdue
      <4> QED
        BY <1>3, <3>2, <4>1, <4>2, <4>3, <4>4 DEF Life
    <3> QED
      BY <3>1, <3>2
  <2> QED
    BY <2>1, AloneBegins
<1>4. CASE CancelSteps
  <2>1. \A b \in Agents \ {"cancel"} : proc'[b] = proc[b]
    BY <1>1, <1>4, OthersStay
    DEF CancelSteps, CancelRest, CancelDeletes, CancelEnds
  <2> QED
    BY <2>1, AloneBegins
<1>5. CASE ClearSteps
  <2>1. \A b \in Agents \ {"clear"} : proc'[b] = proc[b]
    <3>1. \/ proc' = Goto("clear", "records") \/ proc' = Goto("clear", "cleared")
          \/ proc' = Retire("clear")
      BY <1>5 DEF ClearSteps, ClearMediaCache, ClearRecords, ClearEnds
    <3> QED
      BY <1>1, <3>1, OthersStay
  <2> QED
    BY <2>1, AloneBegins
<1> QED
  BY <1>2, <1>3, <1>4, <1>5

LEMMA ReconcileBegins ==
    ASSUME Inv, NEW a \in Agents, Reconcile(a), NEW v
    PROVE  NothingBegins(v)
<1>1. AgentsSound(proc) /\ proc[a] \in AgentRecords
  BY DEF Inv, AgentsSound
<1>2. proc[a].saw = None
  BY <1>1, AgentFacts DEF Reconcile, ListRecords, Verify, ListOrphans, Updating
<1>3. CASE ListRecords(a)
  <2> DEFINE jobs == JobsFor(WithStatus("downloading"), "drop")
                     \cup JobsFor(WithStatus("completed"), "verify")
  <2>1. "drop" \in JobLabels /\ "verify" \in JobLabels /\ "scanning" \in Loops
    BY DEF JobLabels, Loops
  <2>2. jobs \in SUBSET Jobs
    BY <2>1, JobsForTyped, WithStatusReels
  <2>3. proc' = GotoLoop(a, "scanning", jobs)
    BY <1>3 DEF ListRecords
  <2> HIDE DEF jobs
  <2> QED
    BY <1>1, <1>2, <2>1, <2>2, <2>3, GotoLoopBegins
<1>4. CASE ListOrphans(a)
  <2>1. "sweep" \in JobLabels /\ "sweeping" \in Loops /\ Orphans(a) \subseteq Videos
    BY DEF JobLabels, Loops, Orphans
  <2>2. JobsFor(Orphans(a), "sweep") \in SUBSET Jobs
    BY <2>1, JobsForTyped
  <2>3. proc' = GotoLoop(a, "sweeping", JobsFor(Orphans(a), "sweep"))
    BY <1>4 DEF ListOrphans
  <2> QED
    BY <1>1, <1>2, <2>1, <2>2, <2>3, GotoLoopBegins
<1>5. CASE Verify(a)
  <2>1. At(a) = "verify" /\ At(a) \notin Free
    BY <1>5 DEF Verify, Free
  <2>2. Reel(a) \in Videos /\ proc[a].done \subseteq Videos /\ proc[a].job # None
    BY <1>1, <2>1, AgentFacts
  <2> DEFINE p == [proc[a] EXCEPT !.pc = "scanning", !.done = proc[a].done \cup {Reel(a)}]
  <2>3. proc' = Run(a, p) \/ proc' = Goto(a, "drop") \/ proc' = Goto(a, "interrupt")
    <3>1. cache[Reel(a)] \in {"none", "good", "bad"}
      BY <2>2 DEF Inv, StoresTyped
    <3> QED
      BY <1>5, <3>1 DEF Verify
  <2>4. {"scanning", "drop", "interrupt"} \subseteq Labels /\ "scanning" \in Loops
    BY DEF Labels, Loops, Drops, Updating
  <2>5. p \in AgentRecords /\ p.saw = None /\ p.pc = "scanning"
    BY <1>1, <1>2, <2>2, <2>4 DEF AgentRecords
  <2>6. \A g \in Guarded : "scanning" \notin g.at /\ "drop" \notin g.at /\ "interrupt" \notin g.at
    BY GuardedLabels
  <2> HIDE DEF p
  <2>7. CASE proc' = Run(a, p)
    BY <1>1, <2>4, <2>5, <2>6, <2>7, RunBegins
  <2>8. CASE proc' = Goto(a, "drop") \/ proc' = Goto(a, "interrupt")
    BY <1>1, <1>2, <2>2, <2>4, <2>6, <2>8, GotoBegins
  <2> QED
    BY <2>3, <2>7, <2>8
<1> QED
  BY <1>3, <1>4, <1>5 DEF Reconcile

\* A call on the queue begins nothing with a Reel that it finds viewed; what it had
\* begun before goes on.
LEMMA QueueBegins ==
    ASSUME Inv, QueueSteps, NEW v \in Videos, Viewed(v)
    PROVE  NothingBegins(v)
<1>1. AgentsSound(proc) /\ "queue" \in Agents /\ "pump" \in Agents
  BY DEF Inv, Agents
<1>2. CASE CallReads
  <2>1. At("queue") \in {"catalog", "retry", "enqueue"}
    BY <1>2 DEF CallReads
  <2>2. proc["queue"].saw = None /\ At("queue") \notin Free
    BY <1>1, <2>1, AgentFacts DEF Updating, Free
  <2>3. Reel("queue") \in Videos /\ proc["queue"].done \subseteq Videos /\ proc["queue"].job # None
    BY <1>1, <2>2, AgentFacts
  <2>4. PICK l \in {"offering", "retry", "enqueue", "requeue", "put"} :
             /\ proc' = Decided(l)
             /\ At("queue") = "catalog" => l = CatalogNext(Reel("queue"))
    BY <1>2 DEF CallReads, CatalogNext, RetryNext, EnqueueNext
  <2>5. l \in Labels
    BY DEF Labels, Loops, Updating
  <2> DEFINE more == IF l \in {"requeue", "put"} THEN proc["queue"].done \cup {Reel("queue")}
                     ELSE proc["queue"].done
             p == [proc["queue"] EXCEPT !.pc = l, !.done = more]
  <2>6. proc["queue"] \in AgentRecords
    BY <1>1 DEF AgentsSound
  <2>7. more \subseteq Videos
    BY <2>3
  <2>8. proc' = Run("queue", p)
    BY <2>4 DEF Decided
  <2> HIDE DEF more
  <2>9. p \in AgentRecords /\ p.saw = None /\ p.job = proc["queue"].job /\ p.pc = l
    BY <2>2, <2>5, <2>6, <2>7 DEF AgentRecords
  <2> HIDE DEF p
  <2>10. ASSUME NEW g \in Guarded, g.agent = "queue", p.pc \in g.at, p.job.v = v
         PROVE  On("queue", g.at, v)
    <3>1. g.at = {"retry", "requeue", "enqueue", "put"} /\ Reel("queue") = v
      BY <2>9, <2>10 DEF Guarded, Reel
    <3>2. CASE At("queue") = "catalog"
      <4>1. Tombstone(v)
        BY DEF Tombstone, Viewed
      <4>2. l = "offering"
        BY <2>4, <3>1, <3>2, <4>1 DEF CatalogNext
      <4> QED
        BY <2>9, <2>10, <3>1, <4>2
    <3> QED
      BY <2>1, <3>1, <3>2 DEF On
  <2> QED
    BY <1>1, <2>3, <2>8, <2>9, <2>10, RunBegins
<1>3. CASE PutQueued
  <2>1. At("queue") = "put" /\ proc' = Goto("queue", "offering")
    BY <1>3 DEF PutQueued
  <2>2. proc["queue"].saw = None /\ At("queue") \notin Free /\ "offering" \in Labels
        /\ "offering" \in Loops
    BY <1>1, <2>1, AgentFacts DEF Updating, Free, Labels, Loops
  <2>3. \A g \in Guarded : "offering" \notin g.at
    BY GuardedLabels
  <2> QED
    BY <1>1, <2>1, <2>2, <2>3, GotoBegins
<1>4. CASE CallEnds
  <2>1. proc' = Retire("queue") \/ (\E mem : Started(mem, Retire("queue")))
    BY <1>4 DEF CallEnds
  <2>2. Retire("queue")["queue"].pc = "idle" /\ Retire("queue")["pump"] = proc["pump"]
    BY <1>1 DEF Retire, Idle, AgentsSound
  <2>3. proc' = Retire("queue") \/ proc' = [Retire("queue") EXCEPT !["pump"].pc = "pick"]
    BY <2>1 DEF Started
  <2>4. CASE proc' = [Retire("queue") EXCEPT !["pump"].pc = "pick"]
    <3>1. proc'["queue"].pc = "idle" /\ proc'["pump"].pc = "pick"
      <4>1. Retire("queue") \in [Agents -> AgentRecords]
        BY <1>1, IdleSound, OneSound DEF Retire, AgentsSound
      <4> HIDE DEF Retire
      <4> QED
        BY <1>1, <2>2, <2>4, <4>1 DEF AgentRecords
    <3> QED
      BY <3>1, OthersBegin DEF Free
  <2>5. CASE proc' = Retire("queue")
    BY <2>2, <2>5, OthersBegin DEF Free
  <2> QED
    BY <2>3, <2>4, <2>5
<1> QED
  BY <1>2, <1>3, <1>4 DEF QueueSteps

\* What the user and the browser do begins nothing.
LEMMA OutsideBegins ==
    ASSUME Inv, User \/ World, NEW v
    PROVE  NothingBegins(v)
<1>1. AgentsSound(proc) /\ {"queue", "pump", "cancel", "clear", "page"} \subseteq Agents
  BY DEF Inv, Agents
<1>2. CASE Interrupt \/ Leave \/ (\E w \in Videos : Swipe(w) \/ Play(w) \/ Expire(w))
  <2>1. proc' = proc
    BY <1>2 DEF Interrupt, Leave, Swipe, Play, Expire
  <2> QED
    BY <2>1, OthersBegin
<1>3. CASE CancelBatch \/ CancelAndClear \/ Reopen
  <2>1. PICK a \in {"cancel", "clear", "page"} : \E l : proc' = Goto(a, l)
    <3>1. CASE CancelBatch
      BY <3>1 DEF CancelBatch
    <3>2. CASE CancelAndClear
      BY <3>2 DEF CancelAndClear
    <3>3. CASE Reopen
      BY <3>3 DEF Reopen
    <3> QED
      BY <1>3, <3>1, <3>2, <3>3
  <2>2. \A b \in Agents \ {a} : proc'[b] = proc[b]
    BY <1>1, <2>1, OthersStay
  <2> QED
    BY <2>2, AloneBegins
<1>4. ASSUME NEW S \in SUBSET Videos, EnqueueCatalog(S) PROVE NothingBegins(v)
  <2>1. At("queue") = "idle" /\ proc' = GotoLoop("queue", "offering", JobsFor(S, "catalog"))
    BY <1>4 DEF EnqueueCatalog, Unlocked
  <2>2. proc["queue"].saw = None
    BY <1>1, <2>1, AgentFacts DEF Updating
  <2>3. "offering" \in Loops /\ "catalog" \in JobLabels
    BY DEF Loops, JobLabels
  <2>4. JobsFor(S, "catalog") \in SUBSET Jobs
    BY <2>3, JobsForTyped
  <2> QED
    BY <1>1, <2>1, <2>2, <2>3, <2>4, GotoLoopBegins
<1>5. CASE Reload
  <2>1. proc'["queue"].pc = "idle" /\ proc'["pump"].pc = "idle"
    BY <1>1, <1>5 DEF Reload, Loading, Idle
  <2> QED
    BY <2>1, OthersBegin DEF Free
<1> QED
  BY <1>2, <1>3, <1>4, <1>5 DEF User, World

\* A download that meets an error.
LEMMA ErrsBegin ==
    ASSUME AgentsSound(proc), NEW outcomes, Errs(outcomes), NEW v
    PROVE  NothingBegins(v)
<1>1. PICK halts : proc' = [proc EXCEPT !["pump"] =
                               [proc["pump"] EXCEPT !.pc = "cleanup",
                                                    !.job = [proc["pump"].job EXCEPT !.halts = halts]]]
  BY DEF Errs
<1>2. "pump" \in Agents /\ proc["pump"] \in AgentRecords
  BY DEF Agents, AgentsSound
<1>3. proc'["pump"].pc = "cleanup" /\ \A b \in Agents \ {"pump"} : proc'[b] = proc[b]
  BY <1>1, <1>2 DEF AgentsSound, AgentRecords
<1>4. \A g \in Guarded : "cleanup" \notin g.at /\ g.agent \in Agents
  BY GuardedLabels
<1> QED
  BY <1>3, <1>4 DEF NothingBegins, On, At, Reel

\* The download goes on with its Reel.
LEMMA DownloadBegins ==
    ASSUME AgentsSound(proc), At("pump") \notin Free, At("pump") \notin Updating,
           NEW l \in Labels, proc' = Goto("pump", l), NEW v,
           \A g \in Guarded : g.agent = "pump" /\ l \in g.at /\ Reel("pump") = v
                              => At("pump") \in g.at
    PROVE  NothingBegins(v)
<1>1. "pump" \in Agents
  BY DEF Agents
<1>2. proc["pump"].saw = None /\ proc["pump"].job # None
  BY <1>1, AgentFacts
<1>3. \A g \in Guarded : g.agent = "pump" /\ l \in g.at /\ Reel("pump") = v => At("pump") \in g.at
  OBVIOUS
<1> QED
  BY <1>1, <1>2, <1>3, GotoBegins

\* A download is begun, committed or noted as failed only after a look at a record
\* that is no tombstone.
LEMMA PumpBegins ==
    ASSUME Inv, Pump, NEW v \in Videos, Viewed(v)
    PROVE  NothingBegins(v)
<1>1. AgentsSound(proc) /\ "pump" \in Agents /\ proc["pump"] \in AgentRecords
  BY DEF Inv, Agents, AgentsSound
<1>2. Tombstone(v)
  BY DEF Tombstone, Viewed
<1>3. CASE PumpPick
  <2>1. At("pump") = "pick"
    BY <1>3 DEF PumpPick
  <2>2. CASE proc' = Goto("pump", "ending")
    <3>1. proc["pump"].saw = None /\ "ending" \in Labels /\ "ending" \in Free
      BY <1>1, <2>1, AgentFacts DEF Updating, Labels, Free
    <3>2. \A g \in Guarded : "ending" \notin g.at
      BY <3>1, GuardedLabels
    <3> QED
      BY <1>1, <2>2, <3>1, <3>2, GotoBegins
  <2>3. ASSUME NEW w, proc' = [proc EXCEPT !["pump"] =
                                  [proc["pump"] EXCEPT !.pc = "get", !.job = Job(w, "get")]]
        PROVE  NothingBegins(v)
    <3>1. proc'["pump"].pc = "get" /\ \A b \in Agents \ {"pump"} : proc'[b] = proc[b]
      BY <1>1, <2>3 DEF AgentsSound, AgentRecords
    <3>2. "get" \in JobLabels
      BY DEF JobLabels
    <3> QED
      BY <3>1, <3>2, AloneBegins
  <2> QED
    BY <1>3, <2>2, <2>3 DEF PumpPick
<1>4. CASE PumpEnds
  <2>1. proc'["pump"].pc = "idle"
    BY <1>1, <1>4 DEF PumpEnds, Idle
  <2>2. proc'["queue"] = proc["queue"] \/ proc'["queue"].pc = "released"
    <3>1. "queue" \in Agents /\ proc["queue"] \in AgentRecords
      BY <1>1 DEF AgentsSound, Agents
    <3> QED
      BY <1>4, <3>1 DEF PumpEnds, AgentRecords
  <2> QED
    BY <2>1, <2>2, OthersBegin DEF Free
<1>5. CASE DownloadReads
  <2>1. At("pump") = "get" /\ At("pump") \notin Free /\ At("pump") \notin Updating
    BY <1>5 DEF DownloadReads, Free, Updating
  <2>2. PICK l \in GetNext(Reel("pump")) : proc' = Goto("pump", l)
    BY <1>5 DEF DownloadReads
  <2>3. l \in Labels
    BY <2>2 DEF GetNext, Space, Saved, Labels, Updating, Drops
  <2>4. Reel("pump") = v => l = "halt"
    BY <1>2, <2>2 DEF GetNext
  <2>5. \A g \in Guarded : "halt" \notin g.at
    BY GuardedLabels
  <2> QED
    BY <1>1, <2>1, <2>2, <2>3, <2>4, <2>5, DownloadBegins
<1>6. CASE PutFresh
  <2>1. At("pump") = "fresh" /\ At("pump") \notin Free /\ At("pump") \notin Updating
    BY <1>6 DEF PutFresh, Free, Updating
  <2>2. PICK l \in Space : proc' = Goto("pump", l)
    BY <1>6 DEF PutFresh
  <2>3. l \in Labels
    BY <2>2 DEF Space, Labels, Updating
  <2>4. \A g \in Guarded : l \in g.at => "fresh" \in g.at
    BY <2>2 DEF Guarded, Space
  <2> QED
    BY <1>1, <2>1, <2>2, <2>3, <2>4, DownloadBegins
<1>7. CASE Fetch \/ Validate
  <2>1. At("pump") \in {"fetch", "validate"} /\ At("pump") \notin Free
        /\ At("pump") \notin Updating
    BY <1>7 DEF Fetch, Validate, Free, Updating
  <2>2. (\E outcomes : Errs(outcomes)) \/ (\E l \in {"validate", "check"} : proc' = Goto("pump", l))
    <3>1. CASE Fetch
      BY <3>1 DEF Fetch
    <3>2. CASE Validate
      BY <3>2 DEF Validate
    <3> QED
      BY <1>7, <3>1, <3>2
  <2>3. \A g \in Guarded, l \in {"validate", "check"} : l \in g.at => At("pump") \in g.at
    BY <2>1 DEF Guarded
  <2>4. {"validate", "check"} \subseteq Labels
    BY DEF Labels
  <2> QED
    BY <1>1, <2>1, <2>2, <2>3, <2>4, DownloadBegins, ErrsBegin
<1>8. CASE BeforeCommit
  <2>1. At("pump") = "check" /\ At("pump") \notin Free /\ At("pump") \notin Updating
    BY <1>8 DEF BeforeCommit, Free, Updating
  <2>2. CASE Tombstone(Reel("pump"))
    BY <1>1, <1>8, <2>2, ErrsBegin DEF BeforeCommit
  <2>3. CASE ~ Tombstone(Reel("pump"))
    <3>1. proc' = Goto("pump", "commit") /\ Reel("pump") # v
      BY <1>2, <1>8, <2>3 DEF BeforeCommit
    <3>2. "commit" \in Labels
      BY DEF Labels, Updating
    <3> QED
      BY <1>1, <2>1, <3>1, <3>2, DownloadBegins
  <2> QED
    BY <2>2, <2>3
<1>9. CASE LookAgain
  <2>1. At("pump") = "look" /\ At("pump") \notin Free /\ At("pump") \notin Updating
    BY <1>9 DEF LookAgain, Free, Updating
  <2>2. PICK l \in {"fail", "halt", "over"} :
             proc' = Goto("pump", l) /\ (l = "fail" => ~ Tombstone(Reel("pump")))
    BY <1>9 DEF LookAgain
  <2>3. l \in Labels /\ (Reel("pump") = v => l \in {"halt", "over"})
    BY <1>2, <2>2 DEF Labels, Updating
  <2>4. \A g \in Guarded : "halt" \notin g.at /\ "over" \notin g.at
    BY GuardedLabels
  <2> QED
    BY <1>1, <2>1, <2>2, <2>3, <2>4, DownloadBegins
<1>10. CASE Forget
  <2>1. At("pump") = "forget" /\ At("pump") \notin Free /\ At("pump") \notin Updating
        /\ proc' = Goto("pump", "over")
    BY <1>10 DEF Forget, Free, Updating
  <2>2. "over" \in Labels /\ \A g \in Guarded : "over" \notin g.at
    BY GuardedLabels DEF Labels
  <2> QED
    BY <1>1, <2>1, <2>2, DownloadBegins
<1>11. CASE DownloadOver
  <2>1. proc'["pump"].pc \in {"ending", "pick"} /\ \A b \in Agents \ {"pump"} : proc'[b] = proc[b]
    BY <1>1, <1>11 DEF DownloadOver, AgentsSound, Idle
  <2>2. {"ending", "pick"} \subseteq Free
    BY DEF Free
  <2> QED
    BY <2>1, <2>2, AloneBegins
<1> QED
  BY <1>3, <1>4, <1>5, <1>6, <1>7, <1>8, <1>9, <1>10, <1>11 DEF Pump

\* No step begins anything with a viewed Reel.
LEMMA StepBegins ==
    ASSUME Inv, Next, NEW v \in Videos, Viewed(v)
    PROVE  NothingBegins(v)
<1>1. ASSUME NEW a \in Agents, Step(a) PROVE NothingBegins(v)
  BY <1>1, UpdateBegins, DropBegins, ReconcileBegins, AsideBegins, QueueBegins, PumpBegins DEF Step
<1>2. CASE User \/ World
  BY <1>2, OutsideBegins
<1> QED
  BY <1>1, <1>2 DEF Next

\* From the moment a Reel is viewed no agent begins to queue it, to download it, to
\* commit its download or to note its failure; what had looked before the view may
\* go on.  The tombstone is lost only to a put of what an update read before the
\* view, to a fresh record put by a call or a download that had found none, and to
\* a cancellation, which deletes the record whatever it says.
THEOREM TombstonesHold == Spec => TombstoneHolds
<1> DEFINE Holds(v) ==
             Viewed(v) =>
               /\ Viewed(v)' \/ StaleWrite(v) \/ LatePut(v) \/ Cancelled(v)
               /\ \A g \in Guarded : On(g.agent, g.at, v)' => On(g.agent, g.at, v)
<1>1. Inv /\ [Next]_vars => [\A v \in Videos : Holds(v)]_vars
  <2> SUFFICES ASSUME Inv, Next, NEW v \in Videos, Viewed(v) PROVE Holds(v)
    OBVIOUS
  <2> QED
    BY StepTombstone, StepBegins DEF Lost, NothingBegins
<1> QED
  BY <1>1, Invariance, PTL DEF Spec, TombstoneHolds
=============================================================================
