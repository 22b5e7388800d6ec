------------------------------ MODULE ReelLife ------------------------------
(***************************************************************************)
(* What the normalizer promises about a Reel, without jobs, leases, workers*)
(* and objects: a committed Reel waits in a queue, is taken at most        *)
(* MaxAttempts times per commit, and is shown once, with a Video row of    *)
(* its own, or given up.  The statuses are those of ReelPipelineStatus     *)
(* (apps/api/app/instagram/contracts.py), the moves those of               *)
(* REEL_PIPELINE_TRANSITIONS (transitions.py) that this side makes.        *)
(***************************************************************************)
EXTENDS Naturals

CONSTANTS Reels, Keys, MaxAttempts, None

VARIABLES
    state,  \* where a Reel is
    takes,  \* how often it was taken since it was last committed
    shown   \* the Video row it is shown with

States == {"discovered", "source_ready", "normalizing", "ready", "failed"}

lifeVars == <<state, takes, shown>>

LifeInit ==
    /\ state = [r \in Reels |-> "discovered"]
    /\ takes = [r \in Reels |-> 0]
    /\ shown = [r \in Reels |-> None]

\* A new Reel, or one that was given up, is collected.
Commit(r) ==
    /\ state[r] \in {"discovered", "failed"}
    /\ state' = [state EXCEPT ![r] = "source_ready"]
    /\ takes' = [takes EXCEPT ![r] = 0]
    /\ UNCHANGED shown

Take(r) ==
    /\ state[r] = "source_ready"
    /\ takes[r] < MaxAttempts
    /\ state' = [state EXCEPT ![r] = "normalizing"]
    /\ takes' = [takes EXCEPT ![r] = takes[r] + 1]
    /\ UNCHANGED shown

Show(r, k) ==
    /\ state[r] = "normalizing"
    /\ \A other \in Reels : shown[other] # k
    /\ state' = [state EXCEPT ![r] = "ready"]
    /\ shown' = [shown EXCEPT ![r] = k]
    /\ UNCHANGED takes

\* A Reel leaves its worker without a video: it goes back to the queue while it
\* has takes left, or is given up.
Leaves(r, to) ==
    /\ state[r] = "normalizing"
    /\ \/ to = "source_ready" /\ takes[r] < MaxAttempts
       \/ to = "failed"

\* One Reel is given back by its worker, or many by a recovery.
GiveBack(after) ==
    /\ state' = after
    /\ \A r \in Reels : after[r] = state[r] \/ Leaves(r, after[r])
    /\ UNCHANGED <<takes, shown>>

LifeNext ==
    \/ \E r \in Reels : Commit(r) \/ Take(r) \/ \E k \in Keys : Show(r, k)
    \/ \E after \in [Reels -> States] : GiveBack(after)

LifeSpec == LifeInit /\ [][LifeNext]_lifeVars
=============================================================================
