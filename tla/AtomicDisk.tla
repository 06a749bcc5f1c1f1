----------------------------- MODULE AtomicDisk -----------------------------
(***************************************************************************)
(* What kernel/sector_tx.c promises its client: a set of sectors updated   *)
(* all at once.  `outcomes' is the set of whole images that recovery may   *)
(* still produce: one image, or two while a commit is undecided, or none   *)
(* when a damaged journal makes recovery withhold the volume.              *)
(***************************************************************************)
CONSTANTS Targets, Data

VARIABLES
    outcomes,   \* images recovery may produce now
    staged,     \* the image the open transaction builds
    committing  \* the commit has begun

Images == [Targets -> Data]

Init ==
    /\ \E img \in Images : outcomes = {img} /\ staged = img
    /\ committing = FALSE

\* Nothing a transaction writes can be seen after a failure.
Stage(l, v) ==
    /\ ~committing
    /\ staged' = [staged EXCEPT ![l] = v]
    /\ UNCHANGED <<outcomes, committing>>

StartCommit ==
    /\ ~committing /\ committing' = TRUE
    /\ UNCHANGED <<outcomes, staged>>

\* From here on the whole new image may be what recovery finds.
Publish ==
    /\ committing
    /\ outcomes' = outcomes \cup {staged}
    /\ UNCHANGED <<staged, committing>>

\* Some of the outcomes are decided for good: commit, abort or power loss.
Settle ==
    /\ outcomes' \subseteq outcomes
    /\ outcomes' # {} => staged' \in outcomes'
    /\ committing' = FALSE

Next ==
    \/ \E l \in Targets, v \in Data : Stage(l, v)
    \/ StartCommit \/ Publish \/ Settle

Spec == Init /\ [][Next]_<<outcomes, staged, committing>>
=============================================================================
