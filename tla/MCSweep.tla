------------------------------- MODULE MCSweep -------------------------------
(* The background sweep over the queue (JobQueue) and the run of one job     *)
(* (Checkpoints).  They share no state here, so TLC explores one at a time:   *)
(* focus says which.                                                        *)
EXTENDS MCJobQueue, Checkpoints

MCWeakness == strong :> 1 @@ weak :> 2

VARIABLE focus

SweepInit == Init /\ CheckpointInit /\ focus \in {"queue", "run"}

\* Bound: the session asks for more, or the prompts change.
OneChange == Len(segments') = 1 \/ stages' = 1

\* Only the queue may never stop: the run does at its bounds.
SweepNext ==
    /\ \/ focus = "queue" /\ Next /\ UNCHANGED checkpointVars
       \/ focus = "run"   /\ CheckpointNext /\ OneChange /\ UNCHANGED vars
       \/ focus = "run"   /\ UNCHANGED <<vars, checkpointVars>>
    /\ UNCHANGED focus

SweepSpec == SweepInit /\ [][SweepNext]_<<vars, checkpointVars, focus>>
=============================================================================
