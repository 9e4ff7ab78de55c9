------------------------------- MODULE MCLive -------------------------------
(* What must eventually happen around the worker: its slots (Worker), and    *)
(* the pages that the sweep asks for (Overviews).  They share no state, so   *)
(* TLC explores one at a time: focus says which.                            *)
EXTENDS MCWorker, Overviews

CONSTANTS a, b

MCPartOf == {<<a, b>>}

VARIABLE focus

LiveInit ==
    /\ Init /\ OverviewInit
    /\ focus \in {"worker", "pages"}
    /\ focus = "worker" => logs = [p \in Topics |-> {}] /\ parts = {}

\* The worker is stopped before the pages are looked at, so that its fairness
\* asks for nothing.
LiveNext ==
    /\ \/ focus = "worker" /\ Next /\ UNCHANGED overviewVars
       \/ focus = "pages"  /\ Stop /\ UNCHANGED overviewVars
       \/ focus = "pages"  /\ life = "stopping" /\ OverviewNext /\ UNCHANGED vars
    /\ UNCHANGED focus

LiveSpec ==
    LiveInit /\ [][LiveNext]_<<vars, overviewVars, focus>> /\ Fairness /\ OverviewFairness
=============================================================================
