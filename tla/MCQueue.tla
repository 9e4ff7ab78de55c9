------------------------------- MODULE MCQueue -------------------------------
(* The queue as it must drain (JobQueue), and the keys that hooks and workers  *)
(* show to use it (ApiKeys).  They share no state here, so TLC explores one    *)
(* at a time: focus says which.                                             *)
EXTENDS MCJobQueue, ApiKeys

VARIABLE focus

QueueInit == Init /\ KeyInit /\ focus \in {"queue", "keys"}

\* Before the first Stop the queue's fairness asks for nothing.
QueueNext ==
    /\ \/ focus = "queue" /\ Next /\ UNCHANGED keyVars
       \/ focus = "keys"  /\ KeyNext /\ UNCHANGED vars
       \/ focus = "keys"  /\ UNCHANGED <<vars, keyVars>>
    /\ UNCHANGED focus

QueueSpec == QueueInit /\ [][QueueNext]_<<vars, keyVars, focus>> /\ Fairness
=============================================================================
