----------------------------- MODULE MCServices -----------------------------
(* The worker and what stands around it: its slots and seats (Worker), how   *)
(* it files a note under projects (Splitting), the runner of commands over   *)
(* files (Sandbox), and who may sign in (SignIn).  They share no state, so TLC  *)
(* explores one at a time: focus says which.                                *)
EXTENDS MCWorker, Splitting, Sandbox, SignIn, TLC

CONSTANTS q, r, b1, b2

Line(kind, o) == [kind |-> kind, of |-> o]

\* Texts that no path decides, and texts for r or q.
MCTexts ==
    {[lines |-> <<>>, short |-> s] : s \in BOOLEAN} \cup
    {[lines |-> <<Line("edit", q)>>, short |-> TRUE],
     [lines |-> <<Line("edit", r), Line("plain", r)>>, short |-> FALSE],
     [lines |-> <<Line("edit", q), Line("plain", r), Line("plain", r)>>, short |-> TRUE],
     [lines |-> <<Line("active", r)>>, short |-> TRUE]}

\* Two browsers at two addresses.
MCIpOf == b1 :> 1 @@ b2 :> 2

VARIABLE focus

ServicesInit ==
    /\ Init /\ SplittingInit /\ SandboxInit /\ SignInInit
    /\ focus \in {"worker", "split", "sandbox", "signin"}
    /\ focus # "split" => /\ entry = [o \in Owners |-> "whole"]
                          /\ session = <<[lines |-> <<>>, short |-> TRUE]>>

\* Bound: a seat moves from big to small, and back only at a restart.
SeatsMoveOnce == cached[small] = 1 => cached'[big] < 2

\* Only the worker may never stop: the others do at their bounds.
ServicesNext ==
    /\ \/ focus = "worker" /\ Next /\ SeatsMoveOnce
          /\ UNCHANGED <<splittingVars, sandboxVars, signInVars>>
       \/ focus = "split"   /\ SplittingNext
          /\ UNCHANGED <<vars, sandboxVars, signInVars>>
       \/ focus = "sandbox" /\ SandboxNext
          /\ UNCHANGED <<vars, splittingVars, signInVars>>
       \/ focus = "signin"  /\ SignInNext
          /\ UNCHANGED <<vars, splittingVars, sandboxVars>>
       \/ focus # "worker"
          /\ UNCHANGED <<vars, splittingVars, sandboxVars, signInVars>>
    /\ UNCHANGED focus

ServicesSpec ==
    ServicesInit /\ [][ServicesNext]_<<vars, splittingVars, sandboxVars, signInVars, focus>>
=============================================================================
