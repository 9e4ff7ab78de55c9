------------------------------- MODULE MCLease -------------------------------
(* Requests that cross: claims of sessions (JobQueue), claims of projects'   *)
(* pages (Overviews), activations of prompts (Prompts), a hook and an         *)
(* importer of one session (Import).  They share no state here, so TLC        *)
(* explores one at a time: focus says which.                                *)
EXTENDS MCJobQueue, Overviews, Prompts, Import

CONSTANTS a, b

MCPartOf == {<<a, b>>}

VARIABLE focus

leaseParts == <<vars, overviewVars, promptVars, importVars>>

LeaseInit ==
    /\ Init /\ OverviewInit /\ PromptInit /\ ImportInit
    /\ focus \in {"queue", "pages", "prompts", "import"}
    /\ focus # "pages"   => logs = [p \in Topics |-> {}] /\ parts = {}
    /\ focus # "prompts" => defaults = CHOOSE text \in PromptTexts : TRUE

\* Bound: no session is quiet beyond the retention.
Young == \A s \in Sessions : job'[s].age < 2

\* Only the queue may never stop: the others do at their bounds.
LeaseNext ==
    /\ \/ /\ focus = "queue" /\ Next /\ Young
          /\ UNCHANGED <<overviewVars, promptVars, importVars>>
       \/ /\ focus = "pages" /\ OverviewNext
          /\ UNCHANGED <<vars, promptVars, importVars>>
       \/ /\ focus = "prompts" /\ PromptNext
          /\ UNCHANGED <<vars, overviewVars, importVars>>
       \/ /\ focus = "import" /\ ImportNext
          /\ UNCHANGED <<vars, overviewVars, promptVars>>
       \/ focus # "queue" /\ UNCHANGED leaseParts
    /\ UNCHANGED focus

LeaseSpec == LeaseInit /\ [][LeaseNext]_<<leaseParts, focus>>
=============================================================================
