----------------------------- MODULE MCProjects -----------------------------
(* Projects that are merged, renamed and reset: their links               *)
(* (ProjectLinks), their memory files (MemoryMerge), the notes of a session  *)
(* (NoteFiling), all files of a wiki (Reset).  TLC explores one at a time:   *)
(* the links between the projects in focus or, when that is empty, what part *)
(* names.                                                                  *)
EXTENDS MCProjectLinks, MemoryMerge, NoteFiling, Reset

CONSTANTS x, y, g1, g2, g3

PairsOrNone == Pairs \cup {{}}

\* Devices delete the file or make it say x.
MCSynced == {{}, {x}}

\* Two projects have the memory file, each its own.
TwoFiles ==
    \E p, q \in Slugs : p # q /\ file = [r \in Slugs |-> IF r = p THEN {x} ELSE IF r = q THEN {y} ELSE {}]

\* Projects, and projects kept in others.
MCShelves == {<<g1>>, <<g2>>, <<g1, g2>>, <<g3, g2>>, <<g1, g3, g2>>}

\* At most three files.
MCFirstFiles == {{}} \cup {{p, q, r} : p, q, r \in Place}

VARIABLE part

memoryOnly == <<file, merge, worker, absorbing, merges, syncs, owed, crossed>>

ProjectsInit ==
    /\ LinksInit /\ MemoryInit /\ FilingInit /\ ResetInit
    /\ part \in {"links", "memory", "notes", "reset"}
    /\ part = "links" <=> focus # {}
    /\ IF part = "memory" THEN TwoFiles ELSE file = [p \in Slugs |-> {}]
    /\ filedUnder = g1
    /\ part # "reset" => held = {}

\* Bound: projects are merged twice, or once while a device syncs.
TwiceOrSynced == merges' < 2 \/ syncs' = 0

\* Only links and memory never stop: the notes do at their bound, a reset ends.
ProjectsNext ==
    /\ \/ part = "links"  /\ LinksNext  /\ UNCHANGED <<memoryOnly, filingVars, resetVars>>
       \/ part = "memory" /\ MemoryNext /\ TwiceOrSynced
          /\ UNCHANGED <<links, judging, saving, focus, filingVars, resetVars>>
       \/ part = "notes"  /\ FilingNext /\ UNCHANGED <<vars, memoryOnly, focus, resetVars>>
       \/ part = "reset"  /\ ResetNext  /\ UNCHANGED <<vars, memoryOnly, focus, filingVars>>
       \/ part \in {"notes", "reset"} /\ UNCHANGED <<memoryVars, vars, focus, filingVars, resetVars>>
    /\ UNCHANGED part

ProjectsSpec == ProjectsInit /\ [][ProjectsNext]_<<memoryVars, vars, focus, filingVars, resetVars, part>>

Interchangeable == Permutations(Slugs) \cup Permutations(Workers)
=============================================================================
