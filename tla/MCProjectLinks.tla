--------------------------- MODULE MCProjectLinks ---------------------------
(* Instances of ProjectLinks for TLC.  Links are explored between the      *)
(* projects in focus.                                                      *)
EXTENDS ProjectLinks, TLC

CONSTANT Foci       \* bound: what may be in focus

Check       == {"check"}
AllProjects == {Slugs}
Pairs       == {pair \in SUBSET Slugs : Cardinality(pair) = 2}

VARIABLE focus

LinksInit == Init /\ focus \in Foci

\* The projects outside focus have no links and are not merged.
Between(projects) ==
    /\ \A i \in Held(links') : Ends(links'[i]) \subseteq projects
    /\ \A pair \in judging' : pair \subseteq projects
    /\ \A s \in saving' : Ends(s.wanted) \subseteq projects
    /\ \A p \in Slugs \ projects : alias'[p] = Unmerged
    /\ \A p \in projects : alias'[p] \in projects \cup {Unmerged}

LinksNext == Next /\ Between(focus) /\ UNCHANGED focus

LinksSpec == LinksInit /\ [][LinksNext]_<<vars, focus>>

Symmetry == Permutations(Slugs) \cup Permutations(Ids)
=============================================================================
