--------------------------- MODULE ProjectAliases ---------------------------
(***************************************************************************)
(* project_alias: where the names of merged projects lead.  The table is   *)
(* kept one step deep, so that resolving a name is one look-up; every      *)
(* merge re-points the aliases of the project that goes away.              *)
(***************************************************************************)
CONSTANTS
    Slugs,      \* project names
    Unmerged    \* no alias

ASSUME UnmergedAssumption == Unmerged \notin Slugs

VARIABLE alias  \* the slug a merged name leads to

NoAliases == alias = [p \in Slugs |-> Unmerged]

Resolve(p) == IF alias[p] = Unmerged THEN p ELSE alias[p]

(* What a merge into a name means: into the project the name leads to, or, *)
(* when that is the project being merged, back under the old name.         *)
MergeTarget(source, name) == IF Resolve(name) = source THEN name ELSE Resolve(name)

RedirectWithoutRepointing(source, target) ==
    alias' = [p \in Slugs |-> IF p = source THEN target
                              ELSE IF p = target THEN Unmerged
                              ELSE alias[p]]

Redirect(source, target) ==
    alias' = [p \in Slugs |-> IF p = source THEN target
                              ELSE IF p = target THEN Unmerged
                              ELSE IF alias[p] = source THEN target
                              ELSE alias[p]]

Forgotten(slug) ==
    alias' = [p \in Slugs |-> IF alias[p] = slug THEN Unmerged ELSE alias[p]]

-----------------------------------------------------------------------------
AliasType == alias \in [Slugs -> Slugs \cup {Unmerged}]

(* A merged name leads, in one step, to a name that is not merged itself:  *)
(* resolve() looks once (ProjectService.resolve), so an alias to an alias  *)
(* would lead to a project that is gone.                                   *)
AliasesFlat == \A p \in Slugs : alias[p] # Unmerged => alias[alias[p]] = Unmerged
=============================================================================
