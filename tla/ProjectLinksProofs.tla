------------------------- MODULE ProjectLinksProofs -------------------------
(***************************************************************************)
(* Theorems about ProjectLinks: aliases stay flat whatever is merged into  *)
(* whatever, and, as long as nobody gets between the check and the save of *)
(* a writer, two projects have one link and part_of has no cycle.          *)
(***************************************************************************)
EXTENDS ProjectLinks, TLAPS

(* Aliases.                                                                *)

LEMMA ResolveType ==
    ASSUME AliasType, NEW p \in Slugs
    PROVE  Resolve(p) \in Slugs
  BY UnmergedAssumption DEF AliasType, Resolve

LEMMA ResolvedIsLive ==
    ASSUME AliasType, AliasesFlat, NEW p \in Slugs
    PROVE  alias[Resolve(p)] = Unmerged
  BY DEF AliasType, AliasesFlat, Resolve

LEMMA MergeTargetType ==
    ASSUME AliasType, NEW source, NEW p \in Slugs
    PROVE  MergeTarget(source, p) \in Slugs
  BY ResolveType DEF MergeTarget

LEMMA RedirectType ==
    ASSUME AliasType, NEW source \in Slugs, NEW target \in Slugs, Redirect(source, target)
    PROVE  AliasType'
  BY DEF AliasType, Redirect

LEMMA RedirectFlat ==
    ASSUME AliasType, AliasesFlat, NEW source \in Slugs, NEW target \in Slugs,
           source # target, Redirect(source, target)
    PROVE  AliasesFlat'
  <1> SUFFICES ASSUME NEW p \in Slugs, alias'[p] # Unmerged
               PROVE  alias'[alias'[p]] = Unmerged
    BY DEF AliasesFlat
  <1>1. alias'[target] = Unmerged
    BY DEF Redirect
  <1>2. CASE p = source \/ alias[p] = source
    BY <1>1, <1>2 DEF Redirect
  <1>3. CASE p # source /\ alias[p] # source
    <2>1. alias'[p] = alias[p] /\ alias[p] # Unmerged
      BY <1>3 DEF Redirect
    <2>2. alias[p] \in Slugs /\ alias[alias[p]] = Unmerged
      BY <2>1 DEF AliasType, AliasesFlat
    <2> QED BY <1>3, <2>1, <2>2, UnmergedAssumption DEF Redirect
  <1> QED BY <1>2, <1>3

LEMMA ForgottenKeeps ==
    ASSUME AliasType, NEW slug \in Slugs, Forgotten(slug)
    PROVE  AliasType' /\ (AliasesFlat => AliasesFlat')
  BY UnmergedAssumption DEF AliasType, AliasesFlat, Forgotten

(* Rows.                                                                   *)

LEMMA ChangedType ==
    ASSUME NEW now \in Link, NEW loaded, NEW wanted \in Link
    PROVE  Changed(now, loaded, wanted) \in Link
  BY DEF Changed, Column, Link

Write == [id: Ids \cup {NoLink}, loaded: Rows, wanted: Link]

LEMMA StoresType ==
    ASSUME links \in [Ids -> Rows], NEW w \in Write
    PROVE  Stores(w) \subseteq [Ids -> Rows]
  <1>1. w.wanted \in Link /\ w.id \in Ids \cup {NoLink}
    BY DEF Write
  <1>2. CASE w.id = NoLink
    BY <1>1, <1>2 DEF Stores, Rows
  <1>3. CASE w.id # NoLink
    <2>1. \A i \in Held(links) : Changed(links[i], w.loaded, w.wanted) \in Link
      BY <1>1, ChangedType DEF Held, Rows
    <2> QED BY <1>3, <2>1 DEF Stores, Rows, Held
  <1> QED BY <1>2, <1>3

LEMMA SubmitType ==
    ASSUME TypeOK, NEW w \in Write, Submit(w)
    PROVE  links' \in [Ids -> Rows] /\ saving' \in SUBSET Write
  BY StoresType DEF Submit, TypeOK, Write

LEMMA UpsertsType ==
    ASSUME TypeOK, NEW link \in Link
    PROVE  Upserts(link) \subseteq Write
  <1>1. Insert(link) \in Write
    BY DEF Insert, Write, Rows
  <1>2. \A i \in Ids : Update(i, link) \in Write
    BY DEF Update, Write, Rows, TypeOK
  <1> QED BY <1>1, <1>2 DEF Upserts, OfPair, Held

LEMMA SettledType ==
    ASSUME NEW table, NEW kind \in Kinds, NEW a, NEW b
    PROVE  Settled(table, kind, a, b) \in Kinds
  BY DEF Settled, Kinds

LEMMA JudgedKindType ==
    ASSUME NEW a, NEW b, NEW verdict \in Kinds \cup {"unrelated"}
    PROVE  JudgedKind(a, b, verdict) \in Kinds
  BY SettledType DEF JudgedKind, Kinds

LEMMA CarriedType ==
    ASSUME links \in [Ids -> Rows], NEW source \in Slugs, NEW target \in Slugs
    PROVE  Carried(source, target) \subseteq [Ids -> Rows]
  <1> SUFFICES ASSUME NEW kept \in Movable(source, target),
                      NEW gone \in Demotions(Relinked(kept, source, target), target)
               PROVE  Demoted(Relinked(kept, source, target), gone) \in [Ids -> Rows]
    BY DEF Carried
  <1> DEFINE table == Relinked(kept, source, target)
  <1>1. table \in [Ids -> Rows]
    <2>1. \A i \in Around(links, source) : Moved(links[i], source, target) \in Link
      BY DEF Around, Held, Moved, Rows, Link
    <2> QED BY <2>1 DEF Relinked, Rows
  <1>2. \A i \in gone : i \in Ids /\ table[i] \in Link
    BY <1>1 DEF Demotions, Around, Held, Rows
  <1>3. \A i \in gone : [table[i] EXCEPT !.kind = "related"] \in Link
    BY <1>2 DEF Link, Kinds
  <1> HIDE DEF table
  <1> QED BY <1>1, <1>3 DEF Demoted, Rows, table

(* ProjectLinks is type correct: what a save that came late writes is a    *)
(* row, whichever columns it mixes (ProjectLink, backend/models.py).       *)
THEOREM LinksTypeCorrect == Spec => []TypeOK
<1>1. Init => TypeOK
  BY DEF Init, NoAliases, TypeOK, AliasType, Rows
<1>2. TypeOK /\ [Next]_vars => TypeOK'
  <2> SUFFICES ASSUME TypeOK, [Next]_vars PROVE TypeOK'
    OBVIOUS
  <2> USE DEF TypeOK
  <2>1. ASSUME NEW a \in Slugs, NEW b \in Slugs, NEW kind \in Kinds, NEW confirmed \in BOOLEAN,
               WriteLink(a, b, kind, confirmed)
        PROVE  TypeOK'
    <3> DEFINE link == [kind |-> kind, source |-> Resolve(a), target |-> Resolve(b),
                        confirmed |-> confirmed, unrelated |-> FALSE]
    <3>1. link \in Link
      BY ResolveType DEF Link
    <3>2. PICK w \in Upserts(link) : Submit(w)
      BY <2>1 DEF WriteLink
    <3>3. w \in Write
      BY <3>1, <3>2, UpsertsType
    <3> QED BY <2>1, <3>2, <3>3, SubmitType DEF WriteLink, Write, AliasType
  <2>2. ASSUME NEW a \in Slugs, NEW b \in Slugs, NEW kind \in Kinds, AbsorbLink(a, b, kind)
        PROVE  TypeOK'
    <3> DEFINE link == [kind |-> Settled(links, kind, Resolve(a), Resolve(b)), source |-> Resolve(a),
                        target |-> Resolve(b), confirmed |-> FALSE, unrelated |-> FALSE]
    <3>1. link \in Link
      BY ResolveType, SettledType DEF Link
    <3>2. Insert(link) \in Write
      BY <3>1 DEF Insert, Write, Rows
    <3>3. Submit(Insert(link))
      BY <2>2 DEF AbsorbLink
    <3> QED BY <2>2, <3>2, <3>3, SubmitType DEF AbsorbLink, Write, AliasType
  <2>3. ASSUME NEW a \in Slugs, NEW b \in Slugs, SweepLinks(a, b)
        PROVE  TypeOK'
    BY <2>3, ResolveType DEF SweepLinks, AliasType
  <2>4. ASSUME NEW a \in Slugs, NEW b \in Slugs, NEW verdict \in Kinds \cup {"unrelated"},
               Judged(a, b, verdict)
        PROVE  TypeOK'
    <3> DEFINE link == [kind |-> JudgedKind(a, b, verdict), source |-> a, target |-> b,
                        confirmed |-> FALSE, unrelated |-> verdict = "unrelated"]
    <3>1. link \in Link
      BY JudgedKindType DEF Link
    <3>2. CASE UNCHANGED <<links, saving>>
      BY <2>4, <3>2 DEF Judged, AliasType
    <3>3. CASE \E w \in Upserts(link) : Submit(w)
      <4>1. PICK w \in Upserts(link) : Submit(w)
        BY <3>3
      <4>2. w \in Write
        BY <3>1, <4>1, UpsertsType
      <4> QED BY <2>4, <4>1, <4>2, SubmitType DEF Judged, Write, AliasType
    <3> QED BY <2>4, <3>2, <3>3 DEF Judged
  <2>5. ASSUME NEW a \in Slugs, NEW b \in Slugs, NEW reverse \in BOOLEAN, ConfirmLink(a, b, reverse)
        PROVE  TypeOK'
    <3>1. PICK i \in OfPair(links, Resolve(a), Resolve(b)) :
            \E link \in Link : Submit(Update(i, link))
      <4>1. \A i \in OfPair(links, Resolve(a), Resolve(b)) : links[i] \in Link
        BY DEF OfPair, Held, Rows
      <4> QED BY <2>5, <4>1 DEF ConfirmLink, Link
    <3>2. \A link \in Link : Update(i, link) \in Write
      BY DEF Update, Write, Rows, OfPair, Held
    <3> QED BY <2>5, <3>1, <3>2, SubmitType DEF ConfirmLink, Write, AliasType
  <2>6. ASSUME NEW a \in Slugs, NEW b \in Slugs, DropLink(a, b)
        PROVE  TypeOK'
    BY <2>6 DEF DropLink, Rows, AliasType
  <2>7. ASSUME NEW a \in Slugs, NEW b \in Slugs, Merge(a, b)
        PROVE  TypeOK'
    BY <2>7, ResolveType, MergeTargetType, RedirectType, CarriedType DEF Merge, PairsWithout
  <2>8. ASSUME NEW a \in Slugs, NEW b \in Slugs, NEW reverse \in BOOLEAN, ApplySame(a, b, reverse)
        PROVE  TypeOK'
    <3>1. PICK source \in Slugs, target \in Slugs :
            /\ Redirect(source, target)
            /\ judging' = PairsWithout(source)
            /\ \E i \in Ids, table \in Carried(source, target) : links' = [table EXCEPT ![i] = NoLink]
            /\ UNCHANGED saving
      <4>1. PICK i \in OfPair(links, Resolve(a), Resolve(b)) :
              LET held   == IF reverse THEN links[i].target ELSE links[i].source
                  holder == IF reverse THEN links[i].source ELSE links[i].target
                  source == Resolve(held)
                  target == MergeTarget(source, holder)
              IN  /\ Redirect(source, target)
                  /\ judging' = PairsWithout(source)
                  /\ \E table \in Carried(source, target) : links' = [table EXCEPT ![i] = NoLink]
                  /\ UNCHANGED saving
        BY <2>8 DEF ApplySame
      <4>2. i \in Ids /\ links[i].source \in Slugs /\ links[i].target \in Slugs
        BY DEF OfPair, Held, Rows, Link
      <4> QED BY <4>1, <4>2, ResolveType, MergeTargetType
    <3> QED BY <3>1, RedirectType, CarriedType DEF PairsWithout, Rows
  <2>9. ASSUME NEW a \in Slugs, DeleteProject(a)
        PROVE  TypeOK'
    BY <2>9, ResolveType, ForgottenKeeps DEF DeleteProject, PairsWithout, Rows
  <2>10. ASSUME NEW w \in saving, Save(w)
         PROVE  TypeOK'
    BY <2>10, StoresType DEF Save, Write, AliasType
  <2>11. CASE UNCHANGED vars
    BY <2>11 DEF vars, AliasType
  <2> QED BY <2>1, <2>2, <2>3, <2>4, <2>5, <2>6, <2>7, <2>8, <2>9, <2>10, <2>11
          DEF Next, OwnerWrites, WorkerWrites
<1> QED BY <1>1, <1>2, PTL DEF Spec

(* A merged name always leads, in one step, to a name that is not merged,  *)
(* with every window open (ProjectAliasRepository.redirect).               *)
THEOREM AliasesStayFlat == Spec => []AliasesFlat
<1>1. Init => AliasesFlat
  BY DEF Init, NoAliases, AliasesFlat
<1>2. TypeOK /\ AliasesFlat /\ [Next]_vars => AliasesFlat'
  <2> SUFFICES ASSUME TypeOK, AliasesFlat, [Next]_vars PROVE AliasesFlat'
    OBVIOUS
  <2>1. AliasType
    BY DEF TypeOK
  <2>2. ASSUME UNCHANGED alias PROVE AliasesFlat'
    BY <2>2 DEF AliasesFlat
  <2>3. ASSUME NEW a \in Slugs, NEW b \in Slugs, Merge(a, b) PROVE AliasesFlat'
    BY <2>1, <2>3, ResolveType, MergeTargetType, RedirectFlat DEF Merge
  <2>4. ASSUME NEW a \in Slugs, NEW b \in Slugs, NEW reverse \in BOOLEAN, ApplySame(a, b, reverse)
        PROVE  AliasesFlat'
    <3>1. \A i \in Held(links) : links[i].source \in Slugs /\ links[i].target \in Slugs
      BY DEF TypeOK, Held, Rows, Link
    <3>2. PICK held \in Slugs, holder \in Slugs :
            /\ Resolve(held) # MergeTarget(Resolve(held), holder)
            /\ Redirect(Resolve(held), MergeTarget(Resolve(held), holder))
      BY <2>4, <3>1 DEF ApplySame, OfPair
    <3> QED BY <2>1, <3>2, ResolveType, MergeTargetType, RedirectFlat
  <2>5. ASSUME NEW a \in Slugs, DeleteProject(a) PROVE AliasesFlat'
    BY <2>1, <2>5, ResolveType, ForgottenKeeps DEF DeleteProject
  <2>6. ASSUME NEW a \in Slugs, NEW b \in Slugs, NEW kind \in Kinds, NEW confirmed \in BOOLEAN,
               WriteLink(a, b, kind, confirmed)
        PROVE  AliasesFlat'
    BY <2>2, <2>6 DEF WriteLink
  <2>7. ASSUME NEW a \in Slugs, NEW b \in Slugs, NEW kind \in Kinds, AbsorbLink(a, b, kind)
        PROVE  AliasesFlat'
    BY <2>2, <2>7 DEF AbsorbLink
  <2>8. ASSUME NEW a \in Slugs, NEW b \in Slugs, NEW reverse \in BOOLEAN, ConfirmLink(a, b, reverse)
        PROVE  AliasesFlat'
    BY <2>2, <2>8 DEF ConfirmLink
  <2>9. ASSUME NEW a \in Slugs, NEW b \in Slugs,
               SweepLinks(a, b) \/ DropLink(a, b) \/ \E v \in Kinds \cup {"unrelated"} : Judged(a, b, v)
        PROVE  AliasesFlat'
    BY <2>2, <2>9 DEF SweepLinks, DropLink, Judged
  <2>10. ASSUME NEW w \in saving, Save(w) PROVE AliasesFlat'
    BY <2>2, <2>10 DEF Save
  <2>11. CASE UNCHANGED vars
    BY <2>2, <2>11 DEF vars
  <2> QED BY <2>3, <2>4, <2>5, <2>6, <2>7, <2>8, <2>9, <2>10, <2>11
          DEF Next, OwnerWrites, WorkerWrites
<1> QED BY <1>1, <1>2, LinksTypeCorrect, PTL DEF Spec

(* Edges.                                                                  *)

LEMMA FewerEdges ==
    ASSUME NEW E, NEW F, F \subseteq E, Acyclic(E)
    PROVE  Acyclic(F)
  BY DEF Acyclic

(* A set that a new edge would close a cycle in has a part, out of reach   *)
(* of the edge's source, in which the old edges already did.               *)
LEMMA NewEdge ==
    ASSUME NEW E, NEW s \in Slugs, NEW t \in Slugs, Acyclic(E), ~Reaches(E, t, s)
    PROVE  Acyclic(E \cup {<<s, t>>})
  <1> SUFFICES ASSUME NEW S \in SUBSET Slugs, S # {},
                      \A p \in S : \E e \in E \cup {<<s, t>>} : e[1] = p /\ e[2] \in S
               PROVE  FALSE
    BY DEF Acyclic
  <1>1. PICK U \in SUBSET Slugs : /\ t \in U /\ s \notin U
                                  /\ \A e \in E : e[1] \in U => e[2] \in U
    BY DEF Reaches
  <1>2. \A p \in S \cap U : \E e \in E : e[1] = p /\ e[2] \in S \cap U
    BY <1>1
  <1>3. CASE S \cap U # {}
    <2>1. S \cap U \in SUBSET Slugs
      OBVIOUS
    <2>2. PICK p \in S \cap U : \A e \in E : e[1] = p => e[2] \notin S \cap U
      BY <1>3, <2>1 DEF Acyclic
    <2> QED BY <1>2, <2>2
  <1>4. CASE S \cap U = {}
    <2>1. \A p \in S : \E e \in E : e[1] = p /\ e[2] \in S
      BY <1>1, <1>4
    <2> QED BY <2>1 DEF Acyclic
  <1> QED BY <1>3, <1>4

LEMMA EdgesOfFewer ==
    ASSUME NEW table, NEW other,
           \A i \in Held(other) :
              /\ i \in Held(table)
              /\ other[i].kind = "part_of" /\ ~other[i].unrelated => other[i] = table[i]
    PROVE  Edges(other) \subseteq Edges(table)
  BY DEF Edges, Held

(* One row written, the only one of its pair, and checked by would_cycle.  *)
LEMMA PutRow ==
    ASSUME TypeOK, OneLinkAPair, PartOfAcyclic,
           NEW i \in Ids, NEW link \in Link,
           links' = [links EXCEPT ![i] = link],
           \A j \in Held(links) \ {i} : Ends(links[j]) # Ends(link),
           link.kind = "part_of" /\ ~link.unrelated => ~WouldCycle(links, link.source, link.target)
    PROVE  OneLinkAPair' /\ PartOfAcyclic'
  <1>1. link # NoLink /\ links \in [Ids -> Rows]
    BY NoLinkAssumption DEF TypeOK
  <1>2. OneLinkAPair'
    BY <1>1 DEF OneLinkAPair, Held
  <1>3. ASSUME NEW e \in Edges(links'), e # <<link.source, link.target>>
        PROVE  e \in Upward(links, link.source, link.target)
    <2>1. PICK j \in Held(links') : /\ links'[j].kind = "part_of" /\ ~links'[j].unrelated
                                    /\ e = <<links'[j].source, links'[j].target>>
      BY DEF Edges
    <2>2. j # i
      BY <1>1, <1>3, <2>1 DEF Held
    <2>3. j \in Held(links) /\ links'[j] = links[j]
      BY <1>1, <2>1, <2>2 DEF Held
    <2>4. Ends(links[j]) # Ends(link)
      BY <2>2, <2>3
    <2> QED BY <2>1, <2>3, <2>4 DEF Upward, Edges, Ends
  <1>4. Acyclic(Upward(links, link.source, link.target))
    BY FewerEdges DEF PartOfAcyclic, Upward
  <1>5. link.source \in Slugs /\ link.target \in Slugs
    BY DEF Link
  <1>6. CASE link.kind = "part_of" /\ ~link.unrelated
    <2>1. Acyclic(Upward(links, link.source, link.target) \cup {<<link.source, link.target>>})
      BY <1>4, <1>5, <1>6, NewEdge DEF WouldCycle
    <2>2. Edges(links') \subseteq Upward(links, link.source, link.target) \cup {<<link.source, link.target>>}
      BY <1>3
    <2>3. Acyclic(Edges(links'))
      BY <2>1, <2>2, FewerEdges
    <2> QED BY <1>2, <2>3 DEF PartOfAcyclic, Edges, Held
  <1>7. CASE ~(link.kind = "part_of" /\ ~link.unrelated)
    <2>1. Edges(links') \subseteq Edges(links)
      BY <1>1, <1>7 DEF Edges, Held
    <2>2. Acyclic(Edges(links'))
      BY <2>1, FewerEdges DEF PartOfAcyclic
    <2> QED BY <1>2, <2>2 DEF PartOfAcyclic, Edges, Held
  <1> QED BY <1>6, <1>7

LEMMA DropRows ==
    ASSUME NEW table, NEW other,
           \A i \in Held(other) : i \in Held(table) /\ other[i] = table[i]
    PROVE  /\ Acyclic(Edges(table)) => Acyclic(Edges(other))
           /\ (\A i, j \in Held(table) : Ends(table[i]) = Ends(table[j]) => i = j)
              => (\A i, j \in Held(other) : Ends(other[i]) = Ends(other[j]) => i = j)
  BY EdgesOfFewer, FewerEdges

(* What moves when links are carried, and what stays.                      *)
LEMMA Relinking ==
    ASSUME TypeOK, OneLinkAPair, NEW source \in Slugs, NEW target \in Slugs, source # target,
           NEW kept \in Movable(source, target)
    PROVE  LET table == Relinked(kept, source, target) IN
           /\ table \in [Ids -> Rows]
           /\ \A i \in Held(table) : target \notin Ends(table[i]) =>
                i \in Held(links) /\ table[i] = links[i]
           /\ \A i, j \in Held(table) : Ends(table[i]) = Ends(table[j]) => i = j
  <1> DEFINE table == Relinked(kept, source, target)
  <1>1. kept \subseteq Around(links, source) /\ Around(links, source) \subseteq Held(links)
    BY DEF Movable, Around
  <1>2. \A i \in Held(links) : links[i] \in Link
    BY DEF TypeOK, Held, Rows
  <1>3. ASSUME NEW i \in kept
        PROVE  /\ i \in Ids /\ table[i] = Moved(links[i], source, target)
               /\ table[i] \in Link
               /\ Other(links[i], source) # target
               /\ Ends(table[i]) = {target, Other(links[i], source)}
    <2>1. i \in Ids /\ links[i] \in Link /\ source \in Ends(links[i])
      BY <1>1, <1>2, <1>3 DEF Held, Around
    <2>2. table[i] = Moved(links[i], source, target)
      BY <1>1, <1>3, <2>1 DEF Relinked
    <2>3. Moved(links[i], source, target) \in Link
      BY <2>1 DEF Moved, Link
    <2>4. Ends(Moved(links[i], source, target)) = {target, Other(links[i], source)}
      BY <2>1 DEF Moved, Link, Ends, Other
    <2>5. Other(links[i], source) # target
      BY <1>3 DEF Movable
    <2> QED BY <2>1, <2>2, <2>3, <2>4, <2>5
  <1>4. ASSUME NEW i \in Held(table), i \notin kept
        PROVE  i \in Held(links) /\ table[i] = links[i] /\ source \notin Ends(table[i])
    BY <1>1, <1>4 DEF Relinked, Held, Around
  <1>5. ASSUME NEW i \in Held(table), NEW j \in Held(table), i \in kept, j \notin kept,
               Ends(table[i]) = Ends(table[j])
        PROVE  FALSE
    <2>1. j \in OfPair(links, target, Other(links[i], source))
      BY <1>3, <1>4, <1>5 DEF OfPair
    <2>2. Other(links[i], source) # source
      BY <1>3, <1>4, <1>5
    <2> QED BY <1>5, <2>1, <2>2 DEF Movable
  <1>6. ASSUME NEW i \in Held(table), NEW j \in Held(table), Ends(table[i]) = Ends(table[j])
        PROVE  i = j
    <2>1. CASE i \in kept /\ j \in kept
      <3>1. Other(links[i], source) = Other(links[j], source)
        BY <1>3, <1>6, <2>1
      <3> QED BY <2>1, <3>1 DEF Movable
    <2>2. CASE i \notin kept /\ j \notin kept
      BY <1>4, <1>6, <2>2 DEF OneLinkAPair
    <2>3. CASE i \in kept <=> j \notin kept
      BY <1>5, <1>6, <2>3
    <2> QED BY <2>1, <2>2, <2>3
  <1>7. table \in [Ids -> Rows]
    BY <1>1, <1>3 DEF Relinked, Rows, TypeOK
  <1>8. \A i \in Held(table) : target \notin Ends(table[i]) => i \in Held(links) /\ table[i] = links[i]
    BY <1>3, <1>4
  <1> QED BY <1>6, <1>7, <1>8

(* A merge leaves one link a pair and no cycle.  A cycle would go through  *)
(* the target, for the edges elsewhere are old; it would leave the target  *)
(* by a link that was looked at and found to close none.                   *)
LEMMA CarriedSafe ==
    ASSUME TypeOK, OneLinkAPair, PartOfAcyclic, NEW source \in Slugs, NEW target \in Slugs,
           source # target, NEW final \in Carried(source, target)
    PROVE  /\ \A i, j \in Held(final) : Ends(final[i]) = Ends(final[j]) => i = j
           /\ Acyclic(Edges(final))
  <1>1. PICK kept \in Movable(source, target) :
          \E gone \in Demotions(Relinked(kept, source, target), target) :
            final = Demoted(Relinked(kept, source, target), gone)
    BY DEF Carried
  <1> DEFINE table == Relinked(kept, source, target)
  <1>2. PICK gone \in Demotions(table, target) : final = Demoted(table, gone)
    BY <1>1
  <1>3. /\ table \in [Ids -> Rows]
        /\ \A i \in Held(table) : target \notin Ends(table[i]) => i \in Held(links) /\ table[i] = links[i]
        /\ \A i, j \in Held(table) : Ends(table[i]) = Ends(table[j]) => i = j
    BY Relinking
  <1> HIDE DEF table
  <1> DEFINE at == {i \in Around(table, target) : table[i].kind = "part_of"}
  <1>4. gone \subseteq at /\ at \subseteq Held(table)
    BY DEF Demotions, Around
  <1>5. \A i \in Held(table) : table[i] \in Link
    BY <1>3 DEF Held, Rows
  <1>6. ASSUME NEW some \in SUBSET gone, NEW i \in Held(Demoted(table, some))
        PROVE  /\ i \in Held(table)
               /\ Demoted(table, some)[i] \in Link
               /\ Ends(Demoted(table, some)[i]) = Ends(table[i])
               /\ Demoted(table, some)[i].kind = "part_of" =>
                    i \notin some /\ Demoted(table, some)[i] = table[i]
    <2>1. CASE i \in some
      <3>1. i \in Held(table) /\ table[i] \in Link
        BY <1>4, <1>5, <2>1
      <3>2. i \in Ids /\ Demoted(table, some)[i] = [table[i] EXCEPT !.kind = "related"]
        BY <2>1, <3>1 DEF Demoted, Held
      <3> QED BY <2>1, <3>1, <3>2 DEF Link, Kinds, Ends
    <2>2. CASE i \notin some
      BY <1>5, <2>2 DEF Demoted, Held
    <2> QED BY <2>1, <2>2
  <1>7. \A i, j \in Held(final) : Ends(final[i]) = Ends(final[j]) => i = j
    BY <1>2, <1>3, <1>6
  <1>8. ASSUME NEW e \in Edges(final)
        PROVE  \E i \in Held(final) : /\ i \in Held(table) /\ i \notin gone
                                      /\ final[i] = table[i] /\ table[i] \in Link
                                      /\ table[i].kind = "part_of" /\ ~table[i].unrelated
                                      /\ e = <<table[i].source, table[i].target>>
    <2>1. PICK i \in Held(final) : /\ final[i].kind = "part_of" /\ ~final[i].unrelated
                                   /\ e = <<final[i].source, final[i].target>>
      BY DEF Edges
    <2> QED BY <1>2, <1>5, <1>6, <2>1
  <1>9. \A e \in Edges(final) : e[1] # target /\ e[2] # target => e \in Edges(links)
    <2> SUFFICES ASSUME NEW e \in Edges(final), e[1] # target, e[2] # target
                 PROVE  e \in Edges(links)
      OBVIOUS
    <2>1. PICK i \in Held(final) : /\ i \in Held(table)
                                   /\ table[i].kind = "part_of" /\ ~table[i].unrelated
                                   /\ e = <<table[i].source, table[i].target>>
      BY <1>8
    <2>2. i \in Held(links) /\ table[i] = links[i]
      BY <1>3, <2>1 DEF Ends
    <2> QED BY <2>1, <2>2 DEF Edges
  <1>10. Acyclic(Edges(final))
    <2> SUFFICES ASSUME NEW S \in SUBSET Slugs, S # {},
                        \A p \in S : \E e \in Edges(final) : e[1] = p /\ e[2] \in S
                 PROVE  FALSE
      BY DEF Acyclic
    <2>1. CASE target \notin S
      <3>1. \A p \in S : \E e \in Edges(links) : e[1] = p /\ e[2] \in S
        BY <1>9, <2>1
      <3> QED BY <3>1 DEF PartOfAcyclic, Acyclic
    <2>2. CASE target \in S
      <3>1. PICK out \in Edges(final) : out[1] = target /\ out[2] \in S
        BY <2>2
      <3>2. PICK i \in Held(final) : /\ i \in Held(table) /\ i \notin gone /\ final[i] = table[i]
                                     /\ table[i] \in Link /\ table[i].kind = "part_of"
                                     /\ out = <<table[i].source, table[i].target>>
        BY <3>1, <1>8
      <3>3. table[i].source = target /\ table[i].target = out[2] /\ i \in at
        BY <3>1, <3>2 DEF Around, Ends
      <3>4. PICK some \in SUBSET gone :
              ~WouldCycle(Demoted(table, some), table[i].source, table[i].target)
        BY <3>2, <3>3 DEF Demotions
      <3>5. PICK U \in SUBSET Slugs :
              /\ out[2] \in U /\ target \notin U
              /\ \A e \in Upward(Demoted(table, some), target, out[2]) : e[1] \in U => e[2] \in U
        BY <3>3, <3>4 DEF WouldCycle, Reaches
      <3>6. ASSUME NEW p \in S \cap U
            PROVE  \E e \in Edges(links) : e[1] = p /\ e[2] \in S \cap U
        <4>1. PICK e \in Edges(final) : e[1] = p /\ e[2] \in S
          OBVIOUS
        <4>2. PICK j \in Held(final) : /\ j \in Held(table) /\ j \notin gone
                                       /\ final[j] = table[j] /\ table[j] \in Link
                                       /\ table[j].kind = "part_of" /\ ~table[j].unrelated
                                       /\ e = <<table[j].source, table[j].target>>
          BY <1>8, <4>1
        <4>3. j \in Held(Demoted(table, some)) /\ Demoted(table, some)[j] = table[j]
          BY <4>2 DEF Demoted, Held
        <4>4. e \in Edges(Demoted(table, some))
          BY <4>2, <4>3 DEF Edges
        <4>5. {e[1], e[2]} # {target, out[2]}
          <5>1. SUFFICES ASSUME {e[1], e[2]} = {target, out[2]} PROVE FALSE
            OBVIOUS
          <5>2. Ends(final[j]) = Ends(final[i])
            BY <3>2, <3>3, <4>2, <5>1 DEF Ends
          <5>3. i = j
            BY <1>7, <5>2
          <5> QED BY <3>2, <3>3, <3>5, <4>1, <4>2, <5>3
        <4>6. e[2] \in U
          BY <3>5, <4>1, <4>4, <4>5 DEF Upward
        <4> QED BY <1>9, <3>5, <4>1, <4>6
      <3>7. S \cap U \in SUBSET Slugs /\ S \cap U # {}
        BY <3>1, <3>5
      <3>8. PICK p \in S \cap U : \A e \in Edges(links) : e[1] = p => e[2] \notin S \cap U
        BY <3>7 DEF PartOfAcyclic, Acyclic
      <3> QED BY <3>6, <3>8
    <2> QED BY <2>1, <2>2
  <1> QED BY <1>7, <1>10

-----------------------------------------------------------------------------
(* With the windows closed, a writer's check still holds when it saves.    *)

LinksInv == saving = {} /\ OneLinkAPair /\ PartOfAcyclic

LEMMA InsertNow ==
    ASSUME Gaps = {}, TypeOK, LinksInv, NEW link \in Link, Submit(Insert(link)),
           OfPair(links, link.source, link.target) = {},
           link.kind = "part_of" /\ ~link.unrelated => ~WouldCycle(links, link.source, link.target)
    PROVE  LinksInv'
  <1>1. links' \in Stores(Insert(link)) /\ saving' = saving
    BY DEF Submit
  <1>2. PICK i \in Ids : links' = [links EXCEPT ![i] = link]
    BY <1>1 DEF Stores, Insert
  <1>3. \A j \in Held(links) : Ends(links[j]) # Ends(link)
    BY DEF OfPair, Ends
  <1> QED BY <1>1, <1>2, <1>3, PutRow DEF LinksInv

LEMMA UpdateNow ==
    ASSUME Gaps = {}, TypeOK, LinksInv, NEW i \in Held(links), NEW link \in Link,
           Submit(Update(i, link)), Ends(links[i]) = Ends(link)
    PROVE  /\ links' = [links EXCEPT ![i] = link] /\ saving' = saving
           /\ \A j \in Held(links) \ {i} : Ends(links[j]) # Ends(link)
  <1>1. links' \in Stores(Update(i, link)) /\ saving' = saving
    BY DEF Submit
  <1>2. i \in Ids /\ i # NoLink /\ links[i] \in Link
    BY NoLinkAssumption DEF Held, TypeOK, Rows
  <1>3. Changed(links[i], links[i], link) = link
    BY <1>2 DEF Changed, Column, Link
  <1>4. links' = [links EXCEPT ![i] = Changed(links[i], links[i], link)]
    BY <1>1, <1>2 DEF Stores, Update, TypeOK
  <1> QED BY <1>1, <1>3, <1>4 DEF LinksInv, OneLinkAPair

LEMMA UpsertNow ==
    ASSUME Gaps = {}, TypeOK, LinksInv, NEW link \in Link, NEW w \in Upserts(link), Submit(w),
           link.kind = "part_of" /\ ~link.unrelated => ~WouldCycle(links, link.source, link.target)
    PROVE  LinksInv'
  <1>1. CASE OfPair(links, link.source, link.target) = {}
    BY <1>1, InsertNow DEF Upserts
  <1>2. CASE OfPair(links, link.source, link.target) # {}
    <2>1. PICK i \in OfPair(links, link.source, link.target) : w = Update(i, link)
      BY <1>2 DEF Upserts
    <2>2. i \in Held(links) /\ i \in Ids /\ Ends(links[i]) = Ends(link)
      BY DEF OfPair, Ends, Held
    <2>3. /\ links' = [links EXCEPT ![i] = link] /\ saving' = saving
          /\ \A j \in Held(links) \ {i} : Ends(links[j]) # Ends(link)
      BY <2>1, <2>2, UpdateNow
    <2> QED BY <2>2, <2>3, PutRow DEF LinksInv
  <1> QED BY <1>1, <1>2

LEMMA LinksInvStep ==
    ASSUME Gaps = {}, TypeOK, LinksInv, [Next]_vars
    PROVE  LinksInv'
  <1>1. OneLinkAPair /\ PartOfAcyclic /\ saving = {} /\ AliasType
    BY DEF LinksInv, TypeOK
  <1>2. ASSUME UNCHANGED <<links, saving>> PROVE LinksInv'
    BY <1>2 DEF LinksInv, OneLinkAPair, PartOfAcyclic, Acyclic, Edges, Held
  <1>3. ASSUME UNCHANGED saving, \A i \in Held(links') : i \in Held(links) /\ links'[i] = links[i]
        PROVE  LinksInv'
    <2>1. Acyclic(Edges(links'))
      BY <1>1, <1>3, DropRows DEF PartOfAcyclic
    <2>2. \A i, j \in Held(links') : Ends(links'[i]) = Ends(links'[j]) => i = j
      BY <1>1, <1>3 DEF OneLinkAPair
    <2> QED BY <1>1, <1>3, <2>1, <2>2 DEF LinksInv, OneLinkAPair, PartOfAcyclic, Edges, Held
  <1>4. ASSUME NEW a \in Slugs, NEW b \in Slugs, NEW kind \in Kinds, NEW confirmed \in BOOLEAN,
               WriteLink(a, b, kind, confirmed)
        PROVE  LinksInv'
    <2> DEFINE link == [kind |-> kind, source |-> Resolve(a), target |-> Resolve(b),
                        confirmed |-> confirmed, unrelated |-> FALSE]
    <2>1. link \in Link
      BY <1>1, ResolveType DEF Link
    <2>2. PICK w \in Upserts(link) : Submit(w)
      BY <1>4 DEF WriteLink
    <2>3. link.kind = "part_of" /\ ~link.unrelated => ~WouldCycle(links, link.source, link.target)
      BY <1>4 DEF WriteLink
    <2> HIDE DEF link
    <2> QED BY <2>1, <2>2, <2>3, UpsertNow
  <1>5. ASSUME NEW a \in Slugs, NEW b \in Slugs, NEW kind \in Kinds, AbsorbLink(a, b, kind)
        PROVE  LinksInv'
    <2> DEFINE link == [kind |-> Settled(links, kind, Resolve(a), Resolve(b)), source |-> Resolve(a),
                        target |-> Resolve(b), confirmed |-> FALSE, unrelated |-> FALSE]
    <2>1. link \in Link
      BY <1>1, ResolveType, SettledType DEF Link
    <2>2. Submit(Insert(link)) /\ OfPair(links, link.source, link.target) = {}
      BY <1>5 DEF AbsorbLink
    <2>3. link.kind = "part_of" /\ ~link.unrelated => ~WouldCycle(links, link.source, link.target)
      BY DEF Settled
    <2> HIDE DEF link
    <2> QED BY <2>1, <2>2, <2>3, InsertNow
  <1>6. ASSUME NEW a \in Slugs, NEW b \in Slugs, NEW verdict \in Kinds \cup {"unrelated"},
               Judged(a, b, verdict)
        PROVE  LinksInv'
    <2> DEFINE link == [kind |-> JudgedKind(a, b, verdict), source |-> a, target |-> b,
                        confirmed |-> FALSE, unrelated |-> verdict = "unrelated"]
    <2>1. link \in Link
      BY JudgedKindType DEF Link
    <2>2. link.kind = "part_of" /\ ~link.unrelated => ~WouldCycle(links, link.source, link.target)
      BY DEF JudgedKind, Settled
    <2>3. CASE UNCHANGED <<links, saving>>
      BY <1>2, <2>3
    <2>4. CASE \E w \in Upserts(link) : Submit(w)
      <3> HIDE DEF link
      <3> QED BY <2>1, <2>2, <2>4, UpsertNow
    <2> QED BY <1>6, <2>3, <2>4 DEF Judged
  <1>7. ASSUME NEW a \in Slugs, NEW b \in Slugs, NEW reverse \in BOOLEAN, ConfirmLink(a, b, reverse)
        PROVE  LinksInv'
    <2>1. PICK i \in OfPair(links, Resolve(a), Resolve(b)) :
            LET link   == links[i]
                turned == [link EXCEPT !.source = link.target, !.target = link.source]
            IN  /\ ~(reverse /\ link.kind = "part_of" /\ WouldCycle(links, link.target, link.source))
                /\ Submit(Update(i, [(IF reverse THEN turned ELSE link) EXCEPT !.confirmed = TRUE]))
      BY <1>7 DEF ConfirmLink
    <2>2. i \in Held(links) /\ i \in Ids /\ links[i] \in Link
      BY DEF OfPair, Held, TypeOK, Rows
    <2>3. CASE reverse
      <3> DEFINE link == [[links[i] EXCEPT !.source = links[i].target, !.target = links[i].source]
                            EXCEPT !.confirmed = TRUE]
      <3>1. /\ link \in Link /\ link.kind = links[i].kind /\ link.unrelated = links[i].unrelated
            /\ link.source = links[i].target /\ link.target = links[i].source
        BY <2>2 DEF Link
      <3>2. Submit(Update(i, link)) /\ (link.kind = "part_of" => ~WouldCycle(links, link.source, link.target))
        BY <2>1, <2>3, <3>1
      <3> HIDE DEF link
      <3>3. Ends(links[i]) = Ends(link)
        BY <3>1 DEF Ends
      <3>4. /\ links' = [links EXCEPT ![i] = link] /\ saving' = saving
            /\ \A j \in Held(links) \ {i} : Ends(links[j]) # Ends(link)
        BY <2>2, <3>1, <3>2, <3>3, UpdateNow
      <3> QED BY <1>1, <2>2, <3>1, <3>2, <3>4, PutRow DEF LinksInv
    <2>4. CASE ~reverse
      <3> DEFINE link == [links[i] EXCEPT !.confirmed = TRUE]
      <3>1. /\ link \in Link /\ link.kind = links[i].kind /\ link.unrelated = links[i].unrelated
            /\ link.source = links[i].source /\ link.target = links[i].target
        BY <2>2 DEF Link
      <3>2. Submit(Update(i, link))
        BY <2>1, <2>4
      <3> HIDE DEF link
      <3>3. links' = [links EXCEPT ![i] = link] /\ saving' = saving
        BY <2>2, <3>1, <3>2, UpdateNow DEF Ends
      <3>4. links \in [Ids -> Rows] /\ link # NoLink /\ links[i] # NoLink
        BY <2>2, <3>1, NoLinkAssumption DEF TypeOK
      <3>5. Held(links') = Held(links) /\ Edges(links') = Edges(links)
        BY <2>2, <3>1, <3>3, <3>4 DEF Held, Edges
      <3>6. \A j \in Held(links) : Ends(links'[j]) = Ends(links[j])
        BY <2>2, <3>1, <3>3, <3>4 DEF Held, Ends
      <3>7. OneLinkAPair'
        BY <1>1, <3>5, <3>6 DEF OneLinkAPair, Held
      <3>8. Acyclic(Edges(links'))
        BY <1>1, <3>5 DEF PartOfAcyclic
      <3> QED BY <1>1, <3>3, <3>7, <3>8 DEF LinksInv, PartOfAcyclic, Edges, Held
    <2> QED BY <2>3, <2>4
  <1>8. ASSUME NEW a \in Slugs, NEW b \in Slugs, DropLink(a, b)
        PROVE  LinksInv'
    <2>1. \A i \in Held(links') : i \in Held(links) /\ links'[i] = links[i]
      BY <1>8 DEF DropLink, Held, TypeOK, OfPair
    <2> QED BY <1>3, <1>8, <2>1 DEF DropLink
  <1>9. ASSUME NEW source \in Slugs, NEW target \in Slugs, source # target, UNCHANGED saving,
               NEW table \in Carried(source, target), NEW gone \in SUBSET Ids,
               links' = [i \in Ids |-> IF i \in gone THEN NoLink ELSE table[i]]
        PROVE  LinksInv'
    <2>1. /\ \A i, j \in Held(table) : Ends(table[i]) = Ends(table[j]) => i = j
          /\ Acyclic(Edges(table))
      BY <1>1, <1>9, CarriedSafe
    <2>2. \A i \in Held(links') : i \in Held(table) /\ links'[i] = table[i]
      BY <1>9 DEF Held
    <2>3. Acyclic(Edges(links'))
      BY <2>1, <2>2, DropRows
    <2>4. \A i, j \in Held(links') : Ends(links'[i]) = Ends(links'[j]) => i = j
      BY <2>1, <2>2
    <2> QED BY <1>1, <1>9, <2>3, <2>4 DEF LinksInv, OneLinkAPair, PartOfAcyclic, Edges, Held
  <1>10. ASSUME NEW a \in Slugs, NEW b \in Slugs, Merge(a, b)
         PROVE  LinksInv'
    <2> DEFINE source == Resolve(a)
               target == MergeTarget(source, b)
    <2>1. source \in Slugs /\ target \in Slugs /\ source # target
      BY <1>1, <1>10, ResolveType, MergeTargetType DEF Merge
    <2>2. links' \in Carried(source, target) /\ links' \in [Ids -> Rows]
      BY <1>10, <2>1, CarriedType DEF Merge, TypeOK
    <2>3. UNCHANGED saving
      BY <1>10 DEF Merge
    <2> HIDE DEF source, target
    <2>4. PICK table \in Carried(source, target) : links' = table
      BY <2>2
    <2>5. links' = [i \in Ids |-> IF i \in {} THEN NoLink ELSE table[i]]
      BY <2>2, <2>4
    <2>6. {} \in SUBSET Ids
      OBVIOUS
    <2> QED BY <1>9, <2>1, <2>3, <2>4, <2>5, <2>6
  <1>11. ASSUME NEW a \in Slugs, NEW b \in Slugs, NEW reverse \in BOOLEAN, ApplySame(a, b, reverse)
         PROVE  LinksInv'
    <2>1. \A i \in OfPair(links, Resolve(a), Resolve(b)) :
            i \in Ids /\ links[i].source \in Slugs /\ links[i].target \in Slugs
      BY DEF TypeOK, OfPair, Held, Rows, Link
    <2>2. PICK held \in Slugs, holder \in Slugs, i \in Ids :
            /\ Resolve(held) # MergeTarget(Resolve(held), holder)
            /\ \E table \in Carried(Resolve(held), MergeTarget(Resolve(held), holder)) :
                links' = [table EXCEPT ![i] = NoLink]
            /\ UNCHANGED saving
      BY <1>11, <2>1 DEF ApplySame
    <2> DEFINE source == Resolve(held)
               target == MergeTarget(source, holder)
    <2>3. source \in Slugs /\ target \in Slugs /\ source # target
      BY <1>1, <2>2, ResolveType, MergeTargetType
    <2>4. PICK table \in Carried(source, target) : links' = [table EXCEPT ![i] = NoLink]
      BY <2>2
    <2>5. table \in [Ids -> Rows]
      BY <2>3, CarriedType DEF TypeOK
    <2>6. links' = [j \in Ids |-> IF j \in {i} THEN NoLink ELSE table[j]]
      BY <2>4, <2>5
    <2>7. {i} \in SUBSET Ids /\ UNCHANGED saving
      BY <2>2
    <2> DEFINE gone == {i}
    <2>8. gone \in SUBSET Ids /\ links' = [j \in Ids |-> IF j \in gone THEN NoLink ELSE table[j]]
      BY <2>6, <2>7
    <2> HIDE DEF source, target, gone
    <2> QED BY <1>9, <2>3, <2>7, <2>8
  <1>12. ASSUME NEW a \in Slugs, DeleteProject(a)
         PROVE  LinksInv'
    <2>1. \A i \in Held(links') : i \in Held(links) /\ links'[i] = links[i]
      BY <1>12 DEF DeleteProject, Held
    <2> QED BY <1>3, <1>12, <2>1 DEF DeleteProject
  <1>13. ASSUME NEW a \in Slugs, NEW b \in Slugs, SweepLinks(a, b)
         PROVE  LinksInv'
    BY <1>2, <1>13 DEF SweepLinks
  <1>14. ASSUME NEW w \in saving PROVE LinksInv'
    BY <1>1, <1>14
  <1>15. CASE UNCHANGED vars
    BY <1>2, <1>15 DEF vars
  <1> QED BY <1>4, <1>5, <1>6, <1>7, <1>8, <1>10, <1>11, <1>12, <1>13, <1>14, <1>15
          DEF Next, OwnerWrites, WorkerWrites

LEMMA LinksSafe == Gaps = {} => (Spec => []LinksInv)
  <1> SUFFICES ASSUME Gaps = {} PROVE Spec => []LinksInv
    OBVIOUS
  <1>1. Init => LinksInv
    BY DEF Init, LinksInv, OneLinkAPair, PartOfAcyclic, Acyclic, Edges, Held
  <1>2. TypeOK /\ LinksInv /\ [Next]_vars => LinksInv'
    BY LinksInvStep
  <1> QED BY <1>1, <1>2, LinksTypeCorrect, PTL DEF Spec

(* Nobody in between, no project becomes part of itself, through any       *)
(* sequence of writes, verdicts, reversals and merges (would_cycle,        *)
(* carry_links).                                                           *)
THEOREM NothingIsPartOfItself == Gaps = {} => (Spec => []PartOfAcyclic)
<1>1. LinksInv => PartOfAcyclic
  BY DEF LinksInv
<1> QED BY <1>1, LinksSafe, PTL

(* Nobody in between, two projects never get a second link                 *)
(* (ProjectLinkRepository.find).                                           *)
THEOREM PairsHaveOneLink == Gaps = {} => (Spec => []OneLinkAPair)
<1>1. LinksInv => OneLinkAPair
  BY DEF LinksInv
<1> QED BY <1>1, LinksSafe, PTL

(* Nobody in between, the links and aliases stay sound through any         *)
(* sequence of writes, verdicts, reversals and merges.                     *)
THEOREM LinksStaySound == Gaps = {} => (Spec => []LinksSound)
  BY LinksTypeCorrect, NothingIsPartOfItself, PairsHaveOneLink, AliasesStayFlat, PTL DEF LinksSound
-----------------------------------------------------------------------------
(* Links of a project to itself.  A writer that was checked holds a link of  *)
(* two projects, and one that changes a row changes both ends or neither.   *)

NoLoops(table) == \A i \in Held(table) : table[i].source # table[i].target

Proper(w) ==
    /\ w.wanted.source # w.wanted.target
    /\ w.id # NoLink => w.loaded \in Link /\ Ends(w.loaded) = Ends(w.wanted)

Unlooped ==
    /\ NoLoops(links)
    /\ \A w \in saving : Proper(w)
    /\ \A pair \in judging : \E a, b \in Slugs : a # b /\ pair = {a, b}

LEMMA StoresProper ==
    ASSUME TypeOK, NoLoops(links), NEW w \in Write, Proper(w), NEW table \in Stores(w)
    PROVE  NoLoops(table)
  <1>1. w.wanted \in Link /\ \A i \in Held(links) : i \in Ids /\ links[i] \in Link
    BY DEF Write, TypeOK, Held, Rows
  <1>2. CASE w.id = NoLink
    <2>1. PICK i \in Ids : table = [links EXCEPT ![i] = w.wanted]
      BY <1>2 DEF Stores
    <2>2. \A j \in Held(table) : j = i \/ (j \in Held(links) /\ table[j] = links[j])
      BY <2>1 DEF Held, TypeOK
    <2> QED BY <2>1, <2>2 DEF NoLoops, Proper, TypeOK
  <1>3. CASE w.id # NoLink
    <2> DEFINE i == w.id
               new == Changed(links[i], w.loaded, w.wanted)
    <2>1. i \in Held(links) /\ table = [links EXCEPT ![i] = new]
      BY <1>3 DEF Stores
    <2>2. links[i] \in Link /\ w.loaded \in Link /\ Ends(w.loaded) = Ends(w.wanted)
      BY <1>1, <1>3, <2>1 DEF Proper
    <2>3. new.source = Column(links[i].source, w.loaded.source, w.wanted.source)
      BY DEF Changed
    <2>4. new.target = Column(links[i].target, w.loaded.target, w.wanted.target)
      BY DEF Changed
    <2>5. links[i].source # links[i].target /\ w.wanted.source # w.wanted.target
      BY <2>1 DEF NoLoops, Proper
    <2>6. new.source # new.target
      BY <2>2, <2>3, <2>4, <2>5 DEF Column, Ends
    <2>7. \A j \in Held(table) : j = i \/ (j \in Held(links) /\ table[j] = links[j])
      BY <2>1 DEF Held, TypeOK
    <2>8. table[i] = new
      BY <1>1, <2>1 DEF TypeOK
    <2> HIDE DEF new, i
    <2> QED BY <2>6, <2>7, <2>8 DEF NoLoops
  <1> QED BY <1>2, <1>3

LEMMA SubmitProper ==
    ASSUME TypeOK, Unlooped, NEW w \in Write, Proper(w), Submit(w)
    PROVE  NoLoops(links') /\ \A v \in saving' : Proper(v)
  BY StoresProper DEF Submit, Unlooped

LEMMA UpsertsProper ==
    ASSUME TypeOK, NEW link \in Link, link.source # link.target, NEW w \in Upserts(link)
    PROVE  Proper(w)
  <1>1. \A i \in OfPair(links, link.source, link.target) : links[i] \in Link /\ Ends(links[i]) = Ends(link)
    BY DEF OfPair, Held, TypeOK, Rows, Ends
  <1> QED BY <1>1 DEF Upserts, Insert, Update, Proper

(* What a merge leaves of a link.                                          *)
LEMMA CarriedEnds ==
    ASSUME TypeOK, NoLoops(links), NEW source \in Slugs, NEW target \in Slugs, source # target,
           NEW final \in Carried(source, target), NEW i \in Held(final)
    PROVE  /\ i \in Held(links)
           /\ final[i].source # final[i].target
           /\ Ends(final[i]) \subseteq (Ends(links[i]) \ {source}) \cup {target}
  <1>1. PICK kept \in Movable(source, target) :
          \E gone \in Demotions(Relinked(kept, source, target), target) :
            final = Demoted(Relinked(kept, source, target), gone)
    BY DEF Carried
  <1> DEFINE table == Relinked(kept, source, target)
  <1>2. PICK gone \in Demotions(table, target) : final = Demoted(table, gone)
    BY <1>1
  <1>3. i \in Ids /\ gone \subseteq Held(table)
    BY DEF Held, Demotions, Around
  <1>4. i \in Held(table) /\ (final[i] = table[i] \/ final[i] = [table[i] EXCEPT !.kind = "related"])
    BY <1>2, <1>3 DEF Demoted, Held
  <1>5. i \in Held(links) /\ links[i] \in Link /\ links[i].source # links[i].target
    BY <1>3, <1>4 DEF Relinked, Held, Around, NoLoops, TypeOK, Rows
  <1>6. /\ table[i] \in Link
        /\ table[i].source # table[i].target
        /\ Ends(table[i]) \subseteq (Ends(links[i]) \ {source}) \cup {target}
    <2>1. CASE i \in kept
      <3>1. i \in Around(links, source) /\ Other(links[i], source) # target
        BY <2>1 DEF Movable
      <3>2. table[i] = Moved(links[i], source, target) /\ source \in Ends(links[i])
        BY <1>3, <2>1, <3>1 DEF Relinked, Around
      <3> QED BY <1>5, <3>1, <3>2 DEF Moved, Link, Ends, Other
    <2>2. CASE i \notin kept
      <3>1. table[i] = links[i] /\ source \notin Ends(links[i])
        BY <1>3, <1>4, <1>5, <2>2 DEF Relinked, Held, Around
      <3> QED BY <1>5, <3>1
    <2> QED BY <2>1, <2>2
  <1> HIDE DEF table
  <1>7. final[i].source = table[i].source /\ final[i].target = table[i].target
    BY <1>4, <1>6 DEF Link
  <1> QED BY <1>5, <1>6, <1>7 DEF Ends

LEMMA UnloopedStep ==
    ASSUME ~Loops, TypeOK, Unlooped, [Next]_vars
    PROVE  Unlooped'
  <1>1. NoLoops(links) /\ AliasType /\ links \in [Ids -> Rows]
    BY DEF Unlooped, TypeOK
  <1>2. ASSUME NoLoops(links'), \A v \in saving' : Proper(v), judging' \subseteq judging
        PROVE  Unlooped'
    BY <1>2 DEF Unlooped, NoLoops, Held
  <1>3. ASSUME \A i \in Held(links') : i \in Held(links) /\ links'[i] = links[i],
               saving' \subseteq saving, judging' \subseteq judging
        PROVE  Unlooped'
    BY <1>1, <1>2, <1>3 DEF Unlooped, NoLoops
  <1>4. ASSUME NEW link \in Link, link.source # link.target, NEW w \in Upserts(link), Submit(w),
               judging' \subseteq judging
        PROVE  Unlooped'
    BY <1>2, <1>4, UpsertsType, UpsertsProper, SubmitProper
  <1>5. ASSUME NEW a \in Slugs, NEW b \in Slugs, NEW kind \in Kinds, NEW confirmed \in BOOLEAN,
               WriteLink(a, b, kind, confirmed)
        PROVE  Unlooped'
    <2> DEFINE link == [kind |-> kind, source |-> Resolve(a), target |-> Resolve(b),
                        confirmed |-> confirmed, unrelated |-> FALSE]
    <2>1. link \in Link /\ link.source # link.target
      BY <1>1, <1>5, ResolveType DEF Link, WriteLink
    <2>2. PICK w \in Upserts(link) : Submit(w)
      BY <1>5 DEF WriteLink
    <2>3. judging' \subseteq judging
      BY <1>5 DEF WriteLink
    <2> HIDE DEF link
    <2> QED BY <1>4, <2>1, <2>2, <2>3
  <1>6. ASSUME NEW a \in Slugs, NEW b \in Slugs, NEW kind \in Kinds, AbsorbLink(a, b, kind)
        PROVE  Unlooped'
    <2> DEFINE link == [kind |-> Settled(links, kind, Resolve(a), Resolve(b)), source |-> Resolve(a),
                        target |-> Resolve(b), confirmed |-> FALSE, unrelated |-> FALSE]
    <2>1. link \in Link /\ link.source # link.target
      BY <1>1, <1>6, ResolveType, SettledType DEF Link, AbsorbLink
    <2>2. Submit(Insert(link)) /\ judging' \subseteq judging /\ OfPair(links, link.source, link.target) = {}
      BY <1>6 DEF AbsorbLink
    <2>3. Insert(link) \in Upserts(link)
      BY <2>2 DEF Upserts
    <2> HIDE DEF link
    <2> QED BY <1>4, <2>1, <2>2, <2>3
  <1>7. ASSUME NEW a \in Slugs, NEW b \in Slugs, NEW verdict \in Kinds \cup {"unrelated"},
               Judged(a, b, verdict)
        PROVE  Unlooped'
    <2> DEFINE link == [kind |-> JudgedKind(a, b, verdict), source |-> a, target |-> b,
                        confirmed |-> FALSE, unrelated |-> verdict = "unrelated"]
    <2>1. judging' \subseteq judging /\ {a, b} \in judging
      BY <1>7 DEF Judged
    <2>2. a # b
      BY <2>1 DEF Unlooped
    <2>3. link \in Link /\ link.source # link.target
      BY <2>2, JudgedKindType DEF Link
    <2>4. CASE UNCHANGED <<links, saving>>
      BY <1>3, <2>1, <2>4
    <2>5. CASE \E w \in Upserts(link) : Submit(w)
      <3> HIDE DEF link
      <3> QED BY <1>4, <2>1, <2>3, <2>5
    <2> QED BY <1>7, <2>4, <2>5 DEF Judged
  <1>8. ASSUME NEW a \in Slugs, NEW b \in Slugs, NEW reverse \in BOOLEAN, ConfirmLink(a, b, reverse)
        PROVE  Unlooped'
    <2>1. PICK i \in OfPair(links, Resolve(a), Resolve(b)) :
            LET link   == links[i]
                turned == [link EXCEPT !.source = link.target, !.target = link.source]
            IN  /\ link.kind # "same"
                /\ Submit(Update(i, [(IF reverse THEN turned ELSE link) EXCEPT !.confirmed = TRUE]))
      BY <1>8 DEF ConfirmLink
    <2>2. i \in Held(links) /\ i \in Ids /\ links[i] \in Link /\ links[i].source # links[i].target
      BY <1>1 DEF OfPair, Held, Rows, NoLoops
    <2>3. PICK link \in Link : Ends(link) = Ends(links[i]) /\ Submit(Update(i, link))
      BY <2>1, <2>2 DEF Link, Ends
    <2>4. Update(i, link) \in Write /\ Proper(Update(i, link))
      BY <2>2, <2>3 DEF Update, Write, Rows, Proper, Ends
    <2>5. judging' \subseteq judging
      BY <1>8 DEF ConfirmLink
    <2> QED BY <1>2, <2>3, <2>4, <2>5, SubmitProper
  <1>9. ASSUME NEW source \in Slugs, NEW target \in Slugs, source # target,
               NEW table \in Carried(source, target),
               \A i \in Held(links') : i \in Held(table) /\ links'[i] = table[i],
               saving' = saving, judging' \subseteq judging
        PROVE  Unlooped'
    <2>1. NoLoops(links')
      BY <1>1, <1>9, CarriedEnds DEF NoLoops
    <2> QED BY <1>2, <1>9, <2>1 DEF Unlooped
  <1>10. ASSUME NEW a \in Slugs, NEW b \in Slugs, Merge(a, b)
         PROVE  Unlooped'
    BY <1>1, <1>9, <1>10, ResolveType, MergeTargetType DEF Merge, PairsWithout
  <1>11. ASSUME NEW a \in Slugs, NEW b \in Slugs, NEW reverse \in BOOLEAN, ApplySame(a, b, reverse)
         PROVE  Unlooped'
    <2>1. \A i \in OfPair(links, Resolve(a), Resolve(b)) :
            i \in Ids /\ links[i].source \in Slugs /\ links[i].target \in Slugs
      BY DEF TypeOK, OfPair, Held, Rows, Link
    <2>2. PICK held \in Slugs, holder \in Slugs, i \in Ids :
            /\ Resolve(held) # MergeTarget(Resolve(held), holder)
            /\ \E table \in Carried(Resolve(held), MergeTarget(Resolve(held), holder)) :
                links' = [table EXCEPT ![i] = NoLink]
            /\ judging' = PairsWithout(Resolve(held))
            /\ UNCHANGED saving
      BY <1>11, <2>1 DEF ApplySame
    <2> DEFINE source == Resolve(held)
               target == MergeTarget(source, holder)
    <2>3. source \in Slugs /\ target \in Slugs /\ source # target
      BY <1>1, <2>2, ResolveType, MergeTargetType
    <2>4. PICK table \in Carried(source, target) : links' = [table EXCEPT ![i] = NoLink]
      BY <2>2
    <2>5. table \in [Ids -> Rows]
      BY <1>1, <2>3, CarriedType
    <2>6. \A j \in Held(links') : j \in Held(table) /\ links'[j] = table[j]
      BY <2>4, <2>5 DEF Held
    <2>7. saving' = saving /\ judging' \subseteq judging
      BY <2>2 DEF PairsWithout
    <2> HIDE DEF source, target
    <2> QED BY <1>9, <2>3, <2>6, <2>7
  <1>12. ASSUME NEW a \in Slugs, NEW b \in Slugs, DropLink(a, b)
         PROVE  Unlooped'
    <2>1. \A i \in Held(links') : i \in Held(links) /\ links'[i] = links[i]
      BY <1>1, <1>12 DEF DropLink, Held, OfPair
    <2> QED BY <1>3, <1>12, <2>1 DEF DropLink
  <1>13. ASSUME NEW a \in Slugs, DeleteProject(a)
         PROVE  Unlooped'
    <2>1. \A i \in Held(links') : i \in Held(links) /\ links'[i] = links[i]
      BY <1>13 DEF DeleteProject, Held
    <2> QED BY <1>3, <1>13, <2>1 DEF DeleteProject, PairsWithout
  <1>14. ASSUME NEW a \in Slugs, NEW b \in Slugs, SweepLinks(a, b)
         PROVE  Unlooped'
    <2>1. links' = links /\ saving' = saving /\ Resolve(a) # Resolve(b)
          /\ judging' = judging \cup {{Resolve(a), Resolve(b)}}
      BY <1>14 DEF SweepLinks
    <2>2. Resolve(a) \in Slugs /\ Resolve(b) \in Slugs
      BY <1>1, ResolveType
    <2> QED BY <2>1, <2>2 DEF Unlooped, NoLoops, Held
  <1>15. ASSUME NEW w \in saving, Save(w)
         PROVE  Unlooped'
    <2>1. w \in Write /\ Proper(w)
      BY <1>15 DEF TypeOK, Write, Unlooped
    <2>2. NoLoops(links')
      BY <1>1, <1>15, <2>1, StoresProper DEF Save
    <2> QED BY <1>2, <1>15, <2>2 DEF Save, Unlooped
  <1>16. CASE UNCHANGED vars
    BY <1>3, <1>16 DEF vars
  <1> QED BY <1>5, <1>6, <1>7, <1>8, <1>10, <1>11, <1>12, <1>13, <1>14, <1>15, <1>16
          DEF Next, OwnerWrites, WorkerWrites

LEMMA StayUnlooped == ~Loops => (Spec => []Unlooped)
  <1> SUFFICES ASSUME ~Loops PROVE Spec => []Unlooped
    OBVIOUS
  <1>1. Init => Unlooped
    BY DEF Init, Unlooped, NoLoops, Held
  <1>2. TypeOK /\ Unlooped /\ [Next]_vars => Unlooped'
    BY UnloopedStep
  <1> QED BY <1>1, <1>2, LinksTypeCorrect, PTL DEF Spec

(* Unless the owner asks for it, no project is linked to itself, with      *)
(* every window open: a save that comes late writes both ends of its link  *)
(* or neither, and a merge drops the link of the two (carry_links, absorb).*)
THEOREM NothingIsLinkedToItself == Spec => []NoSelfLinks
<1>1. CASE Loops
  <2>1. NoSelfLinks
    BY <1>1 DEF NoSelfLinks
  <2> QED BY <2>1, PTL
<1>2. CASE ~Loops
  <2>1. Unlooped => NoSelfLinks
    BY DEF Unlooped, NoLoops, NoSelfLinks
  <2> QED BY <1>2, <2>1, StayUnlooped, PTL
<1> QED BY <1>1, <1>2
-----------------------------------------------------------------------------
(* Names.  Whoever writes a link has resolved its names, or takes them from *)
(* an open judgement or from the row that is there.                        *)

Live(p) == alias[p] = Unmerged

LEMMA RedirectKeepsLive ==
    ASSUME AliasType, NEW source \in Slugs, NEW target \in Slugs, source # target, Redirect(source, target)
    PROVE  \A p \in Slugs : p = target \/ (p # source /\ Live(p)) => Live(p)'
  BY UnmergedAssumption DEF AliasType, Redirect, Live

LEMMA ForgottenKeepsLive ==
    ASSUME AliasType, NEW slug, Forgotten(slug)
    PROVE  \A p \in Slugs : Live(p) => Live(p)'
  BY DEF AliasType, Forgotten, Live

LEMMA WrittenNow ==
    ASSUME Gaps = {}, TypeOK, LinksInv, NEW link \in Link, NEW w \in Upserts(link), Submit(w)
    PROVE  \E i \in Ids : links' = [links EXCEPT ![i] = link]
  <1>1. CASE w = Insert(link)
    <2>1. links' \in Stores(Insert(link))
      BY <1>1 DEF Submit
    <2> QED BY <2>1 DEF Stores, Insert
  <1>2. CASE \E i \in OfPair(links, link.source, link.target) : w = Update(i, link)
    <2>1. PICK i \in OfPair(links, link.source, link.target) : w = Update(i, link)
      BY <1>2
    <2>2. i \in Held(links) /\ i \in Ids /\ Ends(links[i]) = Ends(link)
      BY DEF OfPair, Ends, Held
    <2> QED BY <2>1, <2>2, UpdateNow
  <1> QED BY <1>1, <1>2 DEF Upserts

LEMMA NamesStep ==
    ASSUME Gaps = {}, ~Loops, TypeOK, AliasesFlat, LinksInv, Unlooped, NamesAreLive, [Next]_vars
    PROVE  NamesAreLive'
  <1>1. /\ AliasType /\ links \in [Ids -> Rows] /\ judging \in SUBSET (SUBSET Slugs)
        /\ NoLoops(links) /\ saving = {}
        /\ \A i \in Held(links) : i \in Ids /\ links[i] \in Link /\ Ends(links[i]) \in SUBSET Slugs
    BY DEF TypeOK, Unlooped, LinksInv, Held, Rows, Link, Ends
  <1>2. \A p \in Slugs : Resolve(p) \in Slugs /\ Live(Resolve(p))
    BY <1>1, ResolveType, ResolvedIsLive DEF Live
  <1>3. /\ \A i \in Held(links) : \A p \in Ends(links[i]) : Live(p)
        /\ \A pair \in judging : \A p \in pair : Live(p)
    BY DEF NamesAreLive, Live
  <1>4. ASSUME \A i \in Held(links') : \A p \in Ends(links'[i]) : Live(p)',
               \A pair \in judging' : \A p \in pair : Live(p)'
        PROVE  NamesAreLive'
    BY <1>4 DEF NamesAreLive, Held, Ends, Live
  <1>5. ASSUME UNCHANGED alias, judging' \subseteq judging,
               \A i \in Held(links') : \A p \in Ends(links'[i]) : Live(p)
        PROVE  NamesAreLive'
    <2>1. \A p : Live(p) => Live(p)'
      BY <1>5 DEF Live
    <2> QED BY <1>3, <1>4, <1>5, <2>1
  <1>6. ASSUME NEW link \in Link, NEW w \in Upserts(link), Submit(w), \A p \in Ends(link) : Live(p),
               UNCHANGED alias, judging' \subseteq judging
        PROVE  NamesAreLive'
    <2>1. PICK i \in Ids : links' = [links EXCEPT ![i] = link]
      BY <1>6, WrittenNow
    <2>2. ASSUME NEW j \in Held(links')
          PROVE  (j = i /\ links'[j] = link) \/ (j \in Held(links) /\ links'[j] = links[j])
      <3>1. j \in Ids /\ links'[j] # NoLink /\ links \in [Ids -> Rows]
        BY <1>1 DEF Held
      <3> QED BY <2>1, <3>1 DEF Held
    <2>3. \A j \in Held(links') : \A p \in Ends(links'[j]) : Live(p)
      BY <1>3, <1>6, <2>2
    <2> QED BY <1>5, <1>6, <2>3
  <1>7. ASSUME NEW a \in Slugs, NEW b \in Slugs, NEW kind \in Kinds, NEW confirmed \in BOOLEAN,
               WriteLink(a, b, kind, confirmed)
        PROVE  NamesAreLive'
    <2> DEFINE link == [kind |-> kind, source |-> Resolve(a), target |-> Resolve(b),
                        confirmed |-> confirmed, unrelated |-> FALSE]
    <2>1. link \in Link /\ \A p \in Ends(link) : Live(p)
      BY <1>2 DEF Link, Ends
    <2>2. PICK w \in Upserts(link) : Submit(w)
      BY <1>7 DEF WriteLink
    <2>3. UNCHANGED alias /\ judging' \subseteq judging
      BY <1>7 DEF WriteLink
    <2> HIDE DEF link
    <2> QED BY <1>6, <2>1, <2>2, <2>3
  <1>8. ASSUME NEW a \in Slugs, NEW b \in Slugs, NEW kind \in Kinds, AbsorbLink(a, b, kind)
        PROVE  NamesAreLive'
    <2> DEFINE link == [kind |-> Settled(links, kind, Resolve(a), Resolve(b)), source |-> Resolve(a),
                        target |-> Resolve(b), confirmed |-> FALSE, unrelated |-> FALSE]
    <2>1. link \in Link /\ \A p \in Ends(link) : Live(p)
      BY <1>2, SettledType DEF Link, Ends
    <2>2. Submit(Insert(link)) /\ Insert(link) \in Upserts(link)
      BY <1>8 DEF AbsorbLink, Upserts
    <2>3. UNCHANGED alias /\ judging' \subseteq judging
      BY <1>8 DEF AbsorbLink
    <2> HIDE DEF link
    <2> QED BY <1>6, <2>1, <2>2, <2>3
  <1>9. ASSUME NEW a \in Slugs, NEW b \in Slugs, NEW verdict \in Kinds \cup {"unrelated"},
               Judged(a, b, verdict)
        PROVE  NamesAreLive'
    <2> DEFINE link == [kind |-> JudgedKind(a, b, verdict), source |-> a, target |-> b,
                        confirmed |-> FALSE, unrelated |-> verdict = "unrelated"]
    <2>1. judging' \subseteq judging /\ {a, b} \in judging /\ UNCHANGED alias
      BY <1>9 DEF Judged
    <2>2. link \in Link /\ \A p \in Ends(link) : Live(p)
      BY <1>3, <2>1, JudgedKindType DEF Link, Ends
    <2>3. CASE UNCHANGED <<links, saving>>
      BY <1>3, <1>5, <2>1, <2>3
    <2>4. CASE \E w \in Upserts(link) : Submit(w)
      <3> HIDE DEF link
      <3> QED BY <1>6, <2>1, <2>2, <2>4
    <2> QED BY <1>9, <2>3, <2>4 DEF Judged
  <1>10. ASSUME NEW a \in Slugs, NEW b \in Slugs, NEW reverse \in BOOLEAN, ConfirmLink(a, b, reverse)
         PROVE  NamesAreLive'
    <2>1. PICK i \in OfPair(links, Resolve(a), Resolve(b)) :
            LET link   == links[i]
                turned == [link EXCEPT !.source = link.target, !.target = link.source]
            IN  /\ link.kind # "same"
                /\ Submit(Update(i, [(IF reverse THEN turned ELSE link) EXCEPT !.confirmed = TRUE]))
      BY <1>10 DEF ConfirmLink
    <2>2. i \in Held(links) /\ i \in Ids /\ links[i] \in Link
      BY <1>1 DEF OfPair
    <2>3. PICK link \in Link : Ends(link) = Ends(links[i]) /\ Submit(Update(i, link))
      BY <2>1, <2>2 DEF Link, Ends
    <2>4. Update(i, link) \in Upserts(link)
      BY <2>2, <2>3 DEF Upserts, OfPair, Ends
    <2>5. \A p \in Ends(link) : Live(p)
      BY <1>3, <2>2, <2>3
    <2>6. UNCHANGED alias /\ judging' \subseteq judging
      BY <1>10 DEF ConfirmLink
    <2> QED BY <1>6, <2>3, <2>4, <2>5, <2>6
  <1>11. ASSUME NEW source \in Slugs, NEW target \in Slugs, source # target,
                NEW table \in Carried(source, target), Redirect(source, target),
                \A i \in Held(links') : i \in Held(table) /\ links'[i] = table[i],
                judging' = PairsWithout(source)
         PROVE  NamesAreLive'
    <2>1. \A p \in Slugs : p = target \/ (p # source /\ Live(p)) => Live(p)'
      BY <1>1, <1>11, RedirectKeepsLive
    <2>2. ASSUME NEW i \in Held(links'), NEW p \in Ends(links'[i])
          PROVE  Live(p)'
      <3>1. i \in Held(links) /\ p \in (Ends(links[i]) \ {source}) \cup {target}
        BY <1>1, <1>11, <2>2, CarriedEnds
      <3> QED BY <1>1, <1>3, <2>1, <3>1
    <2>3. \A pair \in judging' : \A p \in pair : Live(p)'
      BY <1>1, <1>3, <1>11, <2>1 DEF PairsWithout
    <2> QED BY <1>4, <2>2, <2>3
  <1>12. ASSUME NEW a \in Slugs, NEW b \in Slugs, Merge(a, b)
         PROVE  NamesAreLive'
    BY <1>1, <1>11, <1>12, ResolveType, MergeTargetType DEF Merge
  <1>13. ASSUME NEW a \in Slugs, NEW b \in Slugs, NEW reverse \in BOOLEAN, ApplySame(a, b, reverse)
         PROVE  NamesAreLive'
    <2>1. \A i \in OfPair(links, Resolve(a), Resolve(b)) :
            i \in Ids /\ links[i].source \in Slugs /\ links[i].target \in Slugs
      BY <1>1 DEF OfPair, Held, Rows, Link
    <2>2. PICK held \in Slugs, holder \in Slugs, i \in Ids :
            /\ Resolve(held) # MergeTarget(Resolve(held), holder)
            /\ Redirect(Resolve(held), MergeTarget(Resolve(held), holder))
            /\ \E table \in Carried(Resolve(held), MergeTarget(Resolve(held), holder)) :
                links' = [table EXCEPT ![i] = NoLink]
            /\ judging' = PairsWithout(Resolve(held))
      BY <1>13, <2>1 DEF ApplySame
    <2> DEFINE source == Resolve(held)
               target == MergeTarget(source, holder)
    <2>3. source \in Slugs /\ target \in Slugs /\ source # target
      BY <1>1, <2>2, ResolveType, MergeTargetType
    <2>4. PICK table \in Carried(source, target) : links' = [table EXCEPT ![i] = NoLink]
      BY <2>2
    <2>5. table \in [Ids -> Rows]
      BY <1>1, <2>3, CarriedType
    <2>6. \A j \in Held(links') : j \in Held(table) /\ links'[j] = table[j]
      BY <2>4, <2>5 DEF Held
    <2>7. Redirect(source, target) /\ judging' = PairsWithout(source)
      BY <2>2
    <2> HIDE DEF source, target
    <2> QED BY <1>11, <2>3, <2>6, <2>7
  <1>14. ASSUME NEW a \in Slugs, NEW b \in Slugs, DropLink(a, b)
         PROVE  NamesAreLive'
    <2>1. \A i \in Held(links') : i \in Held(links) /\ links'[i] = links[i]
      BY <1>1, <1>14 DEF DropLink, Held, OfPair
    <2> QED BY <1>3, <1>5, <1>14, <2>1 DEF DropLink
  <1>15. ASSUME NEW a \in Slugs, DeleteProject(a)
         PROVE  NamesAreLive'
    <2>1. \A i \in Held(links') : i \in Held(links) /\ links'[i] = links[i]
      BY <1>15 DEF DeleteProject, Held
    <2>2. \A p \in Slugs : Live(p) => Live(p)'
      BY <1>1, <1>15, ForgottenKeepsLive DEF DeleteProject
    <2>3. judging' \subseteq judging
      BY <1>15 DEF DeleteProject, PairsWithout
    <2> QED BY <1>1, <1>3, <1>4, <2>1, <2>2, <2>3
  <1>16. ASSUME NEW a \in Slugs, NEW b \in Slugs, SweepLinks(a, b)
         PROVE  NamesAreLive'
    <2>1. /\ UNCHANGED <<alias, links>>
          /\ judging' = judging \cup {{Resolve(a), Resolve(b)}}
      BY <1>16 DEF SweepLinks
    <2>2. \A p : Live(p) => Live(p)'
      BY <2>1 DEF Live
    <2> QED BY <1>2, <1>3, <1>4, <2>1, <2>2
  <1>17. ASSUME NEW w \in saving PROVE NamesAreLive'
    BY <1>1, <1>17
  <1>18. CASE UNCHANGED vars
    BY <1>18 DEF vars, NamesAreLive, Held, Ends
  <1> QED BY <1>7, <1>8, <1>9, <1>10, <1>12, <1>13, <1>14, <1>15, <1>16, <1>17, <1>18
          DEF Next, OwnerWrites, WorkerWrites

(* Nobody in between, no link and no open judgement keeps the name of a    *)
(* project that was merged away, as long as the owner links no project to  *)
(* itself: such a link is only carried at one end (carry_links).           *)
THEOREM NamesStayLive == Gaps = {} /\ ~Loops => (Spec => []NamesAreLive)
<1> SUFFICES ASSUME Gaps = {}, ~Loops PROVE Spec => []NamesAreLive
  OBVIOUS
<1>1. Init => NamesAreLive
  BY DEF Init, NamesAreLive, Held
<1>2. TypeOK /\ AliasesFlat /\ LinksInv /\ Unlooped /\ NamesAreLive /\ [Next]_vars => NamesAreLive'
  BY NamesStep
<1> QED BY <1>1, <1>2, LinksTypeCorrect, AliasesStayFlat, LinksSafe, StayUnlooped, PTL DEF Spec
=============================================================================
