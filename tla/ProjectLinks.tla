---------------------------- MODULE ProjectLinks ----------------------------
(***************************************************************************)
(* project_link: how projects relate, written by the owner, taken from     *)
(* session results (absorb) and from verdicts on candidate pairs (judged), *)
(* applied by the owner, and carried along when projects are merged.       *)
(*                                                                         *)
(* Every writer reads the table, decides, and saves in a later             *)
(* transaction.  With "check" in Gaps other writers get in between; the    *)
(* save then writes the columns that differ from those loaded.  A merge is *)
(* one step here: what it does to notes and jobs is not this module's.     *)
(***************************************************************************)
EXTENDS Naturals, FiniteSets, ProjectAliases

CONSTANTS
    Ids,        \* row identities; bounds the number of links at a time
    NoLink,     \* no row
    MaxOpen,    \* bound: candidate pairs open for judgement at a time
    MaxWriters, \* bound: writers between their check and their save
    Loops,      \* whether the owner may link a project to itself
    Gaps        \* {"check"} opens the windows between check and save

ASSUME LinkAssumption == Loops \in BOOLEAN /\ Gaps \subseteq {"check"}

VARIABLES
    links,      \* the rows of project_link
    judging,    \* open project_link jobs, each on a pair of projects
    saving      \* writers between their check and their save

vars == <<alias, links, judging, saving>>

Kinds == {"same", "part_of", "related"}
Link  == [kind: Kinds, source: Slugs, target: Slugs, confirmed: BOOLEAN, unrelated: BOOLEAN]
Rows  == Link \cup {NoLink}

ASSUME NoLinkAssumption == NoLink \notin Link /\ NoLink \notin Ids

Init ==
    /\ NoAliases
    /\ links = [i \in Ids |-> NoLink]
    /\ judging = {}
    /\ saving = {}

-----------------------------------------------------------------------------
Held(table) == {i \in Ids : table[i] # NoLink}

Ends(link) == {link.source, link.target}

OfPair(table, a, b) == {i \in Held(table) : Ends(table[i]) = {a, b}}

Around(table, p) == {i \in Held(table) : p \in Ends(table[i])}

(* The part_of edges, without those of the pair that is being replaced.    *)
Edges(table) ==
    {<<table[i].source, table[i].target>> :
        i \in {j \in Held(table) : table[j].kind = "part_of" /\ ~table[j].unrelated}}

Upward(table, a, b) == {e \in Edges(table) : {e[1], e[2]} # {a, b}}

(* Whatever set holds `from` and all that its members are part of holds    *)
(* `to`: what the walk of would_cycle finds.                               *)
Reaches(edges, from, to) ==
    \A S \in SUBSET Slugs :
        from \in S /\ (\A e \in edges : e[1] \in S => e[2] \in S) => to \in S

WouldCycle(table, source, target) == Reaches(Upward(table, source, target), target, source)

Settled(table, kind, source, target) ==
    IF kind = "part_of" /\ WouldCycle(table, source, target) THEN "related" ELSE kind

-----------------------------------------------------------------------------
(* Saving.  `id` is NoLink for an insert.  (source, target) is unique; a   *)
(* row deleted meanwhile, or a violated constraint, fails the request.     *)

Column(now, loaded, wanted) == IF wanted = loaded THEN now ELSE wanted

Changed(now, loaded, wanted) ==
    [kind      |-> Column(now.kind, loaded.kind, wanted.kind),
     source    |-> Column(now.source, loaded.source, wanted.source),
     target    |-> Column(now.target, loaded.target, wanted.target),
     confirmed |-> Column(now.confirmed, loaded.confirmed, wanted.confirmed),
     unrelated |-> Column(now.unrelated, loaded.unrelated, wanted.unrelated)]

Taken(table, id, link) ==
    \E i \in Held(table) \ {id} : table[i].source = link.source /\ table[i].target = link.target

Stores(w) ==
    IF w.id = NoLink
    THEN {[links EXCEPT ![i] = w.wanted] :
            i \in {j \in Ids \ (Held(links) \cup {v.id : v \in saving}) :
                    ~Taken(links, NoLink, w.wanted)}}
    ELSE {[links EXCEPT ![i] = Changed(@, w.loaded, w.wanted)] :
            i \in {j \in Held(links) \cap {w.id} :
                    ~Taken(links, j, Changed(links[j], w.loaded, w.wanted))}}

Insert(link) == [id |-> NoLink, loaded |-> NoLink, wanted |-> link]

Update(i, link) == [id |-> i, loaded |-> links[i], wanted |-> link]

UpsertsAsStated(link) ==
    LET same == {i \in Held(links) : links[i].source = link.source /\ links[i].target = link.target} IN
    IF same = {} THEN {Insert(link)} ELSE {Update(i, link) : i \in same}

(* The row of the pair, changed to what the writer wants, or a new one.    *)
Upserts(link) ==
    IF OfPair(links, link.source, link.target) = {}
    THEN {Insert(link)}
    ELSE {Update(i, link) : i \in OfPair(links, link.source, link.target)}

Submit(w) ==
    \/ /\ links' \in Stores(w)
       /\ UNCHANGED saving
    \/ /\ "check" \in Gaps
       /\ Cardinality(saving) < MaxWriters
       /\ saving' = saving \cup {w}
       /\ UNCHANGED links

(* The save, or the request failing before it.                             *)
Save(w) ==
    /\ saving' = saving \ {w}
    /\ links' \in Stores(w) \cup {links}
    /\ UNCHANGED <<alias, judging>>

-----------------------------------------------------------------------------
(* The owner writes a link, or changes the one the pair has.               *)
WriteLink(a, b, kind, confirmed) ==
    LET source == Resolve(a)
        target == Resolve(b)
    IN  /\ Loops \/ source # target
        /\ ~(kind = "part_of" /\ WouldCycle(links, source, target))
        /\ \E w \in Upserts([kind |-> kind, source |-> source, target |-> target,
                             confirmed |-> confirmed, unrelated |-> FALSE]) : Submit(w)
        /\ UNCHANGED <<alias, judging>>

(* A session result names a project: a link nobody has is stored.          *)
AbsorbLink(a, b, kind) ==
    LET owner == Resolve(a)
        other == Resolve(b)
    IN  /\ owner # other
        /\ OfPair(links, owner, other) = {}
        /\ Submit(Insert([kind |-> Settled(links, kind, owner, other), source |-> owner,
                          target |-> other, confirmed |-> FALSE, unrelated |-> FALSE]))
        /\ UNCHANGED <<alias, judging>>

(* The sweep opens a job for a pair nobody has judged.                     *)
SweepLinks(a, b) ==
    LET pair == {Resolve(a), Resolve(b)} IN
    /\ Resolve(a) # Resolve(b)
    /\ OfPair(links, Resolve(a), Resolve(b)) = {}
    /\ Cardinality(judging) < MaxOpen
    /\ judging' = judging \cup {pair}
    /\ UNCHANGED <<alias, links, saving>>

JudgedKindAsGiven(left, right, verdict) == verdict

JudgedKind(left, right, verdict) ==
    IF verdict = "unrelated" THEN "related" ELSE Settled(links, verdict, left, right)

(* A verdict on a pair.  The job is settled after the link is saved, so a  *)
(* verdict may come twice.  What the owner confirmed stands.               *)
Judged(left, right, verdict) ==
    /\ {left, right} \in judging
    /\ judging' \in {judging, judging \ {{left, right}}}
    /\ IF \E i \in OfPair(links, left, right) : links[i].confirmed
       THEN UNCHANGED <<links, saving>>
       ELSE \E w \in Upserts([kind |-> JudgedKind(left, right, verdict),
                              source |-> left, target |-> right, confirmed |-> FALSE,
                              unrelated |-> verdict = "unrelated"]) : Submit(w)
    /\ UNCHANGED alias

(* The owner confirms a link, the other way round if asked to.             *)
ConfirmLink(a, b, reverse) ==
    \E i \in OfPair(links, Resolve(a), Resolve(b)) :
        LET link   == links[i]
            turned == [link EXCEPT !.source = link.target, !.target = link.source]
        IN  /\ link.kind # "same"
            /\ ~(reverse /\ link.kind = "part_of" /\ WouldCycle(links, link.target, link.source))
            /\ Submit(Update(i, [(IF reverse THEN turned ELSE link) EXCEPT !.confirmed = TRUE]))
            /\ UNCHANGED <<alias, judging>>

DropLink(a, b) ==
    /\ \E i \in OfPair(links, Resolve(a), Resolve(b)) : links' = [links EXCEPT ![i] = NoLink]
    /\ UNCHANGED <<alias, judging, saving>>

-----------------------------------------------------------------------------
(* Merging.  carry_links moves the links of the merged project over,       *)
(* unless the pair has one already, and then turns those that close a      *)
(* cycle into mere relations, one after the other.                         *)

AllPairs(source) == judging

(* drop_pairs: open jobs on the project that goes away go with it.         *)
PairsWithout(source) == {pair \in judging : source \notin pair}

Other(link, p) == IF link.source = p THEN link.target ELSE link.source

MovableWithPair(source, target) == {Around(links, source)}

(* Which links of `source` move; a link of the pair, or of a project that  *)
(* `target` is linked with, is deleted.  A project linked to itself moves  *)
(* or not depending on whether the link of the pair went first.            *)
Movable(source, target) ==
    {kept \in SUBSET Around(links, source) :
        /\ \A i \in kept :
            /\ Other(links[i], source) # target
            /\ Other(links[i], source) = source
                \/ OfPair(links, target, Other(links[i], source)) = {}
            /\ \A j \in kept : Other(links[i], source) = Other(links[j], source) => i = j
        /\ \A i \in Around(links, source) \ kept :
            \/ Other(links[i], source) = target
            \/ OfPair(links, target, Other(links[i], source)) # {}
            \/ \E j \in kept : Other(links[i], source) = Other(links[j], source)}

Moved(link, source, target) ==
    IF link.source = source THEN [link EXCEPT !.source = target]
                            ELSE [link EXCEPT !.target = target]

Relinked(kept, source, target) ==
    [i \in Ids |-> IF i \notin Around(links, source) THEN links[i]
                  ELSE IF i \in kept THEN Moved(links[i], source, target) ELSE NoLink]

Demoted(table, gone) == [i \in Ids |-> IF i \in gone THEN [table[i] EXCEPT !.kind = "related"]
                                                    ELSE table[i]]

(* The links at p that are demoted when they are looked at in this order.  *)
Demotions(table, p) ==
    LET at == {i \in Around(table, p) : table[i].kind = "part_of"} IN
    {gone \in SUBSET at :
        \E order \in [at -> 1..Cardinality(at)] :
            /\ \A i, j \in at : order[i] = order[j] => i = j
            /\ \A i \in at :
                i \in gone <=> WouldCycle(Demoted(table, {j \in gone : order[j] < order[i]}),
                                         table[i].source, table[i].target)}

CarriedUnchecked(source, target) ==
    {Relinked(kept, source, target) : kept \in Movable(source, target)}

Carried(source, target) ==
    UNION {{Demoted(table, gone) : gone \in Demotions(table, target)} :
            table \in {Relinked(kept, source, target) : kept \in Movable(source, target)}}

Merge(a, b) ==
    LET source == Resolve(a)
        target == MergeTarget(source, b)
    IN  /\ source # target
        /\ Redirect(source, target)
        /\ judging' = PairsWithout(source)
        /\ links' \in Carried(source, target)
        /\ UNCHANGED saving

(* Applying a link that says two projects are the same merges them, and    *)
(* deletes the link if the merge has not.                                  *)
ApplySame(a, b, reverse) ==
    \E i \in OfPair(links, Resolve(a), Resolve(b)) :
        LET held   == IF reverse THEN links[i].target ELSE links[i].source
            holder == IF reverse THEN links[i].source ELSE links[i].target
            source == Resolve(held)
            target == MergeTarget(source, holder)
        IN  /\ links[i].kind = "same"
            /\ source # target
            /\ Redirect(source, target)
            /\ judging' = PairsWithout(source)
            /\ \E table \in Carried(source, target) : links' = [table EXCEPT ![i] = NoLink]
            /\ UNCHANGED saving

DeleteProject(a) ==
    LET slug == Resolve(a) IN
    /\ Forgotten(slug)
    /\ judging' = PairsWithout(slug)
    /\ links' = [i \in Ids |-> IF i \in Around(links, slug) THEN NoLink ELSE links[i]]
    /\ UNCHANGED saving

-----------------------------------------------------------------------------
OwnerWrites ==
    \E a, b \in Slugs :
        \/ \E kind \in Kinds, confirmed \in BOOLEAN : WriteLink(a, b, kind, confirmed)
        \/ \E reverse \in BOOLEAN : ConfirmLink(a, b, reverse) \/ ApplySame(a, b, reverse)
        \/ DropLink(a, b)
        \/ Merge(a, b)

WorkerWrites ==
    \E a, b \in Slugs :
        \/ \E kind \in Kinds : AbsorbLink(a, b, kind)
        \/ \E verdict \in Kinds \cup {"unrelated"} : Judged(a, b, verdict)
        \/ SweepLinks(a, b)

Next ==
    \/ OwnerWrites
    \/ WorkerWrites
    \/ \E a \in Slugs : DeleteProject(a)
    \/ \E w \in saving : Save(w)

Spec == Init /\ [][Next]_vars

-----------------------------------------------------------------------------
(* Properties.                                                             *)

(* Every variable has its type (ProjectLink, backend/models.py).           *)
TypeOK ==
    /\ AliasType
    /\ links \in [Ids -> Rows]
    /\ judging \in SUBSET (SUBSET Slugs)
    /\ saving \in SUBSET [id: Ids \cup {NoLink}, loaded: Rows, wanted: Link]

Acyclic(edges) ==
    \A S \in SUBSET Slugs : S # {} => \E p \in S : \A e \in edges : e[1] = p => e[2] \notin S

(* A project is never part of itself, directly or through others, whatever *)
(* is written, judged, turned round or merged (would_cycle, settled,       *)
(* carry_links): in every set of projects one is part of no other of them. *)
PartOfAcyclic == Acyclic(Edges(links))

(* Two projects have at most one link, in whichever direction it was       *)
(* stated: find() returns the first of them, and would_cycle leaves the    *)
(* whole pair out (ProjectLinkRepository.find).                            *)
OneLinkAPair ==
    \A i, j \in Held(links) : Ends(links[i]) = Ends(links[j]) => i = j

(* Unless the owner asked for it, no project is linked to itself: merging  *)
(* linked projects drops their link, and no save that comes late brings    *)
(* one about (carry_links, absorb).                                        *)
NoSelfLinks == ~Loops => \A i \in Held(links) : links[i].source # links[i].target

(* No link and no open judgement names a project that was merged away:     *)
(* names are resolved before they are looked up, so such a link could no   *)
(* longer be found, changed or dropped (carry_links, drop_pairs).          *)
NamesAreLive ==
    /\ \A i \in Held(links) : \A p \in Ends(links[i]) : alias[p] = Unmerged
    /\ \A pair \in judging : \A p \in pair : alias[p] = Unmerged

(* Together: the links of the projects that are left are a graph in which  *)
(* one look-up finds a pair, and which can be drawn as a tree.             *)
LinksSound == TypeOK /\ OneLinkAPair /\ PartOfAcyclic /\ AliasesFlat
=============================================================================
