---------------------------- MODULE GitNetworks ----------------------------
(***************************************************************************)
(* Clones of git repositories and what the server holds of them.  On every  *)
(* Stop, push_git (hooks/kbstore_hook.py) asks which refs the server knows,  *)
(* bundles the history since, uploads the bundle and has it ingested        *)
(* (GitService, backend/services/git.py); then the same for a snapshot of   *)
(* the working tree.  A clone registers as a source, in the network that    *)
(* has one of its root commits; all sources of a network share one bare     *)
(* repository.                                                              *)
(*                                                                         *)
(* A step is what a request does between two awaits of the server, or the   *)
(* hook between two calls.  Git commands on the server block its loop.      *)
(***************************************************************************)
EXTENDS Integers, FiniteSets

CONSTANTS
    Commits,
    Ancestors,      \* of each commit, itself among them
    Trees,          \* of a working tree that differs from its HEAD
    Clones,         \* a clone is one (device, path)
    Pushers,        \* hooks, each for the Stops of one clone
    CloneOf,
    Small,          \* clones below FIRST_PUSH_LIMIT_KB
    Networks,       \* ids of git_network rows; bound: how many
    MaxWork,        \* bound: changes to each clone
    MaxPushes,      \* bound: Stops of each hook
    MaxRunning,     \* bound: hooks that run at once
    Nil             \* no commit, tree, network or source

History(tips) == UNION {Ancestors[c] : c \in tips}
RootsIn(commits) == {c \in commits : Ancestors[c] = {c}}

ASSUME CommitAssumption ==
    /\ Ancestors \in [Commits -> SUBSET Commits]
    /\ \A c \in Commits : c \in Ancestors[c] /\ \A b \in Ancestors[c] : Ancestors[b] \subseteq Ancestors[c]
ASSUME CloneAssumption  == CloneOf \in [Pushers -> Clones] /\ Small \subseteq Clones
ASSUME WorkAssumption   == MaxWork \in [Clones -> Nat] /\ MaxPushes \in [Pushers -> Nat] /\ MaxRunning \in Nat
ASSUME NetworkAssumption == IsFiniteSet(Networks)

\* A row of git_source.
SourceRow == [net: Networks, refs: SUBSET Commits, snapshot: Trees \cup {Nil}, base: SUBSET Commits]

ASSUME NilAssumption ==
    Nil \notin Commits \cup Trees \cup Networks \cup SourceRow /\ \A roots \in SUBSET Commits : roots # Nil

VARIABLES
    head,       \* of each clone; Nil while it has no commit
    objects,    \* commits in each clone
    tree,       \* of its working tree; Nil when it is the one of HEAD
    marker,     \* the last snapshot acknowledged: STATE_DIR/snapshots
    works,
    pushes,
    push,       \* what each hook, and the request it waits for, is doing
    rootsOf,    \* git_network.roots; Nil when there is no such row
    store,      \* commits in each network's repository
    source,     \* the clone's git_source row, or Nil
    together,   \* history: two first pushes ran at once
    joined,     \* history: clones whose roots changed once registered, or that have roots of two networks
    blurred     \* history: clones with a lost answer, or two pushes at once

cloneVars == <<head, objects, tree, works>>
rowVars   == <<rootsOf, store, source>>
gitVars   == <<cloneVars, marker, push, pushes, rowVars, together, joined, blurred>>

\* A bundle: the commits it brings and those it needs, its tip, the tree of a
\* snapshot, and the roots named in the request that has it ingested.
Empty == [snapshot |-> FALSE, brings |-> {}, needs |-> {}, tip |-> Nil, tree |-> Nil, roots |-> {}]

\* A push goes through the phases history, posted, [founding], [carrying],
\* [registering], fetching, saving, saved; then the same for the snapshot.
\* known: the clone was registered when the hook asked, or ingest looked;
\* tips: the commits the server named and the clone has; net: the network of
\* the request; read: its roots when they were read.
Rest == [phase |-> "rest", known |-> FALSE, tips |-> {}, bundle |-> Empty, net |-> Nil, read |-> {}]

\* refs: its branches; base: the commits its snapshot stands on.
NewSource(n) == [net |-> n, refs |-> {}, snapshot |-> Nil, base |-> {}]

Rows     == {n \in Networks : rootsOf[n] # Nil}

\* Mutant: all roots must be the same.
SharingAll(roots) == {n \in Rows : rootsOf[n] = roots}

Sharing(roots) == {n \in Rows : rootsOf[n] \cap roots # {}}
Running  == {p \in Pushers : push[p].phase # "rest"}
Heads(c) == {head[c]} \ {Nil}

GitInit ==
    /\ head    = [c \in Clones |-> Nil]
    /\ objects = [c \in Clones |-> {}]
    /\ tree    = [c \in Clones |-> Nil]
    /\ marker  = [c \in Clones |-> Nil]
    /\ works   = [c \in Clones |-> 0]
    /\ push    = [p \in Pushers |-> Rest]
    /\ pushes  = [p \in Pushers |-> 0]
    /\ rootsOf = [n \in Networks |-> Nil]
    /\ store   = [n \in Networks |-> {}]
    /\ source  = [c \in Clones |-> Nil]
    /\ together = FALSE /\ joined = {} /\ blurred = {}

Become(p, q) == push' = [push EXCEPT ![p] = q]

-----------------------------------------------------------------------------
(* The clone, which has one branch.                                        *)

Worked(c) ==
    /\ works[c] < MaxWork[c]
    /\ works' = [works EXCEPT ![c] = @ + 1]
    /\ UNCHANGED <<marker, push, pushes, rowVars, together, blurred>>

Roots(commit) == RootsIn(History({commit} \ {Nil}))

\* A commit, a pull, a reset.
MoveBranch(c, commit) ==
    /\ Worked(c)
    /\ head'    = [head EXCEPT ![c] = commit]
    /\ objects' = [objects EXCEPT ![c] = @ \cup Ancestors[commit]]
    /\ joined'  = IF Roots(commit) # Roots(head[c]) /\ (source[c] # Nil \/ \E p \in Running : CloneOf[p] = c)
                  THEN joined \cup {c} ELSE joined
    /\ UNCHANGED tree

EditTree(c, t) ==
    /\ Worked(c) /\ tree[c] # t
    /\ tree' = [tree EXCEPT ![c] = t]
    /\ UNCHANGED <<head, objects, joined>>

-----------------------------------------------------------------------------
(* push_git, push_history and push_snapshot.                               *)

\* Mutant: the refs of every source, whatever its network.
AnnouncedAll(c) == UNION {source[d].refs : d \in {e \in Clones : source[e] # Nil}}

\* GitService.known: the refs of every source in the clone's network.
Announced(c) == IF source[c] = Nil THEN {}
                ELSE UNION {source[d].refs : d \in {e \in Clones : source[e] # Nil /\ source[e].net = source[c].net}}

\* A request without an answer, which the hook takes for a clone that is not
\* registered and so sends everything anew, is left out.
AskKnown(p) ==
    LET c     == CloneOf[p]
        every == Announced(c)
        first == source[c] = Nil
        tips  == every \cap objects[c]
        q     == [Rest EXCEPT !.known = ~first, !.tips = tips]
    IN  /\ push[p].phase = "rest" /\ pushes[p] < MaxPushes[p] /\ Cardinality(Running) < MaxRunning
        /\ pushes' = [pushes EXCEPT ![p] = @ + 1]
        /\ (first \/ (Heads(c) # {} /\ every = {})) => c \in Small
        /\ Become(p, [q EXCEPT !.phase = IF Heads(c) \subseteq tips THEN "snapshot" ELSE "history"])
        /\ together' = (together \/ (first /\ \E o \in Running : ~push[o].known))
        /\ blurred' = IF \E o \in Running : CloneOf[o] = c THEN blurred \cup {c} ELSE blurred
        /\ UNCHANGED <<cloneVars, marker, rowVars, joined>>

\* Git makes no empty bundle.
PushHistory(p) ==
    LET c     == CloneOf[p]
        lacks == History(Heads(c)) \ History(push[p].tips)
    IN  /\ push[p].phase = "history"
        /\ Become(p, IF lacks = {} THEN Rest
                     ELSE [push[p] EXCEPT !.phase = "posted",
                              !.bundle = [Empty EXCEPT !.brings = lacks, !.needs = History(Heads(c)) \ lacks,
                                                       !.tip = head[c], !.roots = Roots(head[c])]])
        /\ UNCHANGED <<cloneVars, pushes, marker, rowVars, together, joined, blurred>>

\* Mutant: the snapshot is marked when it is taken.
PushSnapshotMarking(p) ==
    LET c == CloneOf[p]
    IN  /\ push[p].phase = "snapshot"
        /\ marker' = [marker EXCEPT ![c] = tree[c]]
        /\ Become(p, IF tree[c] \in {Nil, marker[c]} THEN Rest
                     ELSE [push[p] EXCEPT !.phase = "posted",
                              !.bundle = [Empty EXCEPT !.snapshot = TRUE, !.needs = Heads(c), !.tree = tree[c]]])
        /\ UNCHANGED <<cloneVars, pushes, rowVars, together, joined, blurred>>

PushSnapshot(p) ==
    LET c == CloneOf[p]
    IN  /\ push[p].phase = "snapshot"
        /\ Become(p, IF tree[c] \in {Nil, marker[c]} THEN Rest
                     ELSE [push[p] EXCEPT !.phase = "posted",
                              !.bundle = [Empty EXCEPT !.snapshot = TRUE, !.needs = Heads(c), !.tree = tree[c]]])
        /\ UNCHANGED <<cloneVars, pushes, marker, rowVars, together, joined, blurred>>

\* The request succeeded.
Acknowledged(p) ==
    LET c == CloneOf[p]
    IN  /\ push[p].phase = "saved"
        /\ IF push[p].bundle.snapshot
           THEN marker' = [marker EXCEPT ![c] = push[p].bundle.tree] /\ Become(p, Rest)
           ELSE Become(p, [Rest EXCEPT !.phase = "snapshot", !.known = TRUE]) /\ UNCHANGED marker
        /\ UNCHANGED <<cloneVars, pushes, rowVars, together, joined, blurred>>

\* A call fails, or its answer is lost; the hook is killed; the server stops.
GiveUpGit(p) ==
    /\ push[p].phase # "rest"
    /\ Become(p, Rest)
    /\ blurred' = blurred \cup {CloneOf[p]}
    /\ UNCHANGED <<cloneVars, pushes, marker, rowVars, together, joined>>

-----------------------------------------------------------------------------
(* GitService.ingest.                                                      *)

\* carry_roots saves the network when the request names roots it lacks.
Carry(q) ==
    [q EXCEPT !.phase = IF ~(q.bundle.roots \subseteq q.read) THEN "carrying"
                        ELSE IF q.known THEN "fetching" ELSE "registering"]

\* source_of and network_of look for the source, then for a network.
LookUp(p) ==
    LET q == push[p]
        c == CloneOf[p]
        In(n, known) == [q EXCEPT !.known = known, !.net = n, !.read = rootsOf[n]]
    IN  /\ q.phase = "posted"
        /\ IF source[c] # Nil THEN Become(p, Carry(In(source[c].net, TRUE)))
           ELSE \/ Sharing(q.bundle.roots) = {} /\ Become(p, [q EXCEPT !.phase = "founding"])
                \/ \E n \in Sharing(q.bundle.roots) : Become(p, Carry(In(n, FALSE)))
        /\ joined' = IF source[c] = Nil /\ Cardinality(Sharing(q.bundle.roots)) > 1 THEN joined \cup {c} ELSE joined
        /\ UNCHANGED <<cloneVars, pushes, marker, rowVars, together, blurred>>

NextId == CHOOSE n \in Networks \ Rows : TRUE

FoundNetwork(p) ==
    LET q == push[p]
    IN  /\ q.phase = "founding"
        /\ Networks \ Rows # {}
        /\ rootsOf' = [rootsOf EXCEPT ![NextId] = q.bundle.roots]
        /\ Become(p, [q EXCEPT !.phase = "registering", !.net = NextId])
        /\ UNCHANGED <<cloneVars, pushes, marker, store, source, together, joined, blurred>>

\* The new roots are those that were read and the missing ones: what another
\* request added since is lost.
CarryRoots(p) ==
    LET q == push[p]
    IN  /\ q.phase = "carrying"
        /\ rootsOf' = [rootsOf EXCEPT ![q.net] = q.read \cup q.bundle.roots]
        /\ Become(p, Carry([q EXCEPT !.read = rootsOf'[q.net]]))
        /\ UNCHANGED <<cloneVars, pushes, marker, store, source, together, joined, blurred>>

\* uq_git_source_location refuses the second of two.
Register(p) ==
    LET c == CloneOf[p]
    IN  /\ push[p].phase = "registering"
        /\ IF source[c] = Nil
           THEN /\ source' = [source EXCEPT ![c] = NewSource(push[p].net)]
                /\ Become(p, [push[p] EXCEPT !.phase = "fetching"])
           ELSE Become(p, Rest) /\ UNCHANGED source
        /\ UNCHANGED <<cloneVars, pushes, marker, rootsOf, store, together, joined, blurred>>

\* Mutant: the bundle is not verified.
FetchUnverified(p) ==
    LET q == push[p]
    IN  /\ q.phase = "fetching"
        /\ store' = [store EXCEPT ![q.net] = @ \cup q.bundle.brings]
        /\ Become(p, [q EXCEPT !.phase = "saving"])
        /\ UNCHANGED <<cloneVars, pushes, marker, rootsOf, source, together, joined, blurred>>

\* git bundle verify, git fetch --force.
Fetch(p) ==
    LET q == push[p]
    IN  /\ q.phase = "fetching"
        /\ IF q.bundle.needs \subseteq store[q.net]
           THEN /\ store' = [store EXCEPT ![q.net] = @ \cup q.bundle.brings]
                /\ Become(p, [q EXCEPT !.phase = "saving"])
           ELSE Become(p, Rest) /\ UNCHANGED store
        /\ UNCHANGED <<cloneVars, pushes, marker, rootsOf, source, together, joined, blurred>>

SaveSource(p) ==
    LET q == push[p]
        c == CloneOf[p]
    IN  /\ q.phase = "saving"
        /\ source' = IF q.bundle.snapshot
                     THEN [source EXCEPT ![c].snapshot = q.bundle.tree, ![c].base = q.bundle.needs]
                     ELSE [source EXCEPT ![c].refs = {q.bundle.tip}]
        /\ Become(p, [Rest EXCEPT !.phase = "saved", !.known = TRUE, !.bundle = q.bundle])
        /\ UNCHANGED <<cloneVars, pushes, marker, rootsOf, store, together, joined, blurred>>

GitNext ==
    \/ \E c \in Clones : \/ \E commit \in Commits : MoveBranch(c, commit)
                         \/ \E t \in Trees \cup {Nil} : EditTree(c, t)
    \/ \E p \in Pushers : \/ AskKnown(p) \/ PushHistory(p) \/ PushSnapshot(p) \/ Acknowledged(p) \/ GiveUpGit(p)
                          \/ LookUp(p) \/ FoundNetwork(p) \/ CarryRoots(p) \/ Register(p) \/ Fetch(p) \/ SaveSource(p)

GitSpec == GitInit /\ [][GitNext]_gitVars

-----------------------------------------------------------------------------
(* Properties.                                                             *)

Bundle == [snapshot: BOOLEAN, brings: SUBSET Commits, needs: SUBSET Commits, tip: Commits \cup {Nil},
           tree: Trees \cup {Nil}, roots: SUBSET Commits]
Push   == [phase: {"rest", "history", "snapshot", "posted", "founding", "carrying", "registering",
                   "fetching", "saving", "saved"},
           known: BOOLEAN, tips: SUBSET Commits, bundle: Bundle, net: Networks \cup {Nil}, read: SUBSET Commits]

\* Every variable has its type; a request reads the roots of a row that is there.
GitTypeOK ==
    /\ head \in [Clones -> Commits \cup {Nil}] /\ objects \in [Clones -> SUBSET Commits]
    /\ tree \in [Clones -> Trees \cup {Nil}] /\ marker \in [Clones -> Trees \cup {Nil}]
    /\ works \in [Clones -> Nat] /\ pushes \in [Pushers -> Nat]
    /\ push \in [Pushers -> Push]
    /\ rootsOf \in [Networks -> (SUBSET Commits) \cup {Nil}] /\ store \in [Networks -> SUBSET Commits]
    /\ source \in [Clones -> SourceRow \cup {Nil}]
    /\ together \in BOOLEAN /\ joined \in SUBSET Clones /\ blurred \in SUBSET Clones

\* A network's repository never has a commit without its ancestors, whatever
\* the order of pushes and failures: the refs a hook is told of are whole
\* there, and so is what a snapshot stands on (known, ingest, bundle_of).
HistoryWhole ==
    /\ \A n \in Networks : History(store[n]) \subseteq store[n]
    /\ \A c \in Clones : source[c] # Nil => source[c].refs \cup source[c].base \subseteq store[source[c].net]

\* The server never refuses a bundle of history: what the hook left out, since
\* the server named it, is in the repository that the bundle goes to, though
\* sources register and push in between (push_git, push_history).
BundlesFit ==
    \A p \in Pushers :
        push[p].phase \notin {"rest", "history", "snapshot"} /\ ~push[p].bundle.snapshot
        => IF source[CloneOf[p]] = Nil THEN push[p].bundle.needs = {}
           ELSE push[p].bundle.needs \subseteq store[source[CloneOf[p]].net]

\* Clones with a root commit in common end up in one network, unless two first
\* pushes ran at once, or a clone gained roots later or brought together the
\* roots of two networks, which are not merged (network_of, carry_roots).
OneNetworkARoot ==
    ~together /\ joined = {} => \A m, n \in Rows : m # n => rootsOf[m] \cap rootsOf[n] = {}

\* A snapshot that is not sent again is the one the server has, unless an
\* answer was lost or two hooks pushed the same clone at once (push_snapshot).
SkippedIsHeld ==
    \A c \in Clones \ blurred :
        marker[c] # Nil /\ ~(\E p \in Running : CloneOf[p] = c)
        => source[c] # Nil /\ source[c].snapshot = marker[c]

\* Whatever clones push, in whatever order, the server's repositories are whole
\* and shared, and what a hook leaves out is there.
NetworksHold == GitTypeOK /\ HistoryWhole /\ BundlesFit /\ OneNetworkARoot /\ SkippedIsHeld
=============================================================================
