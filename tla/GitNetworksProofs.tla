-------------------------- MODULE GitNetworksProofs --------------------------
(***************************************************************************)
(* Theorems about GitNetworks: whatever clones push, in whatever order, and  *)
(* whatever fails, repositories are whole, bundles fit, clones that share a  *)
(* root share a repository, and what is not sent again is held.             *)
(***************************************************************************)
EXTENDS GitNetworks, FiniteSetTheorems, TLAPS

Busy(p) == push[p].phase # "rest"

\* The bundle is made, and the request for it has not ended.
Sent(p) == push[p].phase \notin {"rest", "history", "snapshot"}

\* The network that a clone's pushes go to has this of the set.
Has(c, commits) == source[c] # Nil /\ commits \subseteq store[source[c].net]

(* A push that knows a source, or is past the registration, has one, in the *)
(* network it works on; what its bundle leaves out is there.               *)
PushSound(p) ==
    LET q == push[p]
        c == CloneOf[p]
    IN  /\ q.tips = {} \/ Has(c, q.tips)
        /\ History(q.bundle.brings) \subseteq q.bundle.brings \cup q.bundle.needs
        /\ Sent(p) /\ ~q.bundle.snapshot => /\ q.bundle.tip \in q.bundle.brings \cup q.bundle.needs
                                            /\ q.bundle.needs = {} \/ Has(c, q.bundle.needs)
        /\ q.known => source[c] # Nil
        /\ q.phase = "saved" => q.known
        /\ q.phase \in {"founding", "registering"} => ~q.known
        /\ q.phase \in {"carrying", "registering", "fetching", "saving"} => q.net \in Rows
        /\ q.phase \in {"fetching", "saving"} \/ (q.phase = "carrying" /\ q.known)
           => source[c] # Nil /\ source[c].net = q.net
        /\ q.phase = "saving" => q.bundle.brings \cup q.bundle.needs \subseteq store[q.net]

SourceSound(c) == source[c] # Nil => source[c].net \in Rows /\ Has(c, source[c].refs \cup source[c].base)

GitInv ==
    /\ GitTypeOK
    /\ \A n \in Networks : History(store[n]) \subseteq store[n]
    /\ \A c \in Clones : SourceSound(c)
    /\ \A p \in Pushers : PushSound(p)

(* One push of a clone at a time: a marker that the server's snapshot does  *)
(* not match belongs to a push that has not heard of its success yet.      *)
Skips(c) ==
    /\ \A o, p \in Pushers : Busy(o) /\ Busy(p) /\ CloneOf[o] = c /\ CloneOf[p] = c => o = p
    /\ \A p \in Pushers : CloneOf[p] = c /\ push[p].phase = "saved" /\ push[p].bundle.snapshot
                          => source[c] # Nil /\ source[c].snapshot = push[p].bundle.tree
    /\ marker[c] # Nil =>
         /\ source[c] # Nil
         /\ \/ source[c].snapshot = marker[c]
            \/ \E p \in Pushers : CloneOf[p] = c /\ push[p].phase = "saved" /\ push[p].bundle.snapshot

SkipsInv == \A c \in Clones \ blurred : Skips(c)

(* While no two first pushes run at once and no clone gains roots, the one  *)
(* first push that runs is the only writer of roots: what it read is what  *)
(* there is, and no other network has a root it is about to write.         *)
Simple == ~together /\ joined = {}

RootsSound(p) ==
    LET q     == push[p]
        roots == q.bundle.roots
        mine  == Roots(head[CloneOf[p]])
    IN  /\ q.phase = "snapshot" /\ ~q.known => mine = {}
        /\ Sent(p) => roots \subseteq mine
        /\ Sent(p) /\ ~q.known => roots = mine
        /\ q.phase = "carrying" => ~q.known
        /\ q.phase = "founding" => Sharing(roots) = {}
        /\ q.phase = "carrying" => q.read = rootsOf[q.net] /\ Sharing(roots) \subseteq {q.net}
        /\ q.phase = "registering" => roots \subseteq rootsOf[q.net]

First(p) == Busy(p) /\ ~push[p].known

RootsInv ==
    Simple =>
      /\ \A o, p \in Pushers : First(o) /\ First(p) => o = p
      /\ \A m, n \in Rows : m # n => rootsOf[m] \cap rootsOf[n] = {}
      /\ \A c \in Clones : source[c] # Nil => Roots(head[c]) \subseteq rootsOf[source[c].net]
      /\ \A p \in Pushers : RootsSound(p)

-----------------------------------------------------------------------------
(* History.                                                                *)

LEMMA HistoryType ==
    ASSUME NEW tips, tips \subseteq Commits
    PROVE  /\ History(tips) \subseteq Commits /\ RootsIn(History(tips)) \subseteq Commits
           /\ tips \subseteq History(tips)
           /\ History(History(tips)) \subseteq History(tips)
  BY CommitAssumption DEF History, RootsIn

LEMMA HistoryMonotone ==
    ASSUME NEW A, NEW B, A \subseteq B
    PROVE  History(A) \subseteq History(B)
  BY DEF History

LEMMA HistoryOfNothing == History({}) = {}
  BY DEF History

LEMMA HistoryUnion ==
    ASSUME NEW A, NEW B
    PROVE  History(A \cup B) = History(A) \cup History(B)
  BY DEF History

LEMMA RootsType ==
    ASSUME NEW commit \in Commits \cup {Nil}
    PROVE  Roots(commit) \subseteq Commits
  <1>1. {commit} \ {Nil} \subseteq Commits
    OBVIOUS
  <1> QED BY <1>1, HistoryType DEF Roots

-----------------------------------------------------------------------------
(* The invariant of repositories, sources and bundles.                     *)

(* What the server has, it keeps.                                          *)
Grows ==
    /\ \A n \in Networks : store[n] \subseteq store'[n] /\ (n \in Rows => n \in Rows')
    /\ \A c \in Clones : source[c] # Nil => source'[c] # Nil /\ source'[c].net = source[c].net

LEMMA HasStays ==
    ASSUME GitTypeOK, Grows, NEW c \in Clones, NEW S, Has(c, S)
    PROVE  Has(c, S)'
  <1>1. source[c] \in SourceRow /\ source[c] # Nil
    BY DEF GitTypeOK, Has
  <1>2. source[c].net \in Networks /\ source'[c] # Nil /\ source'[c].net = source[c].net
    BY <1>1 DEF SourceRow, Grows
  <1> QED BY <1>2 DEF Has, Grows

LEMMA PushStays ==
    ASSUME GitTypeOK, Grows, NEW p \in Pushers, PushSound(p), push'[p] = push[p]
    PROVE  PushSound(p)'
  <1> DEFINE q == push[p]
             c == CloneOf[p]
  <1>1. c \in Clones /\ q.bundle.brings \cup q.bundle.needs \subseteq Commits
    BY CloneAssumption DEF GitTypeOK, Push, Bundle
  <1>2. \A S : Has(c, S) => Has(c, S)'
    BY <1>1, HasStays
  <1>3. q.net \in Rows => q.net \in Rows' /\ store[q.net] \subseteq store'[q.net]
    BY DEF Grows, Rows
  <1>4. source[c] # Nil => source'[c] # Nil /\ source'[c].net = source[c].net
    BY <1>1 DEF Grows
  <1>5. (q.tips = {} \/ Has(c, q.tips)) => (q.tips = {} \/ Has(c, q.tips)')
    BY <1>2
  <1>6. (q.bundle.needs = {} \/ Has(c, q.bundle.needs)) => (q.bundle.needs = {} \/ Has(c, q.bundle.needs)')
    BY <1>2
  <1>7. q.phase = "saving" => q.net \in Rows
    BY DEF PushSound
  <1> QED BY <1>3, <1>4, <1>5, <1>6, <1>7 DEF PushSound, Has, Sent

LEMMA SourceStays ==
    ASSUME GitTypeOK, Grows, NEW c \in Clones, SourceSound(c), source'[c] = source[c]
    PROVE  SourceSound(c)'
  <1>1. CASE source[c] = Nil
    BY <1>1 DEF SourceSound
  <1>2. CASE source[c] # Nil
    <2>1. source[c].net \in Rows /\ Has(c, source[c].refs \cup source[c].base)
      BY <1>2 DEF SourceSound
    <2>2. source[c].net \in Rows' /\ Has(c, source[c].refs \cup source[c].base)'
      BY <2>1, HasStays DEF Grows, Rows
    <2> QED BY <2>2 DEF SourceSound, Has
  <1> QED BY <1>1, <1>2

LEMMA BecomeType ==
    ASSUME GitTypeOK, NEW p \in Pushers, NEW q \in Push, Become(p, q)
    PROVE  push' \in [Pushers -> Push] /\ push'[p] = q /\ \A o \in Pushers \ {p} : push'[o] = push[o]
  BY DEF GitTypeOK, Become

(* A step of a hook or of its request: what is left to see is its new state *)
(* and what it has changed.                                                *)
LEMMA HookStep ==
    ASSUME GitInv, NEW p \in Pushers, NEW q \in Push, Become(p, q), Grows,
           GitTypeOK', PushSound(p)',
           \A n \in Networks : store'[n] = store[n] \/ History(store'[n]) \subseteq store'[n],
           \A c \in Clones : source'[c] = source[c] \/ SourceSound(c)'
    PROVE  GitInv'
  <1>1. \A o \in Pushers \ {p} : push'[o] = push[o]
    BY BecomeType DEF GitInv
  <1>2. \A o \in Pushers : PushSound(o)'
    BY <1>1, PushStays DEF GitInv
  <1>3. \A c \in Clones : SourceSound(c)'
    BY SourceStays DEF GitInv
  <1>4. \A n \in Networks : History(store'[n]) \subseteq store'[n]
    BY DEF GitInv
  <1> QED BY <1>2, <1>3, <1>4 DEF GitInv

LEMMA ServerStays == UNCHANGED rowVars => Grows /\ Rows' = Rows
  BY DEF Grows, Rows, rowVars

LEMMA RestType == Rest \in Push /\ Empty \in Bundle /\ \A n \in Networks : NewSource(n) \in SourceRow
  BY DEF Rest, Empty, Push, Bundle, NewSource, SourceRow

LEMMA BundleType ==
    ASSUME NEW snapshot \in BOOLEAN, NEW brings \in SUBSET Commits, NEW needs \in SUBSET Commits,
           NEW tip \in Commits \cup {Nil}, NEW of \in Trees \cup {Nil}, NEW roots \in SUBSET Commits
    PROVE  [snapshot |-> snapshot, brings |-> brings, needs |-> needs, tip |-> tip, tree |-> of, roots |-> roots]
             \in Bundle
  BY DEF Bundle

LEMMA RestSound ==
    ASSUME NEW p \in Pushers, push'[p] = Rest
    PROVE  PushSound(p)'
  BY HistoryOfNothing DEF Rest, Empty, PushSound, Sent

LEMMA CarrySound ==
    ASSUME NEW q \in Push
    PROVE  Carry(q) \in Push /\ Carry(q).bundle = q.bundle /\ Carry(q).known = q.known /\ Carry(q).tips = q.tips
           /\ Carry(q).net = q.net /\ Carry(q).read = q.read
           /\ Carry(q).phase = IF ~(q.bundle.roots \subseteq q.read) THEN "carrying"
                               ELSE IF q.known THEN "fetching" ELSE "registering"
  BY DEF Carry, Push

LEMMA GitInvStep ==
    ASSUME GitInv, [GitNext]_gitVars
    PROVE  GitInv'
  <1>1. GitTypeOK /\ CloneOf \in [Pushers -> Clones] /\ push \in [Pushers -> Push]
    BY CloneAssumption DEF GitInv, GitTypeOK
  <1>2. ASSUME NEW c \in Clones, Worked(c), UNCHANGED <<marker, push, pushes, rowVars, together, blurred>>,
               GitTypeOK'
        PROVE  GitInv'
    <2>1. Grows /\ \A o \in Pushers : push'[o] = push[o]
      BY <1>2 DEF Grows, Rows, rowVars
    <2>2. \A o \in Pushers : PushSound(o)'
      BY <2>1, PushStays DEF GitInv
    <2>3. \A d \in Clones : SourceSound(d)'
      BY <1>2, <2>1, SourceStays DEF GitInv, rowVars
    <2> QED BY <1>2, <2>2, <2>3 DEF GitInv, rowVars
  <1>3. ASSUME NEW c \in Clones, NEW commit \in Commits, MoveBranch(c, commit) PROVE GitInv'
    <2>1. GitTypeOK'
      BY <1>1, <1>3, CommitAssumption DEF MoveBranch, Worked, GitTypeOK, rowVars
    <2> QED BY <1>2, <1>3, <2>1 DEF MoveBranch, Worked
  <1>4. ASSUME NEW c \in Clones, NEW t \in Trees \cup {Nil}, EditTree(c, t) PROVE GitInv'
    <2>1. GitTypeOK'
      BY <1>1, <1>4 DEF EditTree, Worked, GitTypeOK, rowVars
    <2> QED BY <1>2, <1>4, <2>1 DEF EditTree, Worked
  <1>5. ASSUME NEW p \in Pushers, AskKnown(p) PROVE GitInv'
    <2> DEFINE c     == CloneOf[p]
               every == Announced(c)
               tips  == every \cap objects[c]
               q     == [[Rest EXCEPT !.known = (source[c] # Nil), !.tips = tips]
                           EXCEPT !.phase = IF Heads(c) \subseteq tips THEN "snapshot" ELSE "history"]
    <2>1. c \in Clones /\ tips \subseteq Commits
      BY <1>1 DEF GitTypeOK
    <2>2. Become(p, q) /\ UNCHANGED <<cloneVars, marker, rowVars, joined>>
      BY <1>5 DEF AskKnown
    <2>3. q \in Push
      BY <2>1, RestType DEF Push
    <2>4. /\ q.phase \in {"snapshot", "history"} /\ q.tips = tips /\ q.bundle = Empty
          /\ q.known => source[c] # Nil
      BY DEF Rest
    <2>5. pushes' \in [Pushers -> Nat] /\ together' \in BOOLEAN /\ blurred' \in SUBSET Clones
      BY <1>1, <1>5, <2>1 DEF AskKnown, GitTypeOK
    <2>6. tips = {} \/ Has(c, tips)
      <3> SUFFICES ASSUME tips # {} PROVE Has(c, tips)
        OBVIOUS
      <3>1. source[c] # Nil
        BY DEF Announced
      <3>2. \A d \in Clones : source[d] # Nil => source[d].refs \subseteq store[source[d].net]
        BY DEF GitInv, SourceSound, Has
      <3> QED BY <3>1, <3>2 DEF Announced, Has
    <2> HIDE DEF q, tips, every
    <2>7. GitTypeOK'
      BY <1>1, <2>2, <2>3, <2>5, BecomeType DEF GitTypeOK, cloneVars, rowVars
    <2>8. push'[p] = q /\ UNCHANGED rowVars
      BY <1>1, <2>2, <2>3, BecomeType
    <2>9. PushSound(p)'
      BY <2>4, <2>6, <2>8, HistoryOfNothing DEF PushSound, Sent, Empty, Has, rowVars
    <2> QED BY <2>2, <2>3, <2>7, <2>8, <2>9, HookStep, ServerStays DEF rowVars
  <1>6. ASSUME NEW p \in Pushers, NEW q \in Push, Become(p, q), PushSound(p)', UNCHANGED <<cloneVars, pushes, rowVars, together>>,
               marker' \in [Clones -> Trees \cup {Nil}], joined' \in SUBSET Clones, blurred' \in SUBSET Clones
        PROVE  GitInv'
    <2>1. GitTypeOK'
      BY <1>1, <1>6, BecomeType DEF GitTypeOK, cloneVars, rowVars
    <2> QED BY <1>6, <2>1, HookStep, ServerStays DEF rowVars
  <1>7. ASSUME NEW p \in Pushers, PushHistory(p) PROVE GitInv'
    <2> DEFINE c     == CloneOf[p]
               all   == History(Heads(c))
               lacks == all \ History(push[p].tips)
               q     == [push[p] EXCEPT !.phase = "posted",
                              !.bundle = [Empty EXCEPT !.brings = lacks, !.needs = all \ lacks,
                                                       !.tip = head[c], !.roots = Roots(head[c])]]
    <2>1. /\ c \in Clones /\ push[p] \in Push /\ head[c] \in Commits \cup {Nil} /\ Heads(c) \subseteq Commits
          /\ push[p].tips \subseteq Commits
      BY <1>1 DEF GitTypeOK, Heads, Push
    <2>2. /\ all \subseteq Commits /\ Heads(c) \subseteq all /\ History(all) \subseteq all
          /\ Roots(head[c]) \subseteq Commits
      BY <2>1, HistoryType, RootsType
    <2>3. UNCHANGED <<cloneVars, marker, pushes, rowVars, together, joined, blurred>>
      BY <1>7 DEF PushHistory
    <2>4. CASE Become(p, Rest)
      BY <1>1, <1>6, <2>3, <2>4, RestType, RestSound, BecomeType DEF GitTypeOK
    <2>5. CASE lacks # {} /\ Become(p, q)
      <3>1. q.bundle = [snapshot |-> FALSE, brings |-> lacks, needs |-> all \ lacks, tip |-> head[c], tree |-> Nil,
                        roots |-> Roots(head[c])]
        BY <2>1 DEF Empty, Push
      <3>2. q.bundle \in Bundle
        <4>1. lacks \in SUBSET Commits /\ all \ lacks \in SUBSET Commits
          BY <2>2
        <4>2. /\ head[c] \in Commits \cup {Nil} /\ Roots(head[c]) \in SUBSET Commits
              /\ FALSE \in BOOLEAN /\ Nil \in Trees \cup {Nil}
          BY <2>1, <2>2
        <4> DEFINE needs == all \ lacks
                   sent  == [snapshot |-> FALSE, brings |-> lacks, needs |-> needs, tip |-> head[c], tree |-> Nil,
                             roots |-> Roots(head[c])]
        <4>3. q.bundle = sent /\ needs \in SUBSET Commits
          BY <3>1, <4>1
        <4> HIDE DEF q, lacks, all, needs
        <4>4. sent \in Bundle
          BY <4>1, <4>2, <4>3, BundleType
        <4> QED BY <4>3, <4>4
      <3>3. q \in Push /\ q.phase = "posted" /\ q.known = push[p].known /\ q.tips = push[p].tips
        BY <2>1, <3>2 DEF Push
      <3>4. head[c] # Nil /\ head[c] \in lacks \cup (all \ lacks)
        BY <2>1, <2>2, <2>5, HistoryOfNothing DEF Heads
      <3>5. History(lacks) \subseteq lacks \cup (all \ lacks)
        <4>1. History(lacks) \subseteq History(all)
          BY HistoryMonotone
        <4> QED BY <2>2, <4>1
      <3>6. all \ lacks = {} \/ Has(c, all \ lacks)
        <4>1. CASE push[p].tips = {}
          BY <4>1, HistoryOfNothing
        <4>2. CASE push[p].tips # {}
          <5>1. Has(c, push[p].tips)
            BY <4>2 DEF GitInv, PushSound
          <5>2. source[c] # Nil /\ source[c].net \in Networks /\ push[p].tips \subseteq store[source[c].net]
            BY <1>1, <2>1, <5>1 DEF Has, GitTypeOK, SourceRow
          <5>3. History(push[p].tips) \subseteq store[source[c].net]
            BY <5>2, HistoryMonotone DEF GitInv
          <5> QED BY <5>2, <5>3 DEF Has
        <4> QED BY <4>1, <4>2
      <3> HIDE DEF q, all, lacks
      <3>7. push'[p] = q
        BY <1>1, <2>5, <3>3, BecomeType
      <3>8. PushSound(p)
        BY DEF GitInv
      <3>9. PushSound(p)'
        BY <2>3, <3>1, <3>3, <3>4, <3>5, <3>6, <3>7, <3>8 DEF PushSound, Sent, Has, rowVars
      <3> QED BY <1>1, <1>6, <2>3, <2>5, <3>3, <3>9 DEF GitTypeOK
    <2> QED BY <1>7, <2>4, <2>5 DEF PushHistory
  <1>8. ASSUME NEW p \in Pushers, PushSnapshot(p) PROVE GitInv'
    <2> DEFINE c == CloneOf[p]
               q == [push[p] EXCEPT !.phase = "posted",
                              !.bundle = [Empty EXCEPT !.snapshot = TRUE, !.needs = Heads(c), !.tree = tree[c]]]
    <2>1. c \in Clones /\ push[p] \in Push /\ tree[c] \in Trees \cup {Nil} /\ Heads(c) \subseteq Commits
      BY <1>1 DEF GitTypeOK, Heads
    <2>2. UNCHANGED <<cloneVars, marker, pushes, rowVars, together, joined, blurred>>
      BY <1>8 DEF PushSnapshot
    <2>3. CASE Become(p, Rest)
      BY <1>1, <1>6, <2>2, <2>3, RestType, RestSound, BecomeType DEF GitTypeOK
    <2>4. CASE Become(p, q)
      <3>1. q.bundle = [snapshot |-> TRUE, brings |-> {}, needs |-> Heads(c), tip |-> Nil, tree |-> tree[c], roots |-> {}]
        BY <2>1 DEF Empty, Push
      <3>2. q \in Push /\ q.phase = "posted" /\ q.known = push[p].known /\ q.tips = push[p].tips
        BY <2>1, <3>1 DEF Push, Bundle
      <3> HIDE DEF q
      <3>3. push'[p] = q
        BY <1>1, <2>4, <3>2, BecomeType
      <3>4. PushSound(p)
        BY DEF GitInv
      <3>5. PushSound(p)'
        BY <2>2, <3>1, <3>2, <3>3, <3>4, HistoryOfNothing DEF PushSound, Sent, Has, rowVars
      <3> QED BY <1>1, <1>6, <2>2, <2>4, <3>2, <3>5 DEF GitTypeOK
    <2> QED BY <1>8, <2>3, <2>4 DEF PushSnapshot
  <1>9. ASSUME NEW p \in Pushers, Acknowledged(p) PROVE GitInv'
    <2> DEFINE c == CloneOf[p]
               q == [Rest EXCEPT !.phase = "snapshot", !.known = TRUE]
    <2>1. c \in Clones /\ push[p] \in Push /\ push[p].bundle.tree \in Trees \cup {Nil}
      BY <1>1 DEF Push, Bundle
    <2>2. UNCHANGED <<cloneVars, pushes, rowVars, together, joined, blurred>>
      BY <1>9 DEF Acknowledged
    <2>3. CASE Become(p, Rest) /\ marker' = [marker EXCEPT ![c] = push[p].bundle.tree]
      <3>1. marker' \in [Clones -> Trees \cup {Nil}]
        BY <1>1, <2>1, <2>3 DEF GitTypeOK
      <3> QED BY <1>1, <1>6, <2>2, <2>3, <3>1, RestType, RestSound, BecomeType DEF GitTypeOK
    <2>4. CASE ~push[p].bundle.snapshot /\ Become(p, q) /\ UNCHANGED marker
      <3>1. q.phase = "snapshot" /\ q.tips = {} /\ q.bundle = Empty
        BY DEF Rest
      <3>2. q \in Push
        BY RestType DEF Push
      <3> HIDE DEF q
      <3>3. push'[p] = q
        BY <1>1, <2>4, <3>2, BecomeType
      <3>4. source[c] # Nil
        <4>1. push[p].phase = "saved" /\ PushSound(p)
          BY <1>9 DEF GitInv, Acknowledged
        <4> QED BY <2>4, <4>1 DEF PushSound, Sent, Has
      <3>5. PushSound(p)'
        BY <2>2, <3>1, <3>3, <3>4, HistoryOfNothing DEF PushSound, Sent, Empty, rowVars
      <3> QED BY <1>1, <1>6, <2>2, <2>4, <3>2, <3>5 DEF GitTypeOK
    <2> QED BY <1>9, <2>3, <2>4 DEF Acknowledged
  <1>10. ASSUME NEW p \in Pushers, GiveUpGit(p) PROVE GitInv'
    <2>1. Become(p, Rest) /\ UNCHANGED <<cloneVars, marker, pushes, rowVars, together, joined>>
      BY <1>10 DEF GiveUpGit
    <2>2. blurred' \in SUBSET Clones
      BY <1>1, <1>10 DEF GiveUpGit, GitTypeOK
    <2> QED BY <1>1, <1>6, <2>1, <2>2, RestType, RestSound, BecomeType DEF GitTypeOK
  <1>11. ASSUME NEW p \in Pushers, LookUp(p) PROVE GitInv'
    <2> DEFINE c == CloneOf[p]
               In(n, known) == [push[p] EXCEPT !.known = known, !.net = n, !.read = rootsOf[n]]
    <2>1. c \in Clones /\ push[p] \in Push /\ push[p].phase = "posted" /\ PushSound(p) /\ SourceSound(c)
      BY <1>1, <1>11 DEF LookUp, GitInv
    <2>2. UNCHANGED <<cloneVars, marker, pushes, rowVars, together, blurred>> /\ joined' \in SUBSET Clones
      BY <1>1, <1>11, <2>1 DEF LookUp, GitTypeOK
    <2>3. ASSUME NEW n \in Rows, NEW known \in BOOLEAN,
                 known => source[c] # Nil /\ source[c].net = n, Become(p, Carry(In(n, known)))
          PROVE  GitInv'
      <3>1. n \in Networks /\ rootsOf[n] \in SUBSET Commits
        BY <1>1 DEF Rows, GitTypeOK
      <3>2. In(n, known) \in Push
        BY <2>1, <3>1 DEF Push
      <3>3. /\ In(n, known).known = known /\ In(n, known).net = n /\ In(n, known).tips = push[p].tips
            /\ In(n, known).bundle = push[p].bundle /\ In(n, known).read = rootsOf[n]
        BY <2>1 DEF Push
      <3> DEFINE q == Carry(In(n, known))
      <3>4. /\ q \in Push /\ q.known = known /\ q.net = n /\ q.tips = push[p].tips /\ q.bundle = push[p].bundle
            /\ q.phase = IF ~(push[p].bundle.roots \subseteq rootsOf[n]) THEN "carrying"
                         ELSE IF known THEN "fetching" ELSE "registering"
        BY <3>2, <3>3, CarrySound
      <3> HIDE DEF q, In
      <3>5. push'[p] = q
        BY <1>1, <2>3, <3>4, BecomeType DEF q
      <3>6. PushSound(p)'
        BY <2>1, <2>2, <2>3, <3>4, <3>5 DEF PushSound, Sent, Has, Rows, rowVars
      <3> QED BY <1>1, <1>6, <2>2, <2>3, <3>4, <3>6 DEF GitTypeOK, q
    <2>4. CASE source[c] # Nil
      <3>1. source[c].net \in Rows /\ Become(p, Carry(In(source[c].net, TRUE)))
        BY <1>11, <2>1, <2>4 DEF LookUp, SourceSound
      <3> HIDE DEF In
      <3> QED BY <2>3, <2>4, <3>1
    <2>5. CASE source[c] = Nil
      <3>1. CASE \E n \in Sharing(push[p].bundle.roots) : Become(p, Carry(In(n, FALSE)))
        <4>1. PICK n \in Rows : Become(p, Carry(In(n, FALSE)))
          BY <3>1 DEF Sharing
        <4> HIDE DEF In
        <4> QED BY <2>3, <4>1
      <3>2. CASE Become(p, [push[p] EXCEPT !.phase = "founding"])
        <4> DEFINE q == [push[p] EXCEPT !.phase = "founding"]
        <4>1. /\ q \in Push /\ q.phase = "founding" /\ q.known = push[p].known /\ q.tips = push[p].tips
              /\ q.bundle = push[p].bundle
          BY <2>1 DEF Push
        <4> HIDE DEF q
        <4>2. push'[p] = q
          BY <1>1, <3>2, <4>1, BecomeType DEF q
        <4>3. PushSound(p)'
          BY <2>1, <2>2, <2>5, <4>1, <4>2 DEF PushSound, Sent, Has, rowVars
        <4> QED BY <1>1, <1>6, <2>2, <3>2, <4>1, <4>3 DEF GitTypeOK, q
      <3> QED BY <1>11, <2>5, <3>1, <3>2 DEF LookUp
    <2> QED BY <2>4, <2>5
  <1>12. ASSUME NEW p \in Pushers, NEW q \in Push, NEW n \in Networks, NEW roots \in SUBSET Commits,
                Become(p, q), rootsOf' = [rootsOf EXCEPT ![n] = roots],
                UNCHANGED <<cloneVars, pushes, marker, store, source, together, joined, blurred>>, PushSound(p)'
         PROVE  GitInv'
    <2>1. GitTypeOK'
      BY <1>1, <1>12, BecomeType DEF GitTypeOK, cloneVars
    <2>2. Grows
      BY <1>1, <1>12, NilAssumption DEF Grows, Rows, GitTypeOK
    <2> QED BY <1>12, <2>1, <2>2, HookStep
  <1>13. ASSUME NEW p \in Pushers, FoundNetwork(p) PROVE GitInv'
    <2> DEFINE q == [push[p] EXCEPT !.phase = "registering", !.net = NextId]
    <2>1. push[p] \in Push /\ push[p].phase = "founding" /\ PushSound(p) /\ NextId \in Networks \ Rows
      BY <1>1, <1>13 DEF FoundNetwork, GitInv, NextId
    <2>2. push[p].bundle.roots \in SUBSET Commits
      BY <2>1 DEF Push, Bundle
    <2>3. /\ q \in Push /\ q.phase = "registering" /\ q.known = push[p].known /\ q.tips = push[p].tips
          /\ q.bundle = push[p].bundle /\ q.net = NextId
      BY <2>1 DEF Push
    <2>4. /\ Become(p, q) /\ rootsOf' = [rootsOf EXCEPT ![NextId] = push[p].bundle.roots]
          /\ UNCHANGED <<cloneVars, pushes, marker, store, source, together, joined, blurred>>
      BY <1>13 DEF FoundNetwork
    <2> HIDE DEF q
    <2>5. push'[p] = q
      BY <1>1, <2>3, <2>4, BecomeType
    <2>6. NextId \in Rows'
      <3>1. rootsOf'[NextId] = push[p].bundle.roots
        BY <1>1, <2>1, <2>4 DEF GitTypeOK
      <3> QED BY <2>1, <2>2, <3>1, NilAssumption DEF Rows
    <2>7. PushSound(p)'
      BY <2>1, <2>3, <2>4, <2>5, <2>6 DEF PushSound, Sent, Has
    <2> QED BY <1>12, <2>1, <2>2, <2>3, <2>4, <2>7
  <1>14. ASSUME NEW p \in Pushers, CarryRoots(p) PROVE GitInv'
    <2> DEFINE n == push[p].net
               roots == push[p].read \cup push[p].bundle.roots
               q == Carry([push[p] EXCEPT !.read = rootsOf'[n]])
    <2>1. push[p] \in Push /\ push[p].phase = "carrying" /\ PushSound(p) /\ n \in Rows /\ n \in Networks
      BY <1>1, <1>14 DEF CarryRoots, GitInv, PushSound, Rows
    <2>2. roots \in SUBSET Commits
      BY <2>1 DEF Push, Bundle
    <2>3. /\ Become(p, q) /\ rootsOf' = [rootsOf EXCEPT ![n] = roots]
          /\ UNCHANGED <<cloneVars, pushes, marker, store, source, together, joined, blurred>>
      BY <1>14 DEF CarryRoots
    <2>4. rootsOf'[n] = roots
      BY <1>1, <2>1, <2>3 DEF GitTypeOK
    <2> DEFINE r == [push[p] EXCEPT !.read = rootsOf'[n]]
    <2>5. /\ r \in Push /\ r.known = push[p].known /\ r.tips = push[p].tips /\ r.bundle = push[p].bundle
          /\ r.net = n /\ r.read = roots
      BY <2>1, <2>2, <2>4 DEF Push
    <2>6. /\ q \in Push /\ q.known = push[p].known /\ q.tips = push[p].tips /\ q.bundle = push[p].bundle /\ q.net = n
          /\ q.phase = IF push[p].known THEN "fetching" ELSE "registering"
      BY <2>5, CarrySound
    <2> HIDE DEF q, r
    <2>7. push'[p] = q
      BY <1>1, <2>3, <2>6, BecomeType
    <2>8. n \in Rows'
      BY <2>1, <2>2, <2>4, NilAssumption DEF Rows
    <2>9. PushSound(p)'
      BY <2>1, <2>3, <2>6, <2>7, <2>8 DEF PushSound, Sent, Has
    <2> QED BY <1>12, <2>1, <2>2, <2>3, <2>6, <2>9
  <1>15. ASSUME NEW p \in Pushers, NEW q \in Push, NEW row \in SourceRow, row.net \in Rows,
                source[CloneOf[p]] # Nil => row.net = source[CloneOf[p]].net,
                row.refs \cup row.base \subseteq store[row.net],
                Become(p, q), source' = [source EXCEPT ![CloneOf[p]] = row],
                UNCHANGED <<cloneVars, pushes, marker, rootsOf, store, together, joined, blurred>>, PushSound(p)'
         PROVE  GitInv'
    <2>1. row # Nil /\ source'[CloneOf[p]] = row /\ \A c \in Clones : c = CloneOf[p] \/ source'[c] = source[c]
      BY <1>1, <1>15, NilAssumption DEF GitTypeOK
    <2>2. GitTypeOK'
      BY <1>1, <1>15, BecomeType DEF GitTypeOK, cloneVars
    <2>3. Grows
      BY <1>1, <1>15, <2>1 DEF Grows, Rows
    <2>4. SourceSound(CloneOf[p])'
      BY <1>1, <1>15, <2>1 DEF SourceSound, Has, Rows
    <2> QED BY <1>15, <2>1, <2>2, <2>3, <2>4, HookStep
  <1>16. ASSUME NEW p \in Pushers, Register(p) PROVE GitInv'
    <2> DEFINE c == CloneOf[p]
               n == push[p].net
               q == [push[p] EXCEPT !.phase = "fetching"]
    <2>1. c \in Clones /\ push[p] \in Push /\ push[p].phase = "registering" /\ PushSound(p) /\ n \in Rows /\ n \in Networks
      BY <1>1, <1>16 DEF Register, GitInv, PushSound, Rows
    <2>2. UNCHANGED <<cloneVars, pushes, marker, rootsOf, store, together, joined, blurred>>
      BY <1>16 DEF Register
    <2>3. CASE source[c] # Nil
      <3>1. Become(p, Rest) /\ UNCHANGED source
        BY <1>16, <2>3 DEF Register
      <3> QED BY <1>1, <1>6, <2>2, <3>1, RestType, RestSound, BecomeType DEF GitTypeOK, rowVars
    <2>4. CASE source[c] = Nil
      <3>1. Become(p, q) /\ source' = [source EXCEPT ![c] = NewSource(n)]
        BY <1>16, <2>4 DEF Register
      <3>2. /\ NewSource(n) \in SourceRow /\ NewSource(n).net = n /\ NewSource(n) # Nil
            /\ NewSource(n).refs = {} /\ NewSource(n).base = {}
        BY <2>1, RestType, NilAssumption DEF NewSource
      <3>3. /\ q \in Push /\ q.phase = "fetching" /\ q.known = push[p].known /\ q.tips = push[p].tips
            /\ q.bundle = push[p].bundle /\ q.net = n
        BY <2>1 DEF Push
      <3> HIDE DEF q
      <3>4. push'[p] = q /\ source'[c] = NewSource(n)
        BY <1>1, <2>1, <3>1, <3>3, BecomeType DEF GitTypeOK
      <3>5. PushSound(p)'
        BY <2>1, <2>2, <2>4, <3>2, <3>3, <3>4 DEF PushSound, Sent, Has, Rows
      <3> QED BY <1>15, <2>1, <2>2, <2>4, <3>1, <3>2, <3>3, <3>5
    <2> QED BY <2>3, <2>4
  <1>17. ASSUME NEW p \in Pushers, Fetch(p) PROVE GitInv'
    <2> DEFINE c == CloneOf[p]
               n == push[p].net
               b == push[p].bundle
               q == [push[p] EXCEPT !.phase = "saving"]
    <2>1. /\ c \in Clones /\ push[p] \in Push /\ push[p].phase = "fetching" /\ PushSound(p) /\ n \in Rows /\ n \in Networks
          /\ b.brings \in SUBSET Commits
      BY <1>1, <1>17 DEF Fetch, GitInv, PushSound, Rows, Push, Bundle
    <2>2. UNCHANGED <<cloneVars, pushes, marker, rootsOf, source, together, joined, blurred>>
      BY <1>17 DEF Fetch
    <2>3. CASE Become(p, Rest) /\ UNCHANGED store
      BY <1>1, <1>6, <2>2, <2>3, RestType, RestSound, BecomeType DEF GitTypeOK, rowVars
    <2>4. CASE b.needs \subseteq store[n] /\ store' = [store EXCEPT ![n] = @ \cup b.brings] /\ Become(p, q)
      <3>1. /\ q \in Push /\ q.phase = "saving" /\ q.known = push[p].known /\ q.tips = push[p].tips
            /\ q.bundle = b /\ q.net = n
        BY <2>1 DEF Push
      <3>2. /\ store'[n] = store[n] \cup b.brings /\ \A m \in Networks : m = n \/ store'[m] = store[m]
            /\ store \in [Networks -> SUBSET Commits]
        BY <1>1, <2>1, <2>4 DEF GitTypeOK
      <3> HIDE DEF q
      <3>3. push'[p] = q
        BY <1>1, <2>4, <3>1, BecomeType
      <3>4. GitTypeOK'
        BY <1>1, <2>1, <2>2, <2>4, <3>1, BecomeType DEF GitTypeOK, cloneVars
      <3>5. Grows
        BY <2>2, <3>2 DEF Grows, Rows
      <3>6. History(store'[n]) \subseteq store'[n]
        <4>1. History(store[n]) \subseteq store[n] /\ History(b.brings) \subseteq b.brings \cup b.needs
          BY <2>1 DEF GitInv, PushSound
        <4> QED BY <2>4, <3>2, <4>1, HistoryUnion
      <3>7. source[c] # Nil /\ source[c].net = n
        BY <2>1 DEF PushSound
      <3>8. PushSound(p)'
        BY <2>1, <2>2, <2>4, <3>1, <3>2, <3>3, <3>7 DEF PushSound, Sent, Has, Rows
      <3> QED BY <1>1, <2>2, <2>4, <3>1, <3>2, <3>4, <3>5, <3>6, <3>8, HookStep
    <2> QED BY <1>17, <2>3, <2>4 DEF Fetch
  <1>18. ASSUME NEW p \in Pushers, SaveSource(p) PROVE GitInv'
    <2> DEFINE c == CloneOf[p]
               b == push[p].bundle
               q == [Rest EXCEPT !.phase = "saved", !.known = TRUE, !.bundle = b]
    <2>1. /\ c \in Clones /\ push[p] \in Push /\ push[p].phase = "saving" /\ PushSound(p) /\ b \in Bundle
          /\ SourceSound(c)
      BY <1>1, <1>18 DEF SaveSource, GitInv, Push
    <2>2. /\ source[c] # Nil /\ source[c] \in SourceRow /\ source[c].net = push[p].net
          /\ b.brings \cup b.needs \subseteq store[source[c].net]
          /\ source[c].net \in Rows /\ source[c].refs \cup source[c].base \subseteq store[source[c].net]
      BY <1>1, <2>1 DEF PushSound, SourceSound, Has, GitTypeOK
    <2>3. Become(p, q) /\ UNCHANGED <<cloneVars, pushes, marker, rootsOf, store, together, joined, blurred>>
      BY <1>18 DEF SaveSource
    <2>4. q \in Push /\ q.phase = "saved" /\ q.known /\ q.tips = {} /\ q.bundle = b
      BY <2>1, RestType DEF Push, Rest
    <2> HIDE DEF q
    <2>5. push'[p] = q
      BY <1>1, <2>3, <2>4, BecomeType
    <2>6. ASSUME NEW row \in SourceRow, row.net = source[c].net, source' = [source EXCEPT ![c] = row]
          PROVE  PushSound(p)'
      <3>1. source'[c] = row /\ row # Nil
        BY <1>1, <2>1, <2>6, NilAssumption DEF GitTypeOK
      <3> QED BY <2>1, <2>2, <2>3, <2>4, <2>5, <2>6, <3>1 DEF PushSound, Sent, Has
    <2>7. CASE b.snapshot
      <3> DEFINE row == [source[c] EXCEPT !.snapshot = b.tree, !.base = b.needs]
      <3>1. source' = [source EXCEPT ![c] = row]
        BY <1>1, <1>18, <2>1, <2>7 DEF SaveSource, GitTypeOK
      <3>2. row \in SourceRow /\ row.net = source[c].net /\ row.refs = source[c].refs /\ row.base = b.needs
        BY <2>1, <2>2 DEF SourceRow, Bundle
      <3> HIDE DEF row
      <3> QED BY <1>15, <2>2, <2>3, <2>4, <2>6, <3>1, <3>2
    <2>8. CASE ~b.snapshot
      <3> DEFINE row == [source[c] EXCEPT !.refs = {b.tip}]
      <3>1. source' = [source EXCEPT ![c] = row]
        BY <1>1, <1>18, <2>1, <2>8 DEF SaveSource, GitTypeOK
      <3>2. b.tip \in b.brings \cup b.needs
        BY <2>1, <2>8 DEF PushSound, Sent
      <3>3. row \in SourceRow /\ row.net = source[c].net /\ row.refs = {b.tip} /\ row.base = source[c].base
        BY <2>1, <2>2, <3>2 DEF SourceRow, Bundle
      <3> HIDE DEF row
      <3> QED BY <1>15, <2>2, <2>3, <2>4, <2>6, <3>1, <3>2, <3>3
    <2> QED BY <2>7, <2>8
  <1>19. CASE UNCHANGED gitVars
    <2>1. Grows /\ \A o \in Pushers : push'[o] = push[o]
      BY <1>19 DEF Grows, Rows, gitVars, rowVars
    <2>2. (\A o \in Pushers : PushSound(o)') /\ (\A d \in Clones : SourceSound(d)')
      BY <1>19, <2>1, PushStays, SourceStays DEF GitInv, gitVars, rowVars
    <2>3. GitTypeOK'
      BY <1>1, <1>19 DEF GitTypeOK, gitVars, cloneVars, rowVars
    <2> QED BY <1>19, <2>2, <2>3 DEF GitInv, gitVars, rowVars
  <1> QED BY <1>3, <1>4, <1>5, <1>7, <1>8, <1>9, <1>10, <1>11, <1>13, <1>14, <1>16, <1>17, <1>18, <1>19 DEF GitNext

LEMMA GitStaysSound == GitSpec => []GitInv
  <1>1. GitInit => GitInv
    <2> SUFFICES ASSUME GitInit PROVE GitInv
      OBVIOUS
    <2>1. GitTypeOK
      BY RestType DEF GitInit, GitTypeOK
    <2>2. \A n \in Networks : History(store[n]) \subseteq store[n]
      BY HistoryOfNothing DEF GitInit
    <2>3. \A c \in Clones : SourceSound(c)
      BY DEF GitInit, SourceSound
    <2>4. \A p \in Pushers : PushSound(p)
      BY HistoryOfNothing DEF GitInit, PushSound, Sent, Rest, Empty
    <2> QED BY <2>1, <2>2, <2>3, <2>4 DEF GitInv
  <1> QED BY <1>1, GitInvStep, PTL DEF GitSpec

-----------------------------------------------------------------------------
(* What is not sent again.                                                 *)

LEMMA BecomeOnly ==
    ASSUME GitTypeOK, NEW p \in Pushers, NEW q, Become(p, q)
    PROVE  push'[p] = q /\ \A o \in Pushers \ {p} : push'[o] = push[o]
  BY DEF GitTypeOK, Become

(* The steps between the snapshot that is made and the one that is saved.  *)
LEMMA QuietStep ==
    ASSUME GitTypeOK, NEW p \in Pushers,
           PushHistory(p) \/ PushSnapshot(p) \/ LookUp(p) \/ FoundNetwork(p) \/ CarryRoots(p) \/ Fetch(p)
    PROVE  /\ Busy(p) /\ push[p].phase # "saved" /\ push'[p].phase # "saved"
           /\ \A o \in Pushers \ {p} : push'[o] = push[o]
           /\ UNCHANGED <<marker, source, blurred>>
  <1>1. push[p] \in Push /\ Rest.phase = "rest"
    BY DEF GitTypeOK, Rest
  <1>2. Busy(p) /\ push[p].phase # "saved" /\ UNCHANGED <<marker, source, blurred>>
    BY DEF PushHistory, PushSnapshot, LookUp, FoundNetwork, CarryRoots, Fetch, Busy, rowVars
  <1>3. ASSUME NEW q, Become(p, q), q.phase # "saved"
        PROVE  push'[p].phase # "saved" /\ \A o \in Pushers \ {p} : push'[o] = push[o]
    BY <1>3, BecomeOnly
  <1>4. PICK q : Become(p, q) /\ q.phase # "saved"
    <2>1. CASE PushHistory(p)
      <3> DEFINE c     == CloneOf[p]
                 lacks == History(Heads(c)) \ History(push[p].tips)
                 b     == [Empty EXCEPT !.brings = lacks, !.needs = History(Heads(c)) \ lacks,
                                        !.tip = head[c], !.roots = Roots(head[c])]
                 next  == [push[p] EXCEPT !.phase = "posted", !.bundle = b]
      <3>1. next.phase = "posted"
        BY <1>1 DEF Push
      <3>2. Become(p, IF lacks = {} THEN Rest ELSE next)
        BY <2>1 DEF PushHistory
      <3> HIDE DEF lacks, next
      <3> QED BY <1>1, <3>1, <3>2
    <2>2. CASE PushSnapshot(p)
      <3> DEFINE c    == CloneOf[p]
                 b    == [Empty EXCEPT !.snapshot = TRUE, !.needs = Heads(c), !.tree = tree[c]]
                 next == [push[p] EXCEPT !.phase = "posted", !.bundle = b]
      <3>1. next.phase = "posted"
        BY <1>1 DEF Push
      <3>2. Become(p, IF tree[c] \in {Nil, marker[c]} THEN Rest ELSE next)
        BY <2>2 DEF PushSnapshot
      <3> HIDE DEF next
      <3> QED BY <1>1, <3>1, <3>2
    <2>3. CASE LookUp(p)
      <3> DEFINE In(n, known) == [push[p] EXCEPT !.known = known, !.net = n, !.read = rootsOf[n]]
                 found        == [push[p] EXCEPT !.phase = "founding"]
      <3>1. found.phase = "founding" /\ \A n, known : Carry(In(n, known)).phase # "saved"
        BY <1>1 DEF Carry, Push
      <3>2. Become(p, found) \/ \E n, known : Become(p, Carry(In(n, known)))
        BY <2>3 DEF LookUp
      <3> HIDE DEF In, found
      <3> QED BY <3>1, <3>2
    <2>4. CASE FoundNetwork(p)
      <3> DEFINE next == [push[p] EXCEPT !.phase = "registering", !.net = NextId]
      <3>1. Become(p, next)
        BY <2>4 DEF FoundNetwork
      <3>2. next.phase = "registering"
        BY <1>1 DEF Push
      <3> HIDE DEF next
      <3> QED BY <3>1, <3>2
    <2>5. CASE CarryRoots(p)
      <3> DEFINE next == Carry([push[p] EXCEPT !.read = rootsOf'[push[p].net]])
      <3>1. Become(p, next)
        BY <2>5 DEF CarryRoots
      <3>2. next.phase # "saved"
        BY <1>1 DEF Carry, Push
      <3> HIDE DEF next
      <3> QED BY <3>1, <3>2
    <2>6. CASE Fetch(p)
      <3> DEFINE next == [push[p] EXCEPT !.phase = "saving"]
      <3>1. Become(p, next) \/ Become(p, Rest)
        BY <2>6 DEF Fetch
      <3>2. next.phase = "saving"
        BY <1>1 DEF Push
      <3> HIDE DEF next
      <3> QED BY <1>1, <3>1, <3>2
    <2> QED BY <2>1, <2>2, <2>3, <2>4, <2>5, <2>6
  <1> QED BY <1>2, <1>3, <1>4

(* Only the pushes of a clone touch what Skips says of it.                 *)
LEMMA SkipsElsewhere ==
    ASSUME NEW c \in Clones, Skips(c), marker'[c] = marker[c], source'[c] = source[c],
           \A o \in Pushers : CloneOf[o] = c => push'[o] = push[o]
    PROVE  Skips(c)'
  BY DEF Skips, Busy

LEMMA SkipsHere ==
    ASSUME NEW p \in Pushers,
           \A o \in Pushers \ {p} : CloneOf[o] = CloneOf[p] => ~Busy(o) /\ push'[o] = push[o],
           push'[p].phase = "saved" /\ push'[p].bundle.snapshot
             => source'[CloneOf[p]] # Nil /\ source'[CloneOf[p]].snapshot = push'[p].bundle.tree,
           marker'[CloneOf[p]] # Nil =>
             /\ source'[CloneOf[p]] # Nil
             /\ source'[CloneOf[p]].snapshot = marker'[CloneOf[p]] \/ (push'[p].phase = "saved" /\ push'[p].bundle.snapshot)
    PROVE  Skips(CloneOf[p])'
  BY DEF Skips, Busy

LEMMA SkipsStep ==
    ASSUME GitInv, SkipsInv, [GitNext]_gitVars
    PROVE  SkipsInv'
  <1>1. /\ GitTypeOK /\ CloneOf \in [Pushers -> Clones] /\ push \in [Pushers -> Push]
        /\ \A p \in Pushers : PushSound(p)
    BY CloneAssumption DEF GitInv, GitTypeOK
  <1>2. ASSUME UNCHANGED <<marker, push, source, blurred>> PROVE SkipsInv'
    BY <1>2, SkipsElsewhere DEF SkipsInv
  <1>3. ASSUME NEW p \in Pushers, blurred \subseteq blurred',
               \A o \in Pushers \ {p} : push'[o] = push[o],
               \A c \in Clones \ {CloneOf[p]} : marker'[c] = marker[c] /\ source'[c] = source[c],
               CloneOf[p] \in blurred' \/ Skips(CloneOf[p])'
        PROVE  SkipsInv'
    <2> SUFFICES ASSUME NEW c \in Clones, c \notin blurred' PROVE Skips(c)'
      BY DEF SkipsInv
    <2>1. CASE c = CloneOf[p]
      BY <1>3, <2>1
    <2>2. CASE c # CloneOf[p]
      <3>1. Skips(c)
        BY <1>3 DEF SkipsInv
      <3> QED BY <1>3, <2>2, <3>1, SkipsElsewhere
    <2> QED BY <2>1, <2>2
  (* Before a step of the one push of a clone that nothing was lost of. *)
  <1>4. ASSUME NEW p \in Pushers, CloneOf[p] \notin blurred, Busy(p)
        PROVE  /\ \A o \in Pushers \ {p} : CloneOf[o] = CloneOf[p] => ~Busy(o)
               /\ push[p].phase # "saved" /\ marker[CloneOf[p]] # Nil
                  => source[CloneOf[p]] # Nil /\ source[CloneOf[p]].snapshot = marker[CloneOf[p]]
               /\ push[p].phase = "saved" /\ push[p].bundle.snapshot
                  => source[CloneOf[p]] # Nil /\ source[CloneOf[p]].snapshot = push[p].bundle.tree
               /\ ~push[p].bundle.snapshot /\ marker[CloneOf[p]] # Nil
                  => source[CloneOf[p]] # Nil /\ source[CloneOf[p]].snapshot = marker[CloneOf[p]]
    <2>1. Skips(CloneOf[p]) /\ CloneOf[p] \in Clones
      BY <1>1, <1>4 DEF SkipsInv
    <2>2. \A o \in Pushers \ {p} : CloneOf[o] = CloneOf[p] => ~Busy(o)
      BY <1>4, <2>1 DEF Skips
    <2>3. \A o \in Pushers : CloneOf[o] = CloneOf[p] /\ push[o].phase = "saved" => o = p
      BY <2>2 DEF Busy
    <2> QED BY <2>1, <2>2, <2>3 DEF Skips
  <1>5. ASSUME NEW p \in Pushers,
               PushHistory(p) \/ PushSnapshot(p) \/ LookUp(p) \/ FoundNetwork(p) \/ CarryRoots(p) \/ Fetch(p)
        PROVE  SkipsInv'
    <2>1. /\ Busy(p) /\ push[p].phase # "saved" /\ push'[p].phase # "saved"
          /\ \A o \in Pushers \ {p} : push'[o] = push[o]
          /\ UNCHANGED <<marker, source, blurred>>
      BY <1>1, <1>5, QuietStep
    <2>2. CloneOf[p] \in blurred \/ Skips(CloneOf[p])'
      BY <1>4, <2>1, SkipsHere
    <2> QED BY <1>3, <2>1, <2>2
  <1>6. ASSUME NEW p \in Pushers, AskKnown(p) PROVE SkipsInv'
    <2> DEFINE c     == CloneOf[p]
               tips  == Announced(c) \cap objects[c]
               q     == [[Rest EXCEPT !.known = (source[c] # Nil), !.tips = tips]
                           EXCEPT !.phase = IF Heads(c) \subseteq tips THEN "snapshot" ELSE "history"]
    <2>1. Become(p, q) /\ ~Busy(p) /\ UNCHANGED <<marker, source>>
      BY <1>6 DEF AskKnown, Busy, rowVars
    <2>2. q.phase # "saved"
      BY DEF Rest
    <2> HIDE DEF q
    <2>3. push'[p].phase # "saved" /\ \A o \in Pushers \ {p} : push'[o] = push[o]
      BY <1>1, <2>1, <2>2, BecomeOnly
    <2>4. CASE \E o \in Running : CloneOf[o] = c
      <3>1. blurred' = blurred \cup {c}
        BY <1>6, <2>4 DEF AskKnown
      <3> QED BY <1>3, <2>1, <2>3, <3>1
    <2>5. CASE \A o \in Running : CloneOf[o] # c
      <3>1. blurred' = blurred /\ \A o \in Pushers : CloneOf[o] = c => ~Busy(o)
        BY <1>6, <2>5 DEF AskKnown, Running, Busy
      <3>2. c \in blurred \/ Skips(c)
        BY <1>1 DEF SkipsInv
      <3>3. Skips(c) => (marker[c] # Nil => source[c] # Nil /\ source[c].snapshot = marker[c])
        BY <3>1 DEF Skips, Busy
      <3>4. c \in blurred \/ Skips(c)'
        BY <2>1, <2>3, <3>1, <3>2, <3>3, SkipsHere
      <3> QED BY <1>3, <2>1, <2>3, <3>1, <3>4
    <2> QED BY <2>4, <2>5
  <1>7. ASSUME NEW p \in Pushers, Acknowledged(p) PROVE SkipsInv'
    <2> DEFINE c == CloneOf[p]
    <2>1. /\ Busy(p) /\ push[p].phase = "saved" /\ UNCHANGED <<source, blurred>>
          /\ marker \in [Clones -> Trees \cup {Nil}] /\ c \in Clones
      BY <1>1, <1>7 DEF Acknowledged, Busy, rowVars, GitTypeOK
    <2>2. CASE push[p].bundle.snapshot
      <3>1. Become(p, Rest) /\ marker' = [marker EXCEPT ![c] = push[p].bundle.tree]
        BY <1>7, <2>2 DEF Acknowledged
      <3>2. push'[p] = Rest /\ \A o \in Pushers \ {p} : push'[o] = push[o]
        BY <1>1, <3>1, BecomeOnly
      <3>3. Rest.phase # "saved"
        BY DEF Rest
      <3>4. c \in blurred \/ Skips(c)'
        BY <1>4, <2>1, <2>2, <3>1, <3>2, <3>3, SkipsHere
      <3> QED BY <1>3, <2>1, <3>1, <3>2, <3>4
    <2>3. CASE ~push[p].bundle.snapshot
      <3> DEFINE q == [Rest EXCEPT !.phase = "snapshot", !.known = TRUE]
      <3>1. Become(p, q) /\ UNCHANGED marker
        BY <1>7, <2>3 DEF Acknowledged
      <3>2. q.phase # "saved"
        BY DEF Rest
      <3> HIDE DEF q
      <3>3. push'[p].phase # "saved" /\ \A o \in Pushers \ {p} : push'[o] = push[o]
        BY <1>1, <3>1, <3>2, BecomeOnly
      <3>4. c \in blurred \/ Skips(c)'
        BY <1>4, <2>1, <2>3, <3>1, <3>3, SkipsHere
      <3> QED BY <1>3, <2>1, <3>1, <3>3, <3>4
    <2> QED BY <2>2, <2>3
  <1>8. ASSUME NEW p \in Pushers, GiveUpGit(p) PROVE SkipsInv'
    <2>1. Become(p, Rest) /\ blurred' = blurred \cup {CloneOf[p]} /\ UNCHANGED <<marker, source>>
      BY <1>8 DEF GiveUpGit, rowVars
    <2> QED BY <1>1, <1>3, <2>1, BecomeOnly
  <1>9. ASSUME NEW p \in Pushers, Register(p) PROVE SkipsInv'
    <2> DEFINE c == CloneOf[p]
               q == [push[p] EXCEPT !.phase = "fetching"]
    <2>1. /\ Busy(p) /\ push[p].phase = "registering" /\ UNCHANGED <<marker, blurred>> /\ c \in Clones
          /\ source \in [Clones -> SourceRow \cup {Nil}]
      BY <1>1, <1>9 DEF Register, Busy, GitTypeOK
    <2>2. q.phase = "fetching" /\ Rest.phase = "rest"
      BY <1>1 DEF Push, Rest
    <2>3. PICK r : Become(p, r) /\ r.phase # "saved"
      BY <1>9, <2>2 DEF Register
    <2>4. push'[p].phase # "saved" /\ \A o \in Pushers \ {p} : push'[o] = push[o]
      BY <1>1, <2>3, BecomeOnly
    <2>5. (source[c] # Nil => source' = source) /\ \A d \in Clones \ {c} : source'[d] = source[d]
      BY <1>9, <2>1 DEF Register
    <2>6. c \in blurred \/ Skips(c)'
      BY <1>4, <2>1, <2>4, <2>5, SkipsHere
    <2> QED BY <1>3, <2>1, <2>4, <2>5, <2>6
  <1>10. ASSUME NEW p \in Pushers, SaveSource(p) PROVE SkipsInv'
    <2> DEFINE c == CloneOf[p]
               b == push[p].bundle
               q == [Rest EXCEPT !.phase = "saved", !.known = TRUE, !.bundle = b]
    <2>1. /\ Busy(p) /\ push[p].phase = "saving" /\ UNCHANGED <<marker, blurred>> /\ c \in Clones
          /\ source \in [Clones -> SourceRow \cup {Nil}] /\ Become(p, q)
      BY <1>1, <1>10 DEF SaveSource, Busy, GitTypeOK
    <2>2. source[c] # Nil /\ source[c] \in SourceRow
      BY <1>1, <2>1 DEF PushSound
    <2>3. q.bundle = b
      BY DEF Rest
    <2> HIDE DEF q
    <2>4. push'[p].bundle = b /\ \A o \in Pushers \ {p} : push'[o] = push[o]
      BY <1>1, <2>1, <2>3, BecomeOnly
    <2>5. \A d \in Clones \ {c} : source'[d] = source[d]
      BY <1>10, <2>1 DEF SaveSource
    <2>6. source'[c] # Nil
      <3>1. source' \in [Clones -> SourceRow \cup {Nil}] /\ PushSound(p)' /\ push'[p] = q
        <4>1. GitInv'
          BY <1>10, GitInvStep DEF GitNext
        <4> QED BY <1>1, <2>1, <4>1, BecomeOnly DEF GitInv, GitTypeOK
      <3>2. q.known
        BY DEF q, Rest
      <3> QED BY <3>1, <3>2 DEF PushSound
    <2>7. IF b.snapshot THEN source'[c].snapshot = b.tree ELSE source'[c].snapshot = source[c].snapshot
      BY <1>10, <2>1, <2>2 DEF SaveSource, SourceRow
    <2>8. push'[p].phase = "saved"
      <3>1. q.phase = "saved"
        BY DEF q, Rest
      <3> QED BY <1>1, <2>1, <3>1, BecomeOnly
    <2>9. c \in blurred \/ Skips(c)'
      BY <1>4, <2>1, <2>4, <2>6, <2>7, <2>8, SkipsHere
    <2> QED BY <1>3, <2>1, <2>4, <2>5, <2>9
  <1>11. ASSUME NEW c \in Clones, NEW commit \in Commits, MoveBranch(c, commit) PROVE SkipsInv'
    BY <1>2, <1>11 DEF MoveBranch, Worked, rowVars
  <1>12. ASSUME NEW c \in Clones, NEW t \in Trees \cup {Nil}, EditTree(c, t) PROVE SkipsInv'
    BY <1>2, <1>12 DEF EditTree, Worked, rowVars
  <1>13. CASE UNCHANGED gitVars
    BY <1>2, <1>13 DEF gitVars, rowVars
  <1> QED BY <1>5, <1>6, <1>7, <1>8, <1>9, <1>10, <1>11, <1>12, <1>13 DEF GitNext

-----------------------------------------------------------------------------
(* One network a root.                                                     *)

LEMMA SimpleBefore ==
    ASSUME [GitNext]_gitVars, Simple'
    PROVE  Simple
  <1>1. CASE UNCHANGED gitVars
    BY <1>1 DEF Simple, gitVars
  <1>2. ASSUME NEW c \in Clones, NEW commit \in Commits, MoveBranch(c, commit) PROVE Simple
    BY <1>2 DEF MoveBranch, Worked, Simple
  <1>3. ASSUME NEW c \in Clones, NEW t \in Trees \cup {Nil}, EditTree(c, t) PROVE Simple
    BY <1>3 DEF EditTree, Worked, Simple
  <1>4. ASSUME NEW p \in Pushers, AskKnown(p) \/ LookUp(p) PROVE Simple
    <2>1. CASE AskKnown(p)
      <3>1. ~together' /\ joined' = joined /\ joined' = {}
        BY <2>1 DEF AskKnown, Simple
      <3>2. ~together
        BY <2>1, <3>1, Zenon DEF AskKnown
      <3> QED BY <3>1, <3>2 DEF Simple
    <2>2. CASE LookUp(p)
      <3>1. joined \subseteq joined' /\ together' = together
        BY <2>2 DEF LookUp
      <3> QED BY <3>1 DEF Simple
    <2> QED BY <1>4, <2>1, <2>2
  <1>5. ASSUME NEW p \in Pushers,
               \/ PushHistory(p) \/ PushSnapshot(p) \/ Acknowledged(p) \/ GiveUpGit(p)
               \/ FoundNetwork(p) \/ CarryRoots(p) \/ Register(p) \/ Fetch(p) \/ SaveSource(p)
        PROVE  Simple
    BY <1>5 DEF PushHistory, PushSnapshot, Acknowledged, GiveUpGit, FoundNetwork, CarryRoots, Register, Fetch,
                SaveSource, Simple
  <1> QED BY <1>1, <1>2, <1>3, <1>4, <1>5 DEF GitNext

LEMMA RestRoots ==
    ASSUME NEW p \in Pushers, push'[p].phase = "rest"
    PROVE  RootsSound(p)' /\ ~First(p)'
  BY DEF RootsSound, Sent, First, Busy

(* Another push of the time is no first push, or it does not run, so that  *)
(* roots that are written do not matter to it.                             *)
LEMMA RootsElsewhere ==
    ASSUME NEW o \in Pushers, PushSound(o), RootsSound(o), push'[o] = push[o], UNCHANGED head,
           UNCHANGED rootsOf \/ ~First(o)
    PROVE  RootsSound(o)'
  <1>1. CASE UNCHANGED rootsOf
    BY <1>1 DEF RootsSound, Sent, Sharing, Rows
  <1>2. CASE ~First(o)
    <2>1. push[o].phase \notin {"founding", "carrying", "registering"}
      BY <1>2 DEF First, Busy, RootsSound, PushSound
    <2> QED BY <2>1 DEF RootsSound, Sent
  <1> QED BY <1>1, <1>2

LEMMA RootsHook ==
    ASSUME GitInv, RootsInv, Simple, NEW p \in Pushers, UNCHANGED head,
           \A o \in Pushers \ {p} : push'[o] = push[o],
           First(p)' => First(p) \/ \A o \in Pushers : ~First(o),
           RootsSound(p)',
           UNCHANGED rootsOf \/ (First(p) /\ \A m, n \in Rows' : m # n => rootsOf'[m] \cap rootsOf'[n] = {}),
           \A n \in Rows : rootsOf[n] \subseteq rootsOf'[n],
           \A c \in Clones : source'[c] # Nil => \/ source[c] # Nil /\ source'[c].net = source[c].net
                                                 \/ Roots(head[c]) \subseteq rootsOf'[source'[c].net]
    PROVE  RootsInv'
  <1>1. /\ \A x, y \in Pushers : First(x) /\ First(y) => x = y
        /\ \A m, n \in Rows : m # n => rootsOf[m] \cap rootsOf[n] = {}
        /\ \A c \in Clones : source[c] # Nil => Roots(head[c]) \subseteq rootsOf[source[c].net]
        /\ \A x \in Pushers : RootsSound(x)
    BY DEF RootsInv
  <1>2. \A o \in Pushers \ {p} : First(o)' <=> First(o)
    BY DEF First, Busy
  <1>3. \A x, y \in Pushers : First(x)' /\ First(y)' => x = y
    BY <1>1, <1>2
  <1>4. \A m, n \in Rows' : m # n => rootsOf'[m] \cap rootsOf'[n] = {}
    BY <1>1 DEF Rows
  <1>5. \A c \in Clones : source'[c] # Nil => Roots(head'[c]) \subseteq rootsOf'[source'[c].net]
    <2> SUFFICES ASSUME NEW c \in Clones, source'[c] # Nil PROVE Roots(head[c]) \subseteq rootsOf'[source'[c].net]
      OBVIOUS
    <2>1. source[c] # Nil => source[c].net \in Rows
      BY DEF GitInv, SourceSound
    <2> QED BY <1>1, <2>1
  <1>6. \A o \in Pushers \ {p} : RootsSound(o)'
    <2> SUFFICES ASSUME NEW o \in Pushers \ {p} PROVE RootsSound(o)'
      OBVIOUS
    <2>1. PushSound(o)
      BY DEF GitInv
    <2>2. UNCHANGED rootsOf \/ ~First(o)
      BY <1>1
    <2> QED BY <1>1, <2>1, <2>2, RootsElsewhere
  <1> QED BY <1>3, <1>4, <1>5, <1>6 DEF RootsInv

LEMMA RootsOfNothing == Roots(Nil) = {}
  <1>1. {Nil} \ {Nil} = {}
    OBVIOUS
  <1> QED BY <1>1, HistoryOfNothing DEF Roots, RootsIn

LEMMA SharingOne ==
    ASSUME NEW roots, NEW n \in Sharing(roots), ~(Cardinality(Sharing(roots)) > 1)
    PROVE  Sharing(roots) = {n}
  <1>1. IsFiniteSet(Sharing(roots))
    BY NetworkAssumption, FS_Subset DEF Sharing, Rows
  <1> SUFFICES ASSUME NEW m \in Sharing(roots), m # n PROVE FALSE
    OBVIOUS
  <1>2. IsFiniteSet({m, n}) /\ Cardinality({m, n}) = 2
    <2>1. IsFiniteSet({n}) /\ Cardinality({n}) = 1
      BY FS_Singleton
    <2>2. IsFiniteSet({n} \cup {m}) /\ Cardinality({n} \cup {m}) = 2
      BY <2>1, FS_AddElement
    <2>3. {n} \cup {m} = {m, n}
      OBVIOUS
    <2> QED BY <2>2, <2>3
  <1>3. Cardinality({m, n}) <= Cardinality(Sharing(roots))
    BY <1>1, FS_Subset
  <1>4. Cardinality(Sharing(roots)) \in Nat
    BY <1>1, FS_CardinalityType
  <1> QED BY <1>2, <1>3, <1>4

LEMMA RootsStep ==
    ASSUME GitInv, RootsInv, [GitNext]_gitVars, Simple'
    PROVE  RootsInv'
  <1>1. /\ GitTypeOK /\ CloneOf \in [Pushers -> Clones] /\ push \in [Pushers -> Push] /\ Simple
        /\ \A c \in Clones : SourceSound(c)
        /\ \A p \in Pushers : PushSound(p)
    BY SimpleBefore, CloneAssumption DEF GitInv, GitTypeOK
  <1>2. /\ \A x, y \in Pushers : First(x) /\ First(y) => x = y
        /\ \A m, n \in Rows : m # n => rootsOf[m] \cap rootsOf[n] = {}
        /\ \A c \in Clones : source[c] # Nil => Roots(head[c]) \subseteq rootsOf[source[c].net]
        /\ \A p \in Pushers : RootsSound(p)
    BY <1>1 DEF RootsInv
  (* The roots of a clone stay, or it is not registered and nobody pushes it. *)
  <1>3. ASSUME UNCHANGED <<push, rowVars>>,
               \A c \in Clones : \/ Roots(head'[c]) = Roots(head[c])
                                 \/ source[c] = Nil /\ \A p \in Pushers : Busy(p) => CloneOf[p] # c
        PROVE  RootsInv'
    <2>1. \A p \in Pushers : RootsSound(p)'
      <3> SUFFICES ASSUME NEW p \in Pushers PROVE RootsSound(p)'
        OBVIOUS
      <3>1. CASE Busy(p)
        <4>1. Roots(head'[CloneOf[p]]) = Roots(head[CloneOf[p]])
          BY <1>1, <1>3, <3>1
        <4> QED BY <1>2, <1>3, <4>1 DEF RootsSound, Sent, Sharing, Rows, rowVars
      <3>2. CASE ~Busy(p)
        BY <1>3, <3>2, RestRoots DEF Busy
      <3> QED BY <3>1, <3>2
    <2>2. \A c \in Clones : source'[c] # Nil => Roots(head'[c]) \subseteq rootsOf'[source'[c].net]
      BY <1>2, <1>3 DEF rowVars
    <2>3. \A x, y \in Pushers : First(x)' /\ First(y)' => x = y
      BY <1>2, <1>3 DEF First, Busy
    <2> QED BY <1>2, <1>3, <2>1, <2>2, <2>3 DEF RootsInv, Rows, rowVars
  <1>4. ASSUME NEW c \in Clones, NEW commit \in Commits, MoveBranch(c, commit) PROVE RootsInv'
    <2>1. UNCHANGED <<push, rowVars>> /\ head' = [head EXCEPT ![c] = commit] /\ head \in [Clones -> Commits \cup {Nil}]
      BY <1>1, <1>4 DEF MoveBranch, Worked, GitTypeOK
    <2>2. Roots(commit) = Roots(head[c]) \/ (source[c] = Nil /\ ~\E p \in Running : CloneOf[p] = c)
      <3>1. joined' = {}
        BY DEF Simple
      <3> QED BY <1>4, <3>1 DEF MoveBranch
    <2> QED BY <1>3, <2>1, <2>2 DEF Running, Busy
  <1>5. ASSUME NEW c \in Clones, NEW t \in Trees \cup {Nil}, EditTree(c, t) PROVE RootsInv'
    BY <1>3, <1>5 DEF EditTree, Worked
  (* A step that neither registers nor writes roots. *)
  <1>6. ASSUME NEW p \in Pushers, NEW q, Become(p, q), UNCHANGED <<head, rowVars>>,
               RootsSound(p)', q.phase # "rest" /\ ~q.known => First(p)
        PROVE  RootsInv'
    <2>1. push'[p] = q /\ \A o \in Pushers \ {p} : push'[o] = push[o]
      BY <1>1, <1>6, BecomeOnly
    <2>2. First(p)' => First(p)
      BY <1>6, <2>1 DEF First, Busy
    <2> QED BY <1>1, <1>6, <2>1, <2>2, RootsHook DEF rowVars
  <1>7. ASSUME NEW p \in Pushers, Become(p, Rest), UNCHANGED <<head, rowVars>> PROVE RootsInv'
    <2>1. push'[p] = Rest /\ Rest.phase = "rest"
      BY <1>1, <1>7, BecomeOnly DEF Rest
    <2> QED BY <1>6, <1>7, <2>1, RestRoots
  <1>8. ASSUME NEW p \in Pushers, AskKnown(p) PROVE RootsInv'
    <2> DEFINE c     == CloneOf[p]
               tips  == Announced(c) \cap objects[c]
               q     == [[Rest EXCEPT !.known = (source[c] # Nil), !.tips = tips]
                           EXCEPT !.phase = IF Heads(c) \subseteq tips THEN "snapshot" ELSE "history"]
    <2>1. Become(p, q) /\ UNCHANGED <<head, rowVars>> /\ c \in Clones
      BY <1>1, <1>8 DEF AskKnown, cloneVars
    <2>2. /\ q.phase \in {"snapshot", "history"} /\ (q.known => source[c] # Nil) /\ (~q.known => source[c] = Nil)
          /\ q.phase = "snapshot" => Heads(c) \subseteq tips
      BY DEF Rest
    <2>3. source[c] = Nil => tips = {}
      BY DEF Announced
    <2> HIDE DEF q, tips
    <2>4. push'[p] = q /\ \A o \in Pushers \ {p} : push'[o] = push[o]
      BY <1>1, <2>1, BecomeOnly
    <2>5. q.phase = "snapshot" /\ ~q.known => Roots(head[c]) = {}
      <3> SUFFICES ASSUME q.phase = "snapshot", ~q.known PROVE Roots(head[c]) = {}
        OBVIOUS
      <3>1. head[c] = Nil
        BY <2>2, <2>3 DEF Heads
      <3> QED BY <3>1, RootsOfNothing
    <2>6. RootsSound(p)'
      BY <2>1, <2>2, <2>4, <2>5 DEF RootsSound, Sent
    <2>7. ~q.known => \A o \in Pushers : ~First(o)
      <3>1. ~together'
        BY DEF Simple
      <3>2. source[c] = Nil => ~\E o \in Running : ~push[o].known
        BY <1>8, <3>1, Zenon DEF AskKnown
      <3> QED BY <2>2, <3>2 DEF First, Busy, Running
    <2>8. First(p)' => \A o \in Pushers : ~First(o)
      BY <2>4, <2>7 DEF First, Busy
    <2> QED BY <1>1, <2>1, <2>4, <2>6, <2>8, RootsHook DEF rowVars
  <1>9. ASSUME NEW p \in Pushers, PushHistory(p) PROVE RootsInv'
    <2> DEFINE c     == CloneOf[p]
               lacks == History(Heads(c)) \ History(push[p].tips)
               b     == [Empty EXCEPT !.brings = lacks, !.needs = History(Heads(c)) \ lacks,
                                      !.tip = head[c], !.roots = Roots(head[c])]
               q     == [push[p] EXCEPT !.phase = "posted", !.bundle = b]
    <2>1. /\ push[p].phase = "history" /\ Become(p, IF lacks = {} THEN Rest ELSE q)
          /\ UNCHANGED <<head, rowVars>> /\ push[p] \in Push
      BY <1>1, <1>9 DEF PushHistory, cloneVars
    <2>2. b.roots = Roots(head[c])
      BY DEF Empty
    <2> HIDE DEF b, lacks
    <2>3. q.phase = "posted" /\ q.bundle.roots = Roots(head[c]) /\ (q.known => push[p].known) /\ (~q.known => ~push[p].known)
      BY <2>1, <2>2 DEF Push
    <2> HIDE DEF q
    <2>4. CASE Become(p, Rest)
      BY <1>7, <2>1, <2>4
    <2>5. CASE Become(p, q)
      <3>1. push'[p] = q
        BY <1>1, <2>5, BecomeOnly
      <3>2. RootsSound(p)'
        BY <2>1, <2>3, <3>1 DEF RootsSound, Sent
      <3> QED BY <1>6, <2>1, <2>3, <2>5, <3>2 DEF First, Busy
    <2> QED BY <2>1, <2>4, <2>5
  <1>10. ASSUME NEW p \in Pushers, PushSnapshot(p) PROVE RootsInv'
    <2> DEFINE c == CloneOf[p]
               b == [Empty EXCEPT !.snapshot = TRUE, !.needs = Heads(c), !.tree = tree[c]]
               q == [push[p] EXCEPT !.phase = "posted", !.bundle = b]
    <2>1. /\ push[p].phase = "snapshot" /\ Become(p, IF tree[c] \in {Nil, marker[c]} THEN Rest ELSE q)
          /\ UNCHANGED <<head, rowVars>> /\ push[p] \in Push /\ RootsSound(p)
      BY <1>1, <1>2, <1>10 DEF PushSnapshot, cloneVars
    <2>2. b.roots = {}
      BY DEF Empty
    <2> HIDE DEF b
    <2>3. q.phase = "posted" /\ q.bundle.roots = {} /\ (q.known => push[p].known) /\ (~q.known => ~push[p].known)
      BY <2>1, <2>2 DEF Push
    <2> HIDE DEF q
    <2>4. CASE Become(p, Rest)
      BY <1>7, <2>1, <2>4
    <2>5. CASE Become(p, q)
      <3>1. push'[p] = q
        BY <1>1, <2>5, BecomeOnly
      <3>2. RootsSound(p)'
        BY <2>1, <2>3, <3>1 DEF RootsSound, Sent
      <3> QED BY <1>6, <2>1, <2>3, <2>5, <3>2 DEF First, Busy
    <2> QED BY <2>1, <2>4, <2>5
  <1>11. ASSUME NEW p \in Pushers, Acknowledged(p) PROVE RootsInv'
    <2> DEFINE q == [Rest EXCEPT !.phase = "snapshot", !.known = TRUE]
    <2>1. UNCHANGED <<head, rowVars>> /\ (Become(p, Rest) \/ Become(p, q))
      BY <1>11 DEF Acknowledged, cloneVars
    <2>2. q.phase = "snapshot" /\ q.known
      BY DEF Rest
    <2> HIDE DEF q
    <2>3. CASE Become(p, q)
      <3>1. push'[p] = q
        BY <1>1, <2>3, BecomeOnly
      <3>2. RootsSound(p)'
        BY <2>2, <3>1 DEF RootsSound, Sent
      <3> QED BY <1>6, <2>1, <2>2, <2>3, <3>2
    <2> QED BY <1>7, <2>1, <2>3
  <1>12. ASSUME NEW p \in Pushers, GiveUpGit(p) PROVE RootsInv'
    BY <1>7, <1>12 DEF GiveUpGit, cloneVars
  <1>13. ASSUME NEW p \in Pushers, LookUp(p) PROVE RootsInv'
    <2> DEFINE c            == CloneOf[p]
               roots        == push[p].bundle.roots
               In(n, known) == [push[p] EXCEPT !.known = known, !.net = n, !.read = rootsOf[n]]
    <2>1. /\ c \in Clones /\ push[p] \in Push /\ push[p].phase = "posted" /\ PushSound(p) /\ RootsSound(p)
          /\ UNCHANGED <<head, rowVars>>
      BY <1>1, <1>2, <1>13 DEF LookUp, cloneVars
    <2>2. roots \subseteq Roots(head[c]) /\ (~push[p].known => roots = Roots(head[c])) /\ Busy(p)
      BY <2>1 DEF RootsSound, Sent, Busy
    <2>3. ASSUME NEW n \in Networks, NEW known \in BOOLEAN, rootsOf[n] \in SUBSET Commits
          PROVE  /\ Carry(In(n, known)).known = known /\ Carry(In(n, known)).net = n
                 /\ Carry(In(n, known)).bundle = push[p].bundle /\ Carry(In(n, known)).read = rootsOf[n]
                 /\ Carry(In(n, known)).phase = IF ~(roots \subseteq rootsOf[n]) THEN "carrying"
                                                ELSE IF known THEN "fetching" ELSE "registering"
      <3>1. In(n, known) \in Push
        BY <2>1, <2>3 DEF Push
      <3>2. /\ In(n, known).known = known /\ In(n, known).net = n
            /\ In(n, known).bundle = push[p].bundle /\ In(n, known).read = rootsOf[n]
        BY <2>1 DEF Push
      <3> HIDE DEF In
      <3> QED BY <3>1, <3>2, CarrySound
    <2>4. CASE source[c] # Nil
      <3> DEFINE n == source[c].net
                 q == Carry(In(n, TRUE))
      <3>1. n \in Rows /\ n \in Networks /\ rootsOf[n] \in SUBSET Commits /\ Roots(head[c]) \subseteq rootsOf[n]
        <4>1. n \in Rows
          BY <1>1, <2>1, <2>4 DEF SourceSound
        <4>2. n \in Networks /\ rootsOf[n] \in SUBSET Commits
          BY <1>1, <4>1 DEF Rows, GitTypeOK
        <4> QED BY <1>2, <2>1, <2>4, <4>1, <4>2
      <3>2. q.known /\ q.phase = "fetching" /\ q.bundle = push[p].bundle
        BY <2>2, <2>3, <3>1
      <3>3. Become(p, q)
        BY <1>13, <2>4 DEF LookUp
      <3> HIDE DEF q
      <3>4. push'[p] = q
        BY <1>1, <3>3, BecomeOnly
      <3>5. RootsSound(p)'
        BY <2>1, <2>2, <3>2, <3>4 DEF RootsSound, Sent
      <3> QED BY <1>6, <2>1, <3>2, <3>3, <3>5
    <2>5. CASE source[c] = Nil
      <3>1. ~push[p].known /\ roots = Roots(head[c]) /\ First(p)
        BY <2>1, <2>2, <2>5 DEF PushSound, First
      <3>2. CASE Sharing(roots) = {} /\ Become(p, [push[p] EXCEPT !.phase = "founding"])
        <4> DEFINE q == [push[p] EXCEPT !.phase = "founding"]
        <4>1. q.phase = "founding" /\ q.bundle = push[p].bundle
          BY <2>1 DEF Push
        <4>2. Become(p, q)
          BY <3>2
        <4> HIDE DEF q
        <4>3. push'[p] = q
          BY <1>1, <4>2, BecomeOnly
        <4>4. Sharing(roots)' = {}
          BY <2>1, <3>2, <4>1, <4>3 DEF Sharing, Rows, rowVars
        <4>5. RootsSound(p)'
          BY <2>1, <3>1, <4>1, <4>3, <4>4 DEF RootsSound, Sent
        <4> QED BY <1>6, <2>1, <3>1, <4>2, <4>5
      <3>3. ASSUME NEW n \in Sharing(roots), Become(p, Carry(In(n, FALSE))) PROVE RootsInv'
        <4> DEFINE q == Carry(In(n, FALSE))
        <4>1. n \in Rows /\ n \in Networks /\ rootsOf[n] \in SUBSET Commits
          BY <1>1 DEF Sharing, Rows, GitTypeOK
        <4>2. Sharing(roots) = {n}
          <5>1. joined' = {}
            BY DEF Simple
          <5>2. ~(Cardinality(Sharing(roots)) > 1)
            BY <1>13, <2>5, <5>1 DEF LookUp
          <5> QED BY <5>2, SharingOne
        <4>3. /\ ~q.known /\ q.net = n /\ q.bundle = push[p].bundle /\ q.read = rootsOf[n]
              /\ q.phase = IF ~(roots \subseteq rootsOf[n]) THEN "carrying" ELSE "registering"
          BY <2>3, <4>1
        <4>4. Become(p, q)
          BY <3>3
        <4> HIDE DEF q
        <4>5. push'[p] = q
          BY <1>1, <4>4, BecomeOnly
        <4>6. Sharing(roots)' \subseteq {n}
          BY <2>1, <4>2, <4>3, <4>5 DEF Sharing, Rows, rowVars
        <4>7. RootsSound(p)'
          BY <2>1, <3>1, <4>3, <4>5, <4>6 DEF RootsSound, Sent, rowVars
        <4> QED BY <1>6, <2>1, <3>1, <4>4, <4>7
      <3> QED BY <1>13, <2>5, <3>2, <3>3 DEF LookUp
    <2> QED BY <2>4, <2>5
  <1>14. ASSUME NEW p \in Pushers, FoundNetwork(p) PROVE RootsInv'
    <2> DEFINE c     == CloneOf[p]
               roots == push[p].bundle.roots
               q     == [push[p] EXCEPT !.phase = "registering", !.net = NextId]
    <2>1. /\ push[p] \in Push /\ push[p].phase = "founding" /\ PushSound(p) /\ RootsSound(p)
          /\ NextId \in Networks \ Rows
      BY <1>1, <1>2, <1>14 DEF FoundNetwork, NextId
    <2>2. /\ Become(p, q) /\ rootsOf' = [rootsOf EXCEPT ![NextId] = roots] /\ UNCHANGED <<head, source>>
          /\ rootsOf \in [Networks -> (SUBSET Commits) \cup {Nil}]
      BY <1>1, <1>14 DEF FoundNetwork, cloneVars, GitTypeOK
    <2>3. ~push[p].known /\ First(p) /\ roots = Roots(head[c]) /\ Sharing(roots) = {}
      BY <2>1 DEF PushSound, RootsSound, Sent, First, Busy
    <2>4. q.phase = "registering" /\ q.net = NextId /\ q.bundle = push[p].bundle /\ ~q.known
      BY <2>1, <2>3 DEF Push
    <2> HIDE DEF q
    <2>5. push'[p] = q /\ \A o \in Pushers \ {p} : push'[o] = push[o]
      BY <1>1, <2>2, BecomeOnly
    <2>6. rootsOf'[NextId] = roots /\ \A n \in Networks \ {NextId} : rootsOf'[n] = rootsOf[n]
      BY <2>1, <2>2
    <2>7. Rows' \subseteq Rows \cup {NextId} /\ NextId \notin Rows /\ \A n \in Rows : n # NextId /\ rootsOf'[n] = rootsOf[n]
      BY <2>1, <2>6 DEF Rows
    <2>8. \A n \in Rows : rootsOf[n] \cap roots = {}
      BY <2>3 DEF Sharing
    <2>9. \A m, n \in Rows' : m # n => rootsOf'[m] \cap rootsOf'[n] = {}
      BY <1>2, <2>6, <2>7, <2>8
    <2>10. RootsSound(p)'
      BY <2>2, <2>3, <2>4, <2>5, <2>6 DEF RootsSound, Sent
    <2> QED BY <1>1, <2>2, <2>3, <2>5, <2>7, <2>9, <2>10, RootsHook
  <1>15. ASSUME NEW p \in Pushers, CarryRoots(p) PROVE RootsInv'
    <2> DEFINE n     == push[p].net
               roots == push[p].bundle.roots
               r     == [push[p] EXCEPT !.read = rootsOf'[n]]
               q     == Carry(r)
    <2>1. /\ push[p] \in Push /\ push[p].phase = "carrying" /\ PushSound(p) /\ RootsSound(p)
          /\ n \in Rows /\ n \in Networks
      BY <1>1, <1>2, <1>15 DEF CarryRoots, PushSound, Rows
    <2>2. /\ Become(p, q) /\ rootsOf' = [rootsOf EXCEPT ![n] = push[p].read \cup roots] /\ UNCHANGED <<head, source>>
          /\ rootsOf \in [Networks -> (SUBSET Commits) \cup {Nil}]
      BY <1>1, <1>15 DEF CarryRoots, cloneVars, GitTypeOK
    <2>3. /\ ~push[p].known /\ First(p) /\ roots = Roots(head[CloneOf[p]]) /\ Sharing(roots) \subseteq {n}
          /\ push[p].read = rootsOf[n]
      BY <2>1 DEF RootsSound, Sent, First, Busy
    <2>4. rootsOf'[n] = rootsOf[n] \cup roots /\ \A m \in Networks \ {n} : rootsOf'[m] = rootsOf[m]
      BY <2>1, <2>2, <2>3
    <2>5. /\ r \in Push /\ r.known = push[p].known /\ r.net = n /\ r.bundle = push[p].bundle
          /\ r.read = rootsOf'[n]
      <3>1. rootsOf'[n] \in SUBSET Commits
        BY <2>1, <2>2, <2>3, <2>4 DEF Push, Bundle
      <3> QED BY <2>1, <3>1 DEF Push
    <2> HIDE DEF r
    <2>6. q.phase = "registering" /\ q.net = n /\ q.bundle = push[p].bundle /\ ~q.known
      BY <2>3, <2>4, <2>5, CarrySound
    <2> HIDE DEF q
    <2>7. push'[p] = q /\ \A o \in Pushers \ {p} : push'[o] = push[o]
      BY <1>1, <2>2, BecomeOnly
    <2>8. Rows' \subseteq Rows
      BY <2>1, <2>4 DEF Rows
    <2>9. \A m \in Rows \ {n} : rootsOf[m] \cap roots = {}
      BY <2>3 DEF Sharing
    <2>10. \A l, m \in Rows' : l # m => rootsOf'[l] \cap rootsOf'[m] = {}
      <3> SUFFICES ASSUME NEW l \in Rows, NEW m \in Rows, l # m PROVE rootsOf'[l] \cap rootsOf'[m] = {}
        BY <2>8
      <3>1. l \in Networks /\ m \in Networks /\ rootsOf[l] \cap rootsOf[m] = {}
        BY <1>2 DEF Rows
      <3>2. CASE l = n
        BY <2>4, <2>9, <3>1, <3>2
      <3>3. CASE m = n
        BY <2>4, <2>9, <3>1, <3>3
      <3>4. CASE l # n /\ m # n
        BY <2>4, <3>1, <3>4
      <3> QED BY <3>2, <3>3, <3>4
    <2>11. RootsSound(p)'
      BY <2>2, <2>3, <2>4, <2>6, <2>7 DEF RootsSound, Sent
    <2>12. \A m \in Rows : rootsOf[m] \subseteq rootsOf'[m]
      BY <2>4 DEF Rows
    <2> QED BY <1>1, <2>2, <2>3, <2>7, <2>10, <2>11, <2>12, RootsHook
  <1>16. ASSUME NEW p \in Pushers, Register(p) PROVE RootsInv'
    <2> DEFINE c == CloneOf[p]
               q == [push[p] EXCEPT !.phase = "fetching"]
    <2>1. /\ c \in Clones /\ push[p] \in Push /\ push[p].phase = "registering" /\ PushSound(p) /\ RootsSound(p)
          /\ UNCHANGED <<head, rootsOf>> /\ source \in [Clones -> SourceRow \cup {Nil}]
      BY <1>1, <1>2, <1>16 DEF Register, cloneVars, GitTypeOK
    <2>2. CASE Become(p, Rest) /\ UNCHANGED source
      BY <1>7, <1>16, <2>1, <2>2 DEF Register, rowVars
    <2>3. CASE Become(p, q) /\ source' = [source EXCEPT ![c] = NewSource(push[p].net)]
      <3>1. /\ ~push[p].known /\ First(p) /\ push[p].bundle.roots = Roots(head[c])
            /\ Roots(head[c]) \subseteq rootsOf[push[p].net]
        BY <2>1 DEF PushSound, RootsSound, Sent, First, Busy
      <3>2. q.phase = "fetching" /\ q.bundle = push[p].bundle /\ ~q.known
        BY <2>1, <3>1 DEF Push
      <3> HIDE DEF q
      <3>3. push'[p] = q /\ \A o \in Pushers \ {p} : push'[o] = push[o]
        BY <1>1, <2>3, BecomeOnly
      <3>4. RootsSound(p)'
        BY <2>1, <3>1, <3>2, <3>3 DEF RootsSound, Sent
      <3>5. source'[c].net = push[p].net /\ \A d \in Clones \ {c} : source'[d] = source[d]
        BY <2>1, <2>3 DEF NewSource
      <3> QED BY <1>1, <2>1, <3>1, <3>3, <3>4, <3>5, RootsHook
    <2> QED BY <1>16, <2>2, <2>3 DEF Register
  <1>17. ASSUME NEW p \in Pushers, Fetch(p) PROVE RootsInv'
    <2> DEFINE q == [push[p] EXCEPT !.phase = "saving"]
    <2>1. /\ push[p] \in Push /\ push[p].phase = "fetching" /\ RootsSound(p)
          /\ UNCHANGED <<head, rootsOf, source>> /\ (Become(p, Rest) \/ Become(p, q))
      BY <1>1, <1>2, <1>17 DEF Fetch, cloneVars
    <2>2. q.phase = "saving" /\ q.bundle = push[p].bundle /\ (q.known => push[p].known) /\ (~q.known => ~push[p].known)
      BY <2>1 DEF Push
    <2> HIDE DEF q
    <2>3. PICK r : Become(p, r) /\ (r = q \/ r = Rest)
      BY <2>1
    <2>4. push'[p] = r /\ \A o \in Pushers \ {p} : push'[o] = push[o]
      BY <1>1, <2>3, BecomeOnly
    <2>5. Rest.phase = "rest"
      BY DEF Rest
    <2>6. RootsSound(p)' /\ (First(p)' => First(p))
      <3>1. CASE r = Rest
        BY <2>4, <2>5, <3>1, RestRoots
      <3>2. CASE r = q
        BY <2>1, <2>2, <2>4, <3>2 DEF RootsSound, Sent, First, Busy
      <3> QED BY <2>3, <3>1, <3>2
    <2> QED BY <1>1, <2>1, <2>4, <2>6, RootsHook
  <1>18. ASSUME NEW p \in Pushers, SaveSource(p) PROVE RootsInv'
    <2> DEFINE c == CloneOf[p]
               q == [Rest EXCEPT !.phase = "saved", !.known = TRUE, !.bundle = push[p].bundle]
    <2>1. /\ c \in Clones /\ push[p].phase = "saving" /\ PushSound(p) /\ RootsSound(p) /\ Become(p, q)
          /\ UNCHANGED <<head, rootsOf>> /\ source \in [Clones -> SourceRow \cup {Nil}]
      BY <1>1, <1>2, <1>18 DEF SaveSource, cloneVars, GitTypeOK
    <2>2. q.phase = "saved" /\ q.known /\ q.bundle = push[p].bundle
      BY DEF Rest
    <2> HIDE DEF q
    <2>3. push'[p] = q /\ \A o \in Pushers \ {p} : push'[o] = push[o]
      BY <1>1, <2>1, BecomeOnly
    <2>4. RootsSound(p)' /\ ~First(p)'
      BY <2>1, <2>2, <2>3 DEF RootsSound, Sent, First
    <2>5. source[c] # Nil /\ source[c] \in SourceRow
      BY <2>1 DEF PushSound
    <2>6. source'[c].net = source[c].net /\ \A d \in Clones \ {c} : source'[d] = source[d]
      BY <1>18, <2>1, <2>5 DEF SaveSource, SourceRow
    <2> QED BY <1>1, <2>1, <2>3, <2>4, <2>5, <2>6, RootsHook
  <1>19. CASE UNCHANGED gitVars
    BY <1>3, <1>19 DEF gitVars, cloneVars
  <1> QED BY <1>4, <1>5, <1>8, <1>9, <1>10, <1>11, <1>12, <1>13, <1>14, <1>15, <1>16, <1>17, <1>18, <1>19 DEF GitNext

LEMMA InitSkipsAndRoots == GitInit => SkipsInv /\ RootsInv
  <1> SUFFICES ASSUME GitInit PROVE SkipsInv /\ RootsInv
    OBVIOUS
  <1>1. /\ \A p \in Pushers : push[p] = Rest /\ Rest.phase = "rest"
        /\ \A c \in Clones : marker[c] = Nil /\ source[c] = Nil
        /\ Rows = {}
    BY DEF GitInit, Rest, Rows
  <1>2. SkipsInv
    BY <1>1 DEF SkipsInv, Skips, Busy
  <1>3. \A p \in Pushers : RootsSound(p) /\ ~First(p)
    BY <1>1 DEF RootsSound, Sent, First, Busy
  <1>4. RootsInv
    BY <1>1, <1>3 DEF RootsInv
  <1> QED BY <1>2, <1>4

LEMMA RootsStays ==
    ASSUME GitInv, RootsInv, [GitNext]_gitVars
    PROVE  RootsInv'
  <1>1. CASE Simple'
    BY <1>1, RootsStep
  <1>2. CASE ~Simple'
    BY <1>2 DEF RootsInv
  <1> QED BY <1>1, <1>2

-----------------------------------------------------------------------------
(* What the invariants say.                                                *)

LEMMA InvariantsHold ==
    ASSUME GitInv, SkipsInv, RootsInv
    PROVE  HistoryWhole /\ BundlesFit /\ OneNetworkARoot /\ SkippedIsHeld
  <1>1. HistoryWhole
    BY DEF GitInv, SourceSound, Has, HistoryWhole
  <1>2. BundlesFit
    <2> SUFFICES ASSUME NEW p \in Pushers, Sent(p), ~push[p].bundle.snapshot
                 PROVE  IF source[CloneOf[p]] = Nil THEN push[p].bundle.needs = {}
                        ELSE push[p].bundle.needs \subseteq store[source[CloneOf[p]].net]
      BY DEF BundlesFit, Sent
    <2>1. PushSound(p)
      BY DEF GitInv
    <2> QED BY <2>1 DEF PushSound, Has
  <1>3. OneNetworkARoot
    BY DEF RootsInv, Simple, OneNetworkARoot
  <1>4. SkippedIsHeld
    <2> SUFFICES ASSUME NEW c \in Clones \ blurred, marker[c] # Nil, ~\E p \in Running : CloneOf[p] = c
                 PROVE  source[c] # Nil /\ source[c].snapshot = marker[c]
      BY DEF SkippedIsHeld
    <2>1. Skips(c)
      BY DEF SkipsInv
    <2>2. \A p \in Pushers : CloneOf[p] = c => push[p].phase = "rest"
      BY DEF Running
    <2> QED BY <2>1, <2>2 DEF Skips
  <1> QED BY <1>1, <1>2, <1>3, <1>4

LEMMA GitInvariants == GitSpec => [](GitInv /\ SkipsInv /\ RootsInv)
  <1>1. GitInit => SkipsInv /\ RootsInv
    BY InitSkipsAndRoots
  <1>2. GitInv /\ SkipsInv /\ RootsInv /\ [GitNext]_gitVars => (SkipsInv /\ RootsInv)'
    BY SkipsStep, RootsStays
  <1> QED BY <1>1, <1>2, GitStaysSound, PTL DEF GitSpec

-----------------------------------------------------------------------------
(* Theorems.                                                               *)

\* Every variable keeps its type: what a request reads of a network's roots is
\* a set of commits, since it reads only those of rows that are there.
THEOREM GitTypeCorrect == GitSpec => []GitTypeOK
  <1>1. GitInv => GitTypeOK
    BY DEF GitInv
  <1> QED BY <1>1, GitStaysSound, PTL

\* A network's repository has every ancestor of what it has, and the refs that
\* the server names (GitService.known) are in it, whatever pushes overlap, are
\* killed or fail.
THEOREM RepositoriesWhole == GitSpec => []HistoryWhole
  <1> QED BY InvariantsHold, GitInvariants, PTL

\* git bundle verify never refuses a bundle of history for want of a commit:
\* what push_history leaves out is where the bundle goes.
THEOREM BundlesAlwaysFit == GitSpec => []BundlesFit
  <1> QED BY InvariantsHold, GitInvariants, PTL

\* Clones with a root in common share a repository, as long as no two first
\* pushes ran at once and roots did not change (network_of, carry_roots).
THEOREM RootsShareNetworks == GitSpec => []OneNetworkARoot
  <1> QED BY InvariantsHold, GitInvariants, PTL

\* push_snapshot leaves out only a snapshot that the server has, unless an
\* answer was lost or the clone was pushed twice at once.
THEOREM SkippedSnapshotsHeld == GitSpec => []SkippedIsHeld
  <1> QED BY InvariantsHold, GitInvariants, PTL

\* All of it: what the device run checks of three clones holds of any number of
\* clones, hooks, commits and networks.
THEOREM NetworksAlwaysHold == GitSpec => []NetworksHold
  <1>1. GitInv /\ SkipsInv /\ RootsInv => NetworksHold
    BY InvariantsHold DEF NetworksHold, GitInv
  <1> QED BY <1>1, GitInvariants, PTL
=============================================================================
