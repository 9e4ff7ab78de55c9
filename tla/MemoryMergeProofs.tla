------------------------- MODULE MemoryMergeProofs -------------------------
(***************************************************************************)
(* Theorems about what becomes of files when projects are put together:    *)
(* about MemoryMerge, for any projects, workers, texts and bounds, about   *)
(* Reset, for any directories, titles and files, and about NoteFiling, for *)
(* any projects, requests, numbers of copies and bounds.                   *)
(***************************************************************************)
EXTENDS MemoryMerge, Reset, NoteFiling, FiniteSetTheorems, SequenceTheorems, WellFoundedInduction, TLAPS

\* No worker has its claim taken away while the request that claimed still runs.
Exclusive ==
    \A w \in Workers : worker[w].phase = "claiming" /\ worker[w].key # Gone =>
        merge[worker[w].key].status = "CLAIMED" /\ merge[worker[w].key].token = w

HeldBy(w) ==
    /\ worker[w].key # Gone
    /\ merge[worker[w].key].status = "CLAIMED" /\ merge[worker[w].key].token = w

\* The digest of a claimed row is of what its worker was handed.
DigestsMatch ==
    \A w \in Workers : HeldBy(w) =>
        /\ worker[w].phase = "claiming" => merge[worker[w].key].digest = worker[w].was
        /\ worker[w].phase = "working"  => merge[worker[w].key].digest = worker[w].read

\* What a listed row was handed and the target has not got is still to be carried.
Accounted ==
    absorbing # NoMerge =>
        /\ Source # Target
        /\ \A c \in absorbing.todo :
              IF c[1] = Target THEN c[2] = {}
              ELSE \A o \in owed : o[1] = c[1] => o[2] \in c[2]

MergeInv == MemoryTypeOK /\ DocumentsKept /\ Exclusive /\ DigestsMatch /\ Accounted

\* What the documents owed to a row say.
Promised(k) == UNION {o[2].says : o \in {i \in owed : i[1] = k}}

AtHome(k) == Unfinished(merge[k]) => merge[k].project = k /\ merge[k].path = k

\* How far a merge has come that nothing got in the way of.
Undisturbed ==
    absorbing # NoMerge /\ ~crossed =>
        /\ \A k \in Slugs : AtHome(k)
        /\ \A k \in Slugs : Unfinished(merge[k]) =>
              alias[k] = Unmerged \/ (k = Target /\ absorbing.phase # "renaming")
        /\ absorbing.phase = "handing" => absorbing.text = file[Source]
        /\ absorbing.phase \in {"handing", "unlinking"} => file[Source] # {}
        /\ absorbing.phase # "carrying" => absorbing.todo = {}
        /\ \A c \in absorbing.todo : c[1] = Source
        /\ absorbing.phase \in {"carrying", "redirecting", "renaming"} /\ absorbing.todo = {}
              => ~Unfinished(merge[Source])
        /\ absorbing.said \subseteq file[Target] \cup
              (IF absorbing.phase = "handing" THEN absorbing.text ELSE Promised(Target))

-----------------------------------------------------------------------------
(* Rows.                                                                   *)

LEMMA RowFields ==
  ASSUME NEW row \in Row
  PROVE  /\ row.status \in {"ABSENT", "PENDING", "CLAIMED", "DONE", "FAILED"}
         /\ row.project \in Slugs /\ row.path \in Slugs /\ row.docs \in SUBSET Document
         /\ row.digest \in Readings \cup {NeverRead} /\ row.token \in Workers \cup {NoWorker}
  BY DEF Row

LEMMA NoRowFacts ==
  ASSUME NEW k \in Slugs
  PROVE  /\ NoRow(k) \in Row
         /\ NoRow(k).status = "ABSENT" /\ NoRow(k).token = NoWorker /\ NoRow(k).docs = {}
  BY DEF NoRow, Row

\* A document that is handed in is there afterwards, with all that an unfinished
\* row already had; a claim and its digest are left alone.
LEMMA EnsuredFacts ==
  ASSUME NEW row \in Row, NEW home \in Slugs, NEW d \in Document
  PROVE  /\ Ensured(row, home, d) \in Row
         /\ Unfinished(Ensured(row, home, d))
         /\ d \in Ensured(row, home, d).docs
         /\ Unfinished(row) => row.docs \subseteq Ensured(row, home, d).docs
         /\ Ensured(row, home, d).project = home /\ Ensured(row, home, d).path = home
         /\ Ensured(row, home, d).token = row.token
         /\ Ensured(row, home, d).status = "CLAIMED" <=> row.status = "CLAIMED"
         /\ row.status = "CLAIMED" => Ensured(row, home, d).digest = row.digest
         /\ Ensured(row, home, d).status # "DONE"
  <1>1. row.status \in {"ABSENT", "PENDING", "CLAIMED", "DONE", "FAILED"} /\ row.docs \in SUBSET Document
    BY RowFields
  <1>2. Ensured(row, home, d) \in Row
    BY <1>1 DEF Ensured, Row
  <1> QED  BY <1>1, <1>2 DEF Ensured, Row, Unfinished

LEMMA UnclaimedFacts ==
  ASSUME NEW row \in Row, NEW status \in {"PENDING", "FAILED", "DONE"}
  PROVE  /\ Unclaimed(row, status) \in Row
         /\ Unclaimed(row, status).status = status /\ Unclaimed(row, status).token = NoWorker
         /\ Unclaimed(row, status).project = row.project /\ Unclaimed(row, status).path = row.path
         /\ Unclaimed(row, status).docs = row.docs
         /\ [Unclaimed(row, status) EXCEPT !.docs = {}] \in Row
         /\ [Unclaimed(row, status) EXCEPT !.docs = {}].status = status
         /\ [Unclaimed(row, status) EXCEPT !.docs = {}].token = NoWorker
  BY DEF Unclaimed, Row

LEMMA WaitingFacts == Waiting \in Claimant /\ Waiting.phase = "idle" /\ Waiting.key = Gone
  BY DEF Waiting, Claimant, Readings

LEMMA ClaimantFields ==
  ASSUME NEW c \in Claimant
  PROVE  /\ c.phase \in {"idle", "claiming", "working"} /\ c.key \in Slugs \cup {Gone}
         /\ c.read \in Readings /\ c.was \in Readings \cup {NeverRead}
         /\ [c EXCEPT !.phase = "working"] \in Claimant /\ [c EXCEPT !.key = Gone] \in Claimant
  BY DEF Claimant

LEMMA AbsorbingFields ==
  ASSUME NEW m \in Absorbing
  PROVE  /\ m.source \in Slugs /\ m.target \in Slugs /\ m.text \in Texts /\ m.said \in Texts
         /\ m.phase \in {"handing", "unlinking", "listing", "carrying", "redirecting", "renaming"}
         /\ m.todo \subseteq Slugs \X SUBSET Document
         /\ m # NoMerge
  BY MergeAssumption DEF Absorbing

LEMMA RecordsType ==
  ASSUME NEW row \in Row, file \in [Slugs -> Texts]
  PROVE  Records(row) \in Readings /\ row.docs \subseteq Records(row)
  BY RowFields DEF Records, FileOf, Readings, Document, Texts

LEMMA ResolveType ==
  ASSUME AliasType, NEW a \in Slugs
  PROVE  Resolve(a) \in Slugs /\ \A b \in Slugs : MergeTarget(a, b) \in Slugs
  BY DEF AliasType, Resolve, MergeTarget
-----------------------------------------------------------------------------
(* Types.                                                                  *)

RowsOK ==
    /\ merge \in [Slugs -> Row]
    /\ \A k \in Slugs : merge[k].status # "CLAIMED" => merge[k].token = NoWorker

LEMMA OneRow ==
  ASSUME RowsOK, NEW k \in Slugs, NEW row \in Row, row.status # "CLAIMED" => row.token = NoWorker,
         merge' = [merge EXCEPT ![k] = row]
  PROVE  RowsOK' /\ merge'[k] = row /\ \A j \in Slugs \ {k} : merge'[j] = merge[j]
  BY DEF RowsOK

\* HandIn touches the row of the target only, as EnsuredFacts says.
LEMMA HandInFacts ==
  ASSUME RowsOK, absorbing \in Absorbing, NEW d \in Document, HandIn(d)
  PROVE  /\ RowsOK' /\ Target \in Slugs
         /\ \A k \in Slugs \ {Target} : merge'[k] = merge[k]
         /\ Unfinished(merge'[Target]) /\ d \in merge'[Target].docs
         /\ Unfinished(merge[Target]) => merge[Target].docs \subseteq merge'[Target].docs
         /\ merge'[Target].project = Target /\ merge'[Target].path = Target
         /\ merge'[Target].status # "DONE" /\ merge'[Target].token = merge[Target].token
         /\ merge'[Target].status = "CLAIMED" <=> merge[Target].status = "CLAIMED"
         /\ merge[Target].status = "CLAIMED" => merge'[Target].digest = merge[Target].digest
  <1> DEFINE k == absorbing.target
             row == Ensured(merge[k], k, d)
  <1>1. k \in Slugs /\ merge[k] \in Row /\ k = Target
    BY AbsorbingFields DEF RowsOK, Target
  <1>2. merge' = [merge EXCEPT ![k] = row]
    BY <1>1 DEF HandIn, RowsOK
  <1>3. /\ row \in Row /\ Unfinished(row) /\ d \in row.docs
        /\ Unfinished(merge[k]) => merge[k].docs \subseteq row.docs
        /\ row.project = k /\ row.path = k /\ row.status # "DONE" /\ row.token = merge[k].token
        /\ row.status = "CLAIMED" <=> merge[k].status = "CLAIMED"
        /\ merge[k].status = "CLAIMED" => row.digest = merge[k].digest
    BY <1>1, EnsuredFacts
  <1> HIDE DEF k, row
  <1>4. row.status # "CLAIMED" => row.token = NoWorker
    BY <1>1, <1>3 DEF RowsOK
  <1>5. RowsOK' /\ merge'[k] = row /\ \A j \in Slugs \ {k} : merge'[j] = merge[j]
    BY <1>1, <1>2, <1>3, <1>4, OneRow
  <1> QED  BY <1>1, <1>3, <1>5

LEMMA BereftFacts ==
  ASSUME worker \in [Workers -> Claimant], NEW rows, Bereft(rows)
  PROVE  /\ worker' \in [Workers -> Claimant]
         /\ \A w \in Workers : /\ worker'[w].phase = worker[w].phase
                               /\ worker'[w].read = worker[w].read /\ worker'[w].was = worker[w].was
                               /\ worker'[w].key = IF worker[w].key \in rows THEN Gone ELSE worker[w].key
  BY ClaimantFields DEF Bereft, Claimant

LEMMA TypeInit == MemoryInit => MemoryTypeOK
  <1> SUFFICES ASSUME MemoryInit PROVE MemoryTypeOK
    OBVIOUS
  <1>1. AliasType
    BY DEF MemoryInit, NoAliases, AliasType
  <1>2. merge \in [Slugs -> Row] /\ \A k \in Slugs : merge[k].token = NoWorker
    BY NoRowFacts DEF MemoryInit
  <1>3. worker \in [Workers -> Claimant]
    BY WaitingFacts DEF MemoryInit
  <1>4. merges \in 0..MaxMerges /\ syncs \in 0..MaxSyncs
    BY CountAssumption DEF MemoryInit
  <1>5. crossed \in BOOLEAN
    BY DEF MemoryInit
  <1>6. file \in [Slugs -> Texts] /\ absorbing = NoMerge /\ owed = {}
    BY DEF MemoryInit
  <1> QED  BY <1>1, <1>2, <1>3, <1>4, <1>5, <1>6 DEF MemoryTypeOK

LEMMA TypeOfRows == MemoryTypeOK => RowsOK /\ worker \in [Workers -> Claimant]
  BY DEF MemoryTypeOK, RowsOK

\* What devices and workers do.
LEMMA WorkTypes ==
  ASSUME MemoryTypeOK,
         \/ \E p \in Slugs, text \in Synced : SyncMemories(p, text)
         \/ \E w \in Workers : \/ HandOut(w) \/ AbandonMerge(w)
                               \/ \E k \in Slugs : ClaimMerge(w, k) \/ CompleteMemory(w, k) \/ ReturnMerge(w, k)
         \/ \E k \in Slugs : ReclaimMerge(k) \/ RetryMerge(k)
  PROVE  MemoryTypeOK'
  <1> USE TypeOfRows DEF MemoryTypeOK, Meanwhile
  <1>1. ASSUME NEW p \in Slugs, NEW text \in Synced, SyncMemories(p, text)
        PROVE  MemoryTypeOK'
    <2>1. text \in Texts
      BY CountAssumption DEF Texts
    <2>2. syncs' \in 0..MaxSyncs /\ merges' \in 0..MaxMerges
      BY <1>1, CountAssumption DEF SyncMemories
    <2>3. file' \in [Slugs -> Texts]
      BY <1>1, <2>1 DEF SyncMemories
    <2> QED  BY <1>1, <2>2, <2>3 DEF SyncMemories, AliasType
  <1>2. ASSUME NEW w \in Workers, HandOut(w)
        PROVE  MemoryTypeOK'
    <2>1. worker' \in [Workers -> Claimant]
      BY <1>2, WaitingFacts, ClaimantFields DEF HandOut
    <2>2. RowsOK'
      <3>1. CASE worker[w].key = Gone
        BY <1>2, <3>1 DEF HandOut, RowsOK
      <3>2. CASE worker[w].key # Gone
        <4> DEFINE k == worker[w].key
                   row == [merge[k] EXCEPT !.digest = IF worker[w].read # worker[w].was THEN worker[w].read ELSE @]
        <4>1. k \in Slugs /\ worker[w].read \in Readings
          BY <3>2, ClaimantFields
        <4>2. row \in Row /\ row.status = merge[k].status /\ row.token = merge[k].token
          BY <4>1, RowFields DEF Row
        <4>3. merge' = [merge EXCEPT ![k] = row]
          BY <1>2, <3>2, <4>1 DEF HandOut
        <4> HIDE DEF k, row
        <4> QED  BY <4>1, <4>2, <4>3, OneRow DEF RowsOK
      <3> QED  BY <3>1, <3>2
    <2> QED  BY <1>2, <2>1, <2>2 DEF HandOut, RowsOK, AliasType
  <1>3. ASSUME NEW w \in Workers, AbandonMerge(w)
        PROVE  MemoryTypeOK'
    BY <1>3, WaitingFacts DEF AbandonMerge, AliasType
  <1>4. ASSUME NEW w \in Workers, NEW k \in Slugs, ClaimMerge(w, k)
        PROVE  MemoryTypeOK'
    <2>1. worker' \in [Workers -> Claimant]
      BY <1>4, RecordsType, RowFields DEF ClaimMerge, Claimant
    <2>2. RowsOK'
      <3> DEFINE row == [merge[k] EXCEPT !.status = "CLAIMED", !.token = w]
      <3>1. row \in Row /\ row.status = "CLAIMED"
        <4>1. merge[k] \in Row
          BY DEF RowsOK
        <4> QED  BY <4>1 DEF Row
      <3>2. merge' = [merge EXCEPT ![k] = row]
        BY <1>4 DEF ClaimMerge
      <3> QED  BY <3>1, <3>2, OneRow
    <2> QED  BY <1>4, <2>1, <2>2 DEF ClaimMerge, RowsOK, AliasType
  <1>5. ASSUME NEW w \in Workers, NEW k \in Slugs, CompleteMemory(w, k)
        PROVE  MemoryTypeOK'
    <2>1. worker' \in [Workers -> Claimant]
      BY <1>5, WaitingFacts DEF CompleteMemory
    <2>2. RowsOK' /\ file' \in [Slugs -> Texts] /\ owed' \subseteq Slugs \X Document
      <3>1. CASE MovedOn(merge[k])
        <4>1. merge' = [merge EXCEPT ![k] = Unclaimed(merge[k], "PENDING")]
          BY <1>5, <3>1 DEF CompleteMemory
        <4> QED  BY <1>5, <3>1, <4>1, UnclaimedFacts, OneRow DEF CompleteMemory
      <3>2. CASE ~MovedOn(merge[k])
        <4>1. worker[w].read \in Readings
          BY ClaimantFields
        <4>2. Summary(worker[w].read) \in Texts
          BY <4>1 DEF Summary, Readings, Document, Texts
        <4>3. file' \in [Slugs -> Texts] /\ owed' \subseteq Slugs \X Document
          BY <1>5, <3>2, <4>2 DEF CompleteMemory
        <4>4. RowsOK'
          <5>1. merge' = [merge EXCEPT ![k] = [Unclaimed(merge[k], "DONE") EXCEPT !.docs = {}]]
            BY <1>5, <3>2 DEF CompleteMemory
          <5> QED  BY <5>1, UnclaimedFacts, OneRow
        <4> QED  BY <4>3, <4>4
      <3> QED  BY <3>1, <3>2
    <2> QED  BY <1>5, <2>1, <2>2 DEF CompleteMemory, RowsOK, AliasType
  <1>6. ASSUME NEW w \in Workers, NEW k \in Slugs, ReturnMerge(w, k)
        PROVE  MemoryTypeOK'
    <2>1. PICK status \in {"PENDING", "FAILED"} : merge' = [merge EXCEPT ![k] = Unclaimed(merge[k], status)]
      BY <1>6 DEF ReturnMerge
    <2>2. RowsOK'
      <3>1. merge[k] \in Row /\ status \in {"PENDING", "FAILED", "DONE"}
        BY <2>1 DEF RowsOK
      <3>2. /\ Unclaimed(merge[k], status) \in Row
            /\ Unclaimed(merge[k], status).token = NoWorker
        BY <3>1, UnclaimedFacts
      <3> QED  BY <2>1, <3>2, OneRow
    <2> QED  BY <1>6, <2>2, WaitingFacts DEF ReturnMerge, RowsOK, AliasType
  <1>7. ASSUME NEW k \in Slugs, ReclaimMerge(k) \/ RetryMerge(k)
        PROVE  MemoryTypeOK'
    <2>1. merge' = [merge EXCEPT ![k] = Unclaimed(merge[k], "PENDING")]
      BY <1>7 DEF ReclaimMerge, RetryMerge
    <2>2. RowsOK'
      BY <2>1, UnclaimedFacts, OneRow
    <2> QED  BY <1>7, <2>2 DEF ReclaimMerge, RetryMerge, RowsOK, AliasType
  <1> QED  BY <1>1, <1>2, <1>3, <1>4, <1>5, <1>6, <1>7

\* What merging and deleting do.
LEMMA AbsorbTypes ==
  ASSUME MemoryTypeOK, (\E a, b \in Slugs : Absorb(a, b)) \/ AbsorbStep
  PROVE  MemoryTypeOK'
  <1> USE TypeOfRows DEF MemoryTypeOK
  <1>1. ASSUME NEW a \in Slugs, NEW b \in Slugs, Absorb(a, b)
        PROVE  MemoryTypeOK'
    <2> DEFINE source == Resolve(a)
               target == MergeTarget(source, b)
    <2>1. source \in Slugs /\ target \in Slugs
      BY ResolveType
    <2>2. file' \in [Slugs -> Texts]
      BY <1>1, <2>1 DEF Absorb, Texts
    <2>3. absorbing' \in Absorbing
      BY <1>1, <2>1 DEF Absorb, Absorbing, FirstPhase, Texts
    <2>4. merges' \in 0..MaxMerges
      BY <1>1, CountAssumption DEF Absorb
    <2> HIDE DEF source, target
    <2> QED  BY <1>1, <2>2, <2>3, <2>4 DEF Absorb, AliasType
  <1>2. ASSUME absorbing # NoMerge, AbsorbStep
        PROVE  MemoryTypeOK'
    <2>1. absorbing \in Absorbing /\ Source \in Slugs /\ Target \in Slugs
      BY <1>2, AbsorbingFields DEF Source, Target
    <2>2. ASSUME NEW phase \in {"handing", "unlinking", "listing", "carrying", "redirecting", "renaming"}
          PROVE  [absorbing EXCEPT !.phase = phase] \in Absorbing
      BY <2>1 DEF Absorbing
    <2>3. CASE HandInMemory
      <3> DEFINE d == [from |-> Source, says |-> absorbing.text]
      <3>1. d \in Document
        BY <2>1, AbsorbingFields DEF Document
      <3>2. HandIn(d) /\ owed' = owed \cup {<<Target, d>>}
        BY <2>3 DEF HandInMemory
      <3> HIDE DEF d
      <3>3. RowsOK'
        BY <2>1, <3>1, <3>2, HandInFacts
      <3>4. owed' \subseteq Slugs \X Document
        BY <2>1, <3>1, <3>2
      <3> QED  BY <2>2, <2>3, <3>3, <3>4 DEF HandInMemory, Goto, RowsOK, AliasType
    <2>4. CASE UnlinkMemory
      BY <2>1, <2>2, <2>4 DEF UnlinkMemory, Goto, AliasType, Texts
    <2>5. CASE ListMerges
      <3>1. \A k \in Slugs : merge[k].docs \in SUBSET Document
        BY RowFields
      <3>2. {<<k, IF k = Target THEN {} ELSE merge[k].docs>> : k \in Listed} \subseteq Slugs \X SUBSET Document
        BY <3>1 DEF Listed
      <3>3. absorbing' \in Absorbing
        BY <2>1, <2>5, <3>2 DEF ListMerges, Absorbing
      <3> QED  BY <2>5, <3>3 DEF ListMerges, AliasType
    <2>6. ASSUME NEW c \in absorbing.todo, NEW d \in c[2], CarryDocument(c, d)
          PROVE  MemoryTypeOK'
      <3>1. c \in Slugs \X SUBSET Document /\ d \in Document
        BY <2>1, AbsorbingFields
      <3>2. RowsOK'
        BY <2>1, <2>6, <3>1, HandInFacts DEF CarryDocument
      <3>3. owed' \subseteq Slugs \X Document
        BY <2>1, <2>6, <3>1 DEF CarryDocument
      <3>4. (absorbing.todo \ {c}) \cup {<<c[1], c[2] \ {d}>>} \subseteq Slugs \X SUBSET Document
        BY <2>1, <3>1, AbsorbingFields
      <3>5. absorbing' \in Absorbing
        BY <2>1, <2>6, <3>4 DEF CarryDocument, Absorbing
      <3> QED  BY <2>6, <3>2, <3>3, <3>5 DEF CarryDocument, RowsOK, AliasType
    <2>7. ASSUME NEW c \in absorbing.todo, DropCarried(c)
          PROVE  MemoryTypeOK'
      <3>1. c \in Slugs \X SUBSET Document
        BY <2>1, AbsorbingFields
      <3>2. RowsOK'
        <4> DEFINE row == IF c[1] = Target THEN [merge[c[1]] EXCEPT !.path = Target] ELSE NoRow(c[1])
        <4>1. merge' = [merge EXCEPT ![c[1]] = row]
          BY <2>7, <3>1 DEF DropCarried
        <4>2. CASE c[1] = Target
          <5>1. merge[c[1]] \in Row /\ (merge[c[1]].status # "CLAIMED" => merge[c[1]].token = NoWorker)
            BY <3>1 DEF RowsOK
          <5>2. row \in Row /\ row.status = merge[c[1]].status /\ row.token = merge[c[1]].token
            BY <2>1, <4>2, <5>1 DEF Row
          <5> HIDE DEF row
          <5> QED  BY <3>1, <4>1, <5>1, <5>2, OneRow
        <4>3. CASE c[1] # Target
          <5>1. row \in Row /\ row.token = NoWorker
            BY <3>1, <4>3, NoRowFacts
          <5> HIDE DEF row
          <5> QED  BY <3>1, <4>1, <5>1, OneRow
        <4> QED  BY <4>2, <4>3
      <3>3. worker' \in [Workers -> Claimant]
        BY <2>7, BereftFacts DEF DropCarried
      <3>4. absorbing' \in Absorbing
        BY <2>1, <2>7 DEF DropCarried, Absorbing
      <3> QED  BY <2>7, <3>2, <3>3, <3>4 DEF DropCarried, RowsOK, AliasType
    <2>8. CASE RemoveDirectory
      BY <2>1, <2>2, <2>8 DEF RemoveDirectory, Goto, AliasType, Texts
    <2>9. CASE RedirectProject
      <3>1. AliasType'
        BY <2>1, <2>9 DEF RedirectProject, Redirect, AliasType
      <3> QED  BY <2>2, <2>9, <3>1 DEF RedirectProject, Goto
    <2>10. CASE RenameProject
      <3>1. RowsOK'
        <4> SUFFICES ASSUME NEW k \in Slugs
                     PROVE  merge'[k] \in Row /\ (merge'[k].status # "CLAIMED" => merge'[k].token = NoWorker)
          BY <2>10 DEF RenameProject, RowsOK
        <4>1. merge[k] \in Row /\ (merge[k].status # "CLAIMED" => merge[k].token = NoWorker)
          BY DEF RowsOK
        <4>2. merge'[k] \in {merge[k], [merge[k] EXCEPT !.project = Target]}
          BY <2>10 DEF RenameProject
        <4> QED  BY <2>1, <4>1, <4>2 DEF Row
      <3> QED  BY <2>10, <3>1 DEF RenameProject, RowsOK, AliasType
    <2> QED  BY <1>2, <2>3, <2>4, <2>5, <2>6, <2>7, <2>8, <2>9, <2>10 DEF AbsorbStep
  <1>3. AbsorbStep => absorbing # NoMerge
    BY DEF AbsorbStep, HandInMemory, UnlinkMemory, ListMerges, RemoveDirectory, RedirectProject, RenameProject
  <1> QED  BY <1>1, <1>2, <1>3

LEMMA TypeStep == MemoryTypeOK /\ [MemoryNext]_memoryVars => MemoryTypeOK'
  <1> SUFFICES ASSUME MemoryTypeOK, [MemoryNext]_memoryVars PROVE MemoryTypeOK'
    OBVIOUS
  <1>1. ASSUME NEW a \in Slugs, DeleteMemories(a)
        PROVE  MemoryTypeOK'
    <2>1. AliasType'
      BY <1>1 DEF DeleteMemories, Forgotten, MemoryTypeOK, AliasType
    <2>2. RowsOK'
      BY <1>1, NoRowFacts DEF DeleteMemories, MemoryTypeOK, RowsOK
    <2>3. worker' \in [Workers -> Claimant]
      BY <1>1, BereftFacts DEF DeleteMemories, MemoryTypeOK
    <2>4. file' \in [Slugs -> Texts] /\ owed' \subseteq Slugs \X Document
      BY <1>1 DEF DeleteMemories, MemoryTypeOK, Texts
    <2> QED  BY <1>1, <2>1, <2>2, <2>3, <2>4 DEF DeleteMemories, MemoryTypeOK, RowsOK
  <1>2. CASE CutShort
    <2>1. worker' \in [Workers -> Claimant]
      BY <1>2, WaitingFacts DEF CutShort, MemoryTypeOK
    <2> QED  BY <1>2, <2>1 DEF CutShort, MemoryTypeOK, AliasType, Meanwhile
  <1>3. CASE UNCHANGED memoryVars
    BY <1>3 DEF memoryVars, MemoryTypeOK, AliasType
  <1> QED  BY <1>1, <1>2, <1>3, WorkTypes, AbsorbTypes DEF MemoryNext

\* Every variable keeps its type, and a row that is not claimed has no token.
THEOREM MemoryTypeCorrect == MemorySpec => []MemoryTypeOK
  BY TypeInit, TypeStep, PTL DEF MemorySpec

-----------------------------------------------------------------------------
(* Documents and digests.                                                  *)

LEMMA DocumentsStay ==
  ASSUME DocumentsKept, MemoryTypeOK,
         \A k \in Slugs : Unfinished(merge[k]) => Unfinished(merge'[k]) /\ merge[k].docs \subseteq merge'[k].docs,
         owed' \subseteq owed
  PROVE  DocumentsKept'
  BY DEF DocumentsKept, MemoryTypeOK

\* A row's claim may only end for workers that are not in the middle of claiming it.
LEMMA ClaimsStay ==
  ASSUME Exclusive, DigestsMatch, MemoryTypeOK, UNCHANGED worker,
         \A k \in Slugs : merge'[k].status = "CLAIMED" =>
             /\ merge[k].status = "CLAIMED" /\ merge'[k].token = merge[k].token
             /\ merge'[k].digest = merge[k].digest,
         \A w \in Workers : worker[w].phase = "claiming" /\ worker[w].key # Gone =>
             /\ merge[worker[w].key].status = "CLAIMED" => merge'[worker[w].key].status = "CLAIMED"
  PROVE  Exclusive' /\ DigestsMatch'
  <1>1. \A w \in Workers : worker[w].key \in Slugs \cup {Gone}
    BY ClaimantFields DEF MemoryTypeOK
  <1> QED  BY <1>1 DEF Exclusive, DigestsMatch, HeldBy

LEMMA HandInKeeps ==
  ASSUME MergeInv, absorbing \in Absorbing, NEW d \in Document, HandIn(d),
         UNCHANGED worker, owed' \subseteq owed \cup {<<Target, d>>}
  PROVE  DocumentsKept' /\ Exclusive' /\ DigestsMatch'
  <1>1. /\ Target \in Slugs
        /\ \A k \in Slugs \ {Target} : merge'[k] = merge[k]
        /\ Unfinished(merge'[Target]) /\ d \in merge'[Target].docs
        /\ Unfinished(merge[Target]) => merge[Target].docs \subseteq merge'[Target].docs
        /\ merge'[Target].token = merge[Target].token
        /\ merge'[Target].status = "CLAIMED" <=> merge[Target].status = "CLAIMED"
        /\ merge[Target].status = "CLAIMED" => merge'[Target].digest = merge[Target].digest
    BY HandInFacts, TypeOfRows DEF MergeInv
  <1>2. DocumentsKept'
    BY <1>1 DEF DocumentsKept, MergeInv, MemoryTypeOK
  <1>3. \A w \in Workers : worker[w].key \in Slugs \cup {Gone}
    BY ClaimantFields DEF MergeInv, MemoryTypeOK
  <1>4. Exclusive' /\ DigestsMatch'
    BY <1>1, <1>3, ClaimsStay DEF MergeInv
  <1> QED  BY <1>2, <1>4

LEMMA WorkKeeps ==
  ASSUME MergeInv,
         \/ \E p \in Slugs, text \in Synced : SyncMemories(p, text)
         \/ \E w \in Workers : \/ HandOut(w) \/ AbandonMerge(w)
                               \/ \E k \in Slugs : ClaimMerge(w, k) \/ CompleteMemory(w, k) \/ ReturnMerge(w, k)
         \/ \E k \in Slugs : ReclaimMerge(k) \/ RetryMerge(k)
  PROVE  DocumentsKept' /\ Exclusive' /\ DigestsMatch' /\ Accounted'
  <1> USE WaitingFacts DEF MergeInv
  <1>a. /\ \A k \in Slugs : merge[k] \in Row
        /\ merge \in [Slugs -> Row] /\ worker \in [Workers -> Claimant] /\ owed \subseteq Slugs \X Document
    BY DEF MemoryTypeOK
  <1>b. \A w \in Workers : worker[w].key \in Slugs \cup {Gone}
    BY <1>a, ClaimantFields
  <1>c. ASSUME UNCHANGED <<absorbing>>, owed' \subseteq owed
        PROVE  Accounted'
    BY <1>c DEF Accounted, Source, Target
  <1>1. ASSUME NEW p \in Slugs, NEW text \in Synced, SyncMemories(p, text)
        PROVE  DocumentsKept' /\ Exclusive' /\ DigestsMatch' /\ Accounted'
    BY <1>1, <1>c DEF SyncMemories, DocumentsKept, Exclusive, DigestsMatch, HeldBy
  <1>2. ASSUME NEW w \in Workers, HandOut(w)
        PROVE  DocumentsKept' /\ Exclusive' /\ DigestsMatch' /\ Accounted'
    <2>1. CASE worker[w].key = Gone
      <3>1. UNCHANGED merge /\ worker' = [worker EXCEPT ![w] = Waiting] /\ UNCHANGED <<absorbing, owed>>
        BY <1>2, <2>1 DEF HandOut
      <3> QED  BY <1>a, <1>c, <3>1 DEF DocumentsKept, Exclusive, DigestsMatch, HeldBy
    <2>2. CASE worker[w].key # Gone
      <3> DEFINE k == worker[w].key
      <3>1. k \in Slugs /\ HeldBy(w) /\ merge[k].digest = worker[w].was
        BY <1>2, <1>b, <2>2 DEF HandOut, Exclusive, DigestsMatch, HeldBy
      <3>2. /\ merge'[k].digest = worker[w].read
            /\ merge'[k].status = merge[k].status /\ merge'[k].token = merge[k].token
            /\ merge'[k].docs = merge[k].docs
            /\ \A j \in Slugs \ {k} : merge'[j] = merge[j]
        BY <1>2, <1>a, <2>2, <3>1, RowFields DEF HandOut, Row
      <3>3. /\ \A v \in Workers \ {w} : worker'[v] = worker[v]
            /\ worker'[w] \in {Waiting, [worker[w] EXCEPT !.phase = "working"]}
        BY <1>2, <1>a, <2>2 DEF HandOut
      <3>4. worker'[w].phase # "claiming" /\ worker'[w].key \in {Gone, k}
            /\ (worker'[w].phase = "working" => worker'[w].read = worker[w].read)
        BY <1>a, <3>3 DEF Claimant
      <3>5. DocumentsKept'
        BY <1>2, <3>1, <3>2, DocumentsStay DEF HandOut, Unfinished
      <3>6. Exclusive'
        BY <1>b, <3>1, <3>2, <3>3, <3>4 DEF Exclusive
      <3>7. DigestsMatch'
        <4> SUFFICES ASSUME NEW v \in Workers, HeldBy(v)'
                     PROVE  /\ worker'[v].phase = "claiming" => merge'[worker'[v].key].digest = worker'[v].was
                            /\ worker'[v].phase = "working" => merge'[worker'[v].key].digest = worker'[v].read
          BY DEF DigestsMatch
        <4>1. CASE v = w
          BY <3>2, <3>4, <4>1 DEF HeldBy
        <4>2. CASE v # w
          <5>1. worker'[v] = worker[v] /\ worker[v].key \in Slugs
            BY <1>b, <3>3, <4>2 DEF HeldBy
          <5>2. worker[v].key # k
            BY <3>1, <3>2, <4>2, <5>1 DEF HeldBy
          <5> QED  BY <3>2, <5>1, <5>2 DEF HeldBy, DigestsMatch
        <4> QED  BY <4>1, <4>2
      <3> QED  BY <1>2, <1>c, <3>5, <3>6, <3>7 DEF HandOut
    <2> QED  BY <2>1, <2>2
  <1>3. ASSUME NEW w \in Workers, AbandonMerge(w)
        PROVE  DocumentsKept' /\ Exclusive' /\ DigestsMatch' /\ Accounted'
    BY <1>3, <1>a, <1>c DEF AbandonMerge, DocumentsKept, Exclusive, DigestsMatch, HeldBy
  <1>4. ASSUME NEW w \in Workers, NEW k \in Slugs, ClaimMerge(w, k)
        PROVE  DocumentsKept' /\ Exclusive' /\ DigestsMatch' /\ Accounted'
    <2>1. /\ merge[k].status = "PENDING"
          /\ merge'[k].status = "CLAIMED" /\ merge'[k].token = w
          /\ merge'[k].docs = merge[k].docs /\ merge'[k].digest = merge[k].digest
          /\ \A j \in Slugs \ {k} : merge'[j] = merge[j]
      BY <1>4, <1>a, RowFields DEF ClaimMerge, Row
    <2>2. /\ \A v \in Workers \ {w} : worker'[v] = worker[v]
          /\ worker'[w].phase = "claiming" /\ worker'[w].key = k /\ worker'[w].was = merge[k].digest
      BY <1>4, <1>a DEF ClaimMerge
    <2>3. DocumentsKept'
      BY <1>4, <2>1, DocumentsStay DEF ClaimMerge, Unfinished
    <2>4. Exclusive'
      BY <1>b, <2>1, <2>2 DEF Exclusive
    <2>5. DigestsMatch'
      BY <1>b, <2>1, <2>2 DEF DigestsMatch, HeldBy
    <2> QED  BY <1>4, <1>c, <2>3, <2>4, <2>5 DEF ClaimMerge
  <1>5. ASSUME NEW w \in Workers, NEW k \in Slugs, CompleteMemory(w, k) \/ ReturnMerge(w, k)
        PROVE  DocumentsKept' /\ Exclusive' /\ DigestsMatch' /\ Accounted'
    <2>1. /\ worker[w].phase = "working" /\ worker[w].key = k
          /\ merge[k].status = "CLAIMED" /\ merge[k].token = w
          /\ worker' = [worker EXCEPT ![w] = Waiting] /\ UNCHANGED absorbing
      BY <1>5 DEF CompleteMemory, ReturnMerge, Holds
    <2>2. /\ merge'[k].status # "CLAIMED"
          /\ \A j \in Slugs \ {k} : merge'[j] = merge[j]
          /\ owed' \subseteq owed
          /\ \/ Unfinished(merge'[k]) /\ merge'[k].docs = merge[k].docs
             \/ owed' = owed \ ({k} \X worker[w].read) /\ ~MovedOn(merge[k])
      <3>1. CASE CompleteMemory(w, k) /\ MovedOn(merge[k])
        <4>1. merge' = [merge EXCEPT ![k] = Unclaimed(merge[k], "PENDING")] /\ UNCHANGED owed
          BY <3>1 DEF CompleteMemory
        <4> QED  BY <1>a, <4>1, UnclaimedFacts DEF Unfinished
      <3>2. CASE CompleteMemory(w, k) /\ ~MovedOn(merge[k])
        <4>1. /\ merge' = [merge EXCEPT ![k] = [Unclaimed(merge[k], "DONE") EXCEPT !.docs = {}]]
              /\ owed' = owed \ ({k} \X worker[w].read)
          BY <3>2 DEF CompleteMemory
        <4> QED  BY <1>a, <3>2, <4>1, UnclaimedFacts
      <3>3. CASE ReturnMerge(w, k)
        <4>1. PICK status \in {"PENDING", "FAILED"} : merge' = [merge EXCEPT ![k] = Unclaimed(merge[k], status)]
          BY <3>3 DEF ReturnMerge
        <4>2. status \in {"PENDING", "FAILED", "DONE"} /\ UNCHANGED owed
          BY <3>3, <4>1 DEF ReturnMerge
        <4> QED  BY <1>a, <4>1, <4>2, UnclaimedFacts DEF Unfinished
      <3> QED  BY <1>5, <3>1, <3>2, <3>3
    <2>3. DocumentsKept'
      <3>1. CASE Unfinished(merge'[k]) /\ merge'[k].docs = merge[k].docs
        BY <2>2, <3>1, DocumentsStay
      <3>2. CASE owed' = owed \ ({k} \X worker[w].read) /\ ~MovedOn(merge[k])
        <4>1. merge[k].docs \subseteq worker[w].read
          <5>1. merge[k].digest = worker[w].read
            BY <1>b, <2>1, GoneAssumption DEF DigestsMatch, HeldBy
          <5>2. file \in [Slugs -> Texts]
            BY DEF MemoryTypeOK
          <5> QED  BY <1>a, <3>2, <5>1, <5>2, RecordsType DEF MovedOn
        <4>2. \A o \in owed' : o[1] # k
          BY <1>a, <3>2, <4>1 DEF DocumentsKept
        <4> QED  BY <1>a, <2>2, <4>2 DEF DocumentsKept
      <3> QED  BY <2>2, <3>1, <3>2
    <2>4. Exclusive'
      BY <1>a, <1>b, <2>1, <2>2 DEF Exclusive
    <2>5. DigestsMatch'
      BY <1>a, <1>b, <2>1, <2>2 DEF DigestsMatch, HeldBy
    <2> QED  BY <1>c, <2>1, <2>2, <2>3, <2>4, <2>5
  <1>6. ASSUME NEW k \in Slugs, ReclaimMerge(k) \/ RetryMerge(k)
        PROVE  DocumentsKept' /\ Exclusive' /\ DigestsMatch' /\ Accounted'
    <2>1. merge' = [merge EXCEPT ![k] = Unclaimed(merge[k], "PENDING")] /\ UNCHANGED <<worker, absorbing, owed>>
      BY <1>6 DEF ReclaimMerge, RetryMerge
    <2>2. /\ merge'[k].status = "PENDING" /\ merge'[k].docs = merge[k].docs
          /\ \A j \in Slugs \ {k} : merge'[j] = merge[j]
      BY <1>a, <2>1, UnclaimedFacts
    <2>3. \A w \in Workers : worker[w].phase = "claiming" /\ worker[w].key # Gone => worker[w].key # k
      BY <1>6 DEF ReclaimMerge, RetryMerge, Exclusive
    <2>4. DocumentsKept'
      BY <2>1, <2>2, DocumentsStay DEF Unfinished
    <2>5. Exclusive' /\ DigestsMatch'
      BY <1>b, <2>1, <2>2, <2>3, ClaimsStay
    <2> QED  BY <1>c, <2>1, <2>4, <2>5
  <1> QED  BY <1>1, <1>2, <1>3, <1>4, <1>5, <1>6

LEMMA AbsorbKeeps ==
  ASSUME MergeInv, (\E a, b \in Slugs : Absorb(a, b)) \/ AbsorbStep
  PROVE  DocumentsKept' /\ Exclusive' /\ DigestsMatch' /\ Accounted'
  <1> USE DEF MergeInv
  <1>a. /\ \A k \in Slugs : merge[k] \in Row
        /\ merge \in [Slugs -> Row] /\ worker \in [Workers -> Claimant] /\ owed \subseteq Slugs \X Document
    BY DEF MemoryTypeOK
  <1>b. \A w \in Workers : worker[w].key \in Slugs \cup {Gone}
    BY <1>a, ClaimantFields
  <1>c. ASSUME UNCHANGED <<merge, worker, owed>>
        PROVE  DocumentsKept' /\ Exclusive' /\ DigestsMatch'
    BY <1>c DEF DocumentsKept, Exclusive, DigestsMatch, HeldBy
  <1>1. ASSUME NEW a \in Slugs, NEW b \in Slugs, Absorb(a, b)
        PROVE  DocumentsKept' /\ Exclusive' /\ DigestsMatch' /\ Accounted'
    <2>1. Accounted'
      BY <1>1 DEF Absorb, Accounted, Source, Target
    <2> QED  BY <1>1, <1>c, <2>1 DEF Absorb
  <1>2. ASSUME absorbing # NoMerge, AbsorbStep
        PROVE  DocumentsKept' /\ Exclusive' /\ DigestsMatch' /\ Accounted'
    <2>1. /\ absorbing \in Absorbing /\ Source \in Slugs /\ Target \in Slugs /\ Source # Target
          /\ absorbing.todo \subseteq Slugs \X SUBSET Document
      BY <1>2, AbsorbingFields DEF Source, Target, MemoryTypeOK, Accounted
    <2>2. ASSUME NEW phase, Goto(phase), UNCHANGED owed
          PROVE  Accounted'
      <3>1. absorbing'.source = Source /\ absorbing'.target = Target /\ absorbing'.todo = absorbing.todo
        BY <2>1, <2>2 DEF Goto, Absorbing, Source, Target
      <3> QED  BY <1>2, <2>1, <2>2, <3>1 DEF Accounted, Source, Target
    <2>3. CASE HandInMemory
      <3> DEFINE d == [from |-> Source, says |-> absorbing.text]
      <3>1. d \in Document
        BY <2>1, AbsorbingFields DEF Document
      <3>2. HandIn(d) /\ owed' = owed \cup {<<Target, d>>} /\ Goto("unlinking") /\ UNCHANGED worker
        BY <2>3 DEF HandInMemory
      <3> HIDE DEF d
      <3>3. absorbing'.source = Source /\ absorbing'.target = Target /\ absorbing'.todo = absorbing.todo
        BY <2>1, <3>2 DEF Goto, Absorbing, Source, Target
      <3>4. Accounted'
        BY <1>2, <2>1, <3>2, <3>3 DEF Accounted, Source, Target
      <3> QED  BY <2>1, <3>1, <3>2, <3>4, HandInKeeps
    <2>4. CASE UnlinkMemory
      <3>1. UNCHANGED <<merge, worker, owed>> /\ (Goto("listing") \/ absorbing' = NoMerge)
        BY <2>4 DEF UnlinkMemory
      <3> QED  BY <1>c, <2>2, <3>1 DEF Accounted
    <2>5. CASE ListMerges
      <3>1. absorbing'.source = Source /\ absorbing'.target = Target
            /\ absorbing'.todo = {<<k, IF k = Target THEN {} ELSE merge[k].docs>> : k \in Listed}
        BY <2>1, <2>5 DEF ListMerges, Absorbing, Source, Target
      <3>2. \A c \in absorbing'.todo : IF c[1] = Target THEN c[2] = {} ELSE c[2] = merge[c[1]].docs
        BY <3>1
      <3>3. Accounted'
        BY <2>1, <2>5, <3>1, <3>2 DEF ListMerges, Accounted, DocumentsKept, Source, Target
      <3> QED  BY <1>c, <2>5, <3>3 DEF ListMerges
    <2>6. ASSUME NEW c \in absorbing.todo, NEW d \in c[2], CarryDocument(c, d)
          PROVE  DocumentsKept' /\ Exclusive' /\ DigestsMatch' /\ Accounted'
      <3>1. /\ d \in Document /\ c[1] \in Slugs /\ c[1] # Target
            /\ \A o \in owed : o[1] = c[1] => o[2] \in c[2]
        BY <1>2, <2>1, <2>6 DEF Accounted
      <3>2. /\ HandIn(d) /\ UNCHANGED worker
            /\ owed' = (owed \ {<<c[1], d>>}) \cup {<<Target, d>>}
        BY <2>6 DEF CarryDocument
      <3>3. absorbing'.source = Source /\ absorbing'.target = Target
            /\ absorbing'.todo = (absorbing.todo \ {c}) \cup {<<c[1], c[2] \ {d}>>}
        BY <2>1, <2>6 DEF CarryDocument, Absorbing, Source, Target
      <3>4. Accounted'
        <4> SUFFICES ASSUME NEW e \in absorbing'.todo
                     PROVE  IF e[1] = Target THEN e[2] = {} ELSE \A o \in owed' : o[1] = e[1] => o[2] \in e[2]
          BY <2>1, <3>3 DEF Accounted, Source, Target
        <4>1. CASE e \in absorbing.todo
          BY <1>2, <3>2, <4>1 DEF Accounted
        <4>2. CASE e = <<c[1], c[2] \ {d}>>
          <5>1. ASSUME NEW o \in owed', o[1] = c[1]
                PROVE  o[2] \in c[2] \ {d}
            <6>1. o \in owed /\ o # <<c[1], d>> /\ o \in Slugs \X Document
              BY <1>a, <3>1, <3>2, <5>1
            <6> QED  BY <3>1, <5>1, <6>1
          <5> QED  BY <3>1, <4>2, <5>1
        <4> QED  BY <3>3, <4>1, <4>2
      <3> QED  BY <2>1, <3>1, <3>2, <3>4, HandInKeeps
    <2>7. ASSUME NEW c \in absorbing.todo, DropCarried(c)
          PROVE  DocumentsKept' /\ Exclusive' /\ DigestsMatch' /\ Accounted'
      <3>1. c[1] \in Slugs /\ c[2] = {} /\ UNCHANGED owed
        BY <2>1, <2>7 DEF DropCarried
      <3>2. absorbing'.source = Source /\ absorbing'.target = Target /\ absorbing'.todo = absorbing.todo \ {c}
        BY <2>1, <2>7 DEF DropCarried, Absorbing, Source, Target
      <3>3. Accounted'
        BY <1>2, <2>1, <3>1, <3>2 DEF Accounted, Source, Target
      <3>4. \A w \in Workers :
               /\ worker'[w].phase = worker[w].phase
               /\ worker'[w].read = worker[w].read /\ worker'[w].was = worker[w].was
               /\ worker'[w].key = IF worker[w].key \in {c[1]} \ {Target} THEN Gone ELSE worker[w].key
        BY <1>a, <2>7, BereftFacts DEF DropCarried
      <3>5. CASE c[1] = Target
        <4>1. /\ \A k \in Slugs : /\ merge'[k].status = merge[k].status /\ merge'[k].docs = merge[k].docs
                                  /\ merge'[k].token = merge[k].token /\ merge'[k].digest = merge[k].digest
          BY <1>a, <2>1, <2>7, <3>5 DEF DropCarried, Row
        <4>2. DocumentsKept'
          BY <3>1, <4>1, DocumentsStay DEF Unfinished
        <4>3. Exclusive' /\ DigestsMatch'
          BY <1>b, <3>4, <3>5, <4>1 DEF Exclusive, DigestsMatch, HeldBy
        <4> QED  BY <3>3, <4>2, <4>3
      <3>6. CASE c[1] # Target
        <4>1. /\ merge'[c[1]] = NoRow(c[1]) /\ merge'[c[1]].status = "ABSENT"
              /\ \A k \in Slugs \ {c[1]} : merge'[k] = merge[k]
          BY <1>a, <2>7, <3>1, <3>6, NoRowFacts DEF DropCarried
        <4>2. \A o \in owed : o[1] # c[1]
          BY <1>2, <3>1, <3>6 DEF Accounted
        <4>3. DocumentsKept'
          BY <1>a, <3>1, <4>1, <4>2 DEF DocumentsKept
        <4>4. Exclusive' /\ DigestsMatch'
          BY <1>b, <3>1, <3>4, <3>6, <4>1 DEF Exclusive, DigestsMatch, HeldBy
        <4> QED  BY <3>3, <4>3, <4>4
      <3> QED  BY <3>5, <3>6
    <2>8. CASE RemoveDirectory
      BY <1>c, <2>2, <2>8 DEF RemoveDirectory
    <2>9. CASE RedirectProject
      BY <1>c, <2>2, <2>9 DEF RedirectProject
    <2>10. CASE RenameProject
      <3>1. \A k \in Slugs : /\ merge'[k].status = merge[k].status /\ merge'[k].docs = merge[k].docs
                             /\ merge'[k].token = merge[k].token /\ merge'[k].digest = merge[k].digest
        <4> TAKE k \in Slugs
        <4>1. merge'[k] \in {merge[k], [merge[k] EXCEPT !.project = Target]}
          BY <2>10 DEF RenameProject
        <4> QED  BY <1>a, <4>1 DEF Row
      <3>2. UNCHANGED <<worker, owed>> /\ absorbing' = NoMerge
        BY <2>10 DEF RenameProject
      <3>3. DocumentsKept'
        BY <3>1, <3>2, DocumentsStay DEF Unfinished
      <3>4. Exclusive' /\ DigestsMatch'
        BY <1>b, <3>1, <3>2, ClaimsStay
      <3> QED  BY <3>2, <3>3, <3>4 DEF Accounted
    <2> QED  BY <1>2, <2>3, <2>4, <2>5, <2>6, <2>7, <2>8, <2>9, <2>10 DEF AbsorbStep
  <1>3. AbsorbStep => absorbing # NoMerge
    BY DEF AbsorbStep, HandInMemory, UnlinkMemory, ListMerges, RemoveDirectory, RedirectProject, RenameProject
  <1> QED  BY <1>1, <1>2, <1>3

LEMMA MergeInvHolds == MemorySpec => []MergeInv
  <1>1. MemoryInit => MergeInv
    <2> SUFFICES ASSUME MemoryInit PROVE MergeInv
      OBVIOUS
    <2>1. \A w \in Workers : worker[w].phase = "idle" /\ worker[w].key = Gone
      BY WaitingFacts DEF MemoryInit
    <2>2. absorbing = NoMerge /\ owed = {}
      BY DEF MemoryInit
    <2> QED  BY <2>1, <2>2, TypeInit DEF MergeInv, DocumentsKept, Exclusive, DigestsMatch, HeldBy, Accounted
  <1>2. MergeInv /\ [MemoryNext]_memoryVars => MergeInv'
    <2> SUFFICES ASSUME MergeInv, [MemoryNext]_memoryVars PROVE MergeInv'
      OBVIOUS
    <2>1. MemoryTypeOK'
      BY TypeStep DEF MergeInv
    <2>2. ASSUME NEW a \in Slugs, DeleteMemories(a)
          PROVE  DocumentsKept' /\ Exclusive' /\ DigestsMatch' /\ Accounted'
      <3> DEFINE rows == {k \in Slugs : merge[k].project = Resolve(a)}
      <3>1. /\ \A k \in Slugs : merge'[k] = IF k \in rows THEN NoRow(k) ELSE merge[k]
            /\ \A k \in rows : merge'[k].status = "ABSENT"
            /\ Bereft(rows) /\ owed' = {o \in owed : o[1] \notin rows} /\ absorbing' = NoMerge
        BY <2>2, NoRowFacts DEF DeleteMemories
      <3>2. rows \subseteq Slugs
        OBVIOUS
      <3> HIDE DEF rows
      <3>3. \A w \in Workers :
               /\ worker[w].key \in Slugs \cup {Gone}
               /\ worker'[w].phase = worker[w].phase
               /\ worker'[w].read = worker[w].read /\ worker'[w].was = worker[w].was
               /\ worker'[w].key = IF worker[w].key \in rows THEN Gone ELSE worker[w].key
        <4>1. worker \in [Workers -> Claimant]
          BY DEF MergeInv, MemoryTypeOK
        <4>2. \A w \in Workers : worker[w].key \in Slugs \cup {Gone}
          BY <4>1, ClaimantFields
        <4> QED  BY <3>1, <4>1, <4>2, BereftFacts
      <3>4. DocumentsKept'
        BY <3>1 DEF MergeInv, MemoryTypeOK, DocumentsKept
      <3>5. Exclusive' /\ DigestsMatch'
        BY <3>1, <3>2, <3>3 DEF MergeInv, Exclusive, DigestsMatch, HeldBy
      <3> QED  BY <3>1, <3>4, <3>5 DEF Accounted
    <2>3. CASE CutShort
      <3>1. \A w \in Workers : \/ worker'[w] = worker[w]
                               \/ worker'[w].phase = "idle" /\ worker'[w].key = Gone
        BY <2>3, WaitingFacts DEF CutShort
      <3>2. UNCHANGED <<merge, owed>> /\ absorbing' = NoMerge
        BY <2>3 DEF CutShort
      <3>3. DocumentsKept'
        BY <3>2 DEF MergeInv, DocumentsKept
      <3>4. Exclusive'
        BY <3>1, <3>2 DEF MergeInv, Exclusive
      <3>5. DigestsMatch'
        BY <3>1, <3>2 DEF MergeInv, DigestsMatch, HeldBy
      <3> QED  BY <2>1, <3>2, <3>3, <3>4, <3>5 DEF MergeInv, Accounted
    <2>4. CASE UNCHANGED memoryVars
      <3>1. DocumentsKept'
        BY <2>4 DEF memoryVars, MergeInv, DocumentsKept
      <3>2. Exclusive' /\ DigestsMatch'
        BY <2>4 DEF memoryVars, MergeInv, Exclusive, DigestsMatch, HeldBy
      <3>3. Accounted'
        BY <2>4 DEF memoryVars, MergeInv, Accounted, Source, Target
      <3> QED  BY <2>1, <3>1, <3>2, <3>3 DEF MergeInv
    <2> QED  BY <2>1, <2>2, <2>3, <2>4, WorkKeeps, AbsorbKeeps DEF MemoryNext, MergeInv
  <1> QED  BY <1>1, <1>2, PTL DEF MemorySpec

\* A document that was handed in stays with an unfinished row until a file was
\* written from it.
THEOREM NoDocumentIsDropped == MemorySpec => []DocumentsKept
  BY MergeInvHolds, PTL DEF MergeInv

\* Rows become DONE in one way only.
LEMMA DoneByCompletion ==
  ASSUME MergeInv, MemoryNext, NEW k \in Slugs, merge[k].status = "CLAIMED", merge'[k].status = "DONE"
  PROVE  \E w \in Workers : CompleteMemory(w, k) /\ ~MovedOn(merge[k])
  <1> USE DEF MergeInv
  <1>a. merge \in [Slugs -> Row] /\ \A j \in Slugs : merge[j] \in Row
    BY DEF MemoryTypeOK
  <1>b. ~(UNCHANGED merge)
    OBVIOUS
  <1>c. ASSUME NEW j \in Slugs, NEW status \in {"PENDING", "FAILED"},
               merge' = [merge EXCEPT ![j] = Unclaimed(merge[j], status)]
        PROVE  FALSE
    <2>1. status \in {"PENDING", "FAILED", "DONE"}
      OBVIOUS
    <2>2. Unclaimed(merge[j], status).status = status
      BY <1>a, <2>1, UnclaimedFacts
    <2> QED  BY <1>a, <1>c, <2>2
  <1>d. ASSUME absorbing \in Absorbing, NEW d \in Document, HandIn(d)
        PROVE  FALSE
    <2>1. merge'[Target].status # "DONE" /\ \A j \in Slugs \ {Target} : merge'[j] = merge[j]
      BY <1>d, HandInFacts, TypeOfRows
    <2> QED  BY <2>1
  <1>e. absorbing # NoMerge => absorbing \in Absorbing /\ absorbing.todo \subseteq Slugs \X SUBSET Document
    BY AbsorbingFields DEF MemoryTypeOK
  <1>1. ASSUME NEW w \in Workers, NEW j \in Slugs, CompleteMemory(w, j)
        PROVE  \E v \in Workers : CompleteMemory(v, k) /\ ~MovedOn(merge[k])
    <2>1. CASE MovedOn(merge[j])
      BY <1>1, <1>c, <2>1 DEF CompleteMemory
    <2>2. CASE ~MovedOn(merge[j])
      BY <1>1, <1>a, <2>2 DEF CompleteMemory
    <2> QED  BY <2>1, <2>2
  <1>2. ASSUME NEW w \in Workers, HandOut(w)
        PROVE  FALSE
    <2>1. merge' = [merge EXCEPT ![worker[w].key].digest = merge'[worker[w].key].digest] \/ UNCHANGED merge
      BY <1>2, <1>a DEF HandOut, Row
    <2> QED  BY <1>a, <2>1 DEF Row
  <1>3. ASSUME NEW w \in Workers, NEW j \in Slugs, ClaimMerge(w, j)
        PROVE  FALSE
    BY <1>3, <1>a DEF ClaimMerge, Row
  <1>4. ASSUME NEW w \in Workers, NEW j \in Slugs, ReturnMerge(w, j)
        PROVE  FALSE
    BY <1>4, <1>c DEF ReturnMerge
  <1>5. ASSUME NEW j \in Slugs, ReclaimMerge(j) \/ RetryMerge(j)
        PROVE  FALSE
    BY <1>5, <1>c DEF ReclaimMerge, RetryMerge
  <1>6. ASSUME NEW j \in Slugs, DeleteMemories(j)
        PROVE  FALSE
    BY <1>6, NoRowFacts DEF DeleteMemories
  <1>7. ASSUME HandInMemory
        PROVE  FALSE
    <2>1. [from |-> Source, says |-> absorbing.text] \in Document
      BY <1>7, <1>e, AbsorbingFields DEF HandInMemory, Source, Document
    <2> QED  BY <1>7, <1>d, <1>e, <2>1 DEF HandInMemory
  <1>8. ASSUME NEW c \in absorbing.todo, NEW d \in c[2], CarryDocument(c, d)
        PROVE  FALSE
    <2>1. d \in Document
      BY <1>8, <1>e DEF CarryDocument
    <2> QED  BY <1>8, <1>d, <1>e, <2>1 DEF CarryDocument
  <1>9. ASSUME NEW c \in absorbing.todo, DropCarried(c)
        PROVE  FALSE
    <2>1. c[1] \in Slugs
      BY <1>9, <1>e DEF DropCarried
    <2>2. merge'[c[1]].status \in {merge[c[1]].status, "ABSENT"} /\ \A j \in Slugs \ {c[1]} : merge'[j] = merge[j]
      BY <1>9, <1>a, <2>1, NoRowFacts DEF DropCarried, Row
    <2> QED  BY <2>2
  <1>10. ASSUME RenameProject
         PROVE  FALSE
    <2>1. merge'[k] \in {merge[k], [merge[k] EXCEPT !.project = Target]}
      BY <1>10 DEF RenameProject
    <2> QED  BY <1>a, <2>1 DEF Row
  <1>11. AbsorbStep => UNCHANGED merge \/ RenameProject \/ HandInMemory
                       \/ \E c \in absorbing.todo : DropCarried(c) \/ \E d \in c[2] : CarryDocument(c, d)
    BY DEF AbsorbStep, UnlinkMemory, ListMerges, RemoveDirectory, RedirectProject
  <1>12. ~AbsorbStep
    BY <1>b, <1>7, <1>8, <1>9, <1>10, <1>11
  <1>13. /\ \A p \in Slugs, text \in Synced : ~SyncMemories(p, text)
         /\ \A w \in Workers : ~AbandonMerge(w)
         /\ \A a, b \in Slugs : ~Absorb(a, b)
         /\ ~CutShort
    BY <1>b DEF SyncMemories, AbandonMerge, Absorb, CutShort
  <1> QED  BY <1>1, <1>2, <1>3, <1>4, <1>5, <1>6, <1>12, <1>13 DEF MemoryNext

\* A result replaces the file and ends the documents only when it was written
\* from all of what is there.
THEOREM ResultsReplaceWhatTheyRead == MemorySpec => MergeReplacesWhatItRead
  <1> DEFINE Replaces(k) ==
          merge[k].status = "CLAIMED" /\ merge'[k].status = "DONE"
              => \E w \in Workers : merge[k].token = w /\ Records(merge[k]) \subseteq worker[w].read
  <1>1. ASSUME MergeInv, [MemoryNext]_memoryVars
        PROVE  [\A k \in Slugs : Replaces(k)]_memoryVars
    <2>1. ASSUME MemoryNext, NEW k \in Slugs, merge[k].status = "CLAIMED", merge'[k].status = "DONE"
          PROVE  \E w \in Workers : merge[k].token = w /\ Records(merge[k]) \subseteq worker[w].read
      <3>1. PICK w \in Workers : CompleteMemory(w, k) /\ ~MovedOn(merge[k])
        BY <1>1, <2>1, DoneByCompletion
      <3>2. merge[k].token = w /\ worker[w].phase = "working" /\ worker[w].key = k
        BY <3>1 DEF CompleteMemory, Holds
      <3>3. merge[k].digest = worker[w].read
        BY <1>1, <2>1, <3>2, GoneAssumption DEF MergeInv, DigestsMatch, HeldBy
      <3> QED  BY <3>1, <3>2, <3>3 DEF MovedOn
    <2>2. MemoryNext => \A k \in Slugs : Replaces(k)
      BY <2>1
    <2> QED  BY <1>1, <2>2
  <1> QED  BY <1>1, MergeInvHolds, PTL DEF MemorySpec, MergeReplacesWhatItRead

-----------------------------------------------------------------------------
(* Merges that nothing gets in the way of.                                 *)

\* Devices and workers leave where rows belong, and give nobody an unfinished one.
LEMMA WorkStaysHome ==
  ASSUME MemoryTypeOK,
         \/ \E p \in Slugs, text \in Synced : SyncMemories(p, text)
         \/ \E w \in Workers : \/ HandOut(w) \/ AbandonMerge(w)
                               \/ \E k \in Slugs : ClaimMerge(w, k) \/ CompleteMemory(w, k) \/ ReturnMerge(w, k)
         \/ \E k \in Slugs : ReclaimMerge(k) \/ RetryMerge(k)
         \/ CutShort,
         NEW j \in Slugs, Unfinished(merge'[j])
  PROVE  Unfinished(merge[j]) /\ merge'[j].project = merge[j].project /\ merge'[j].path = merge[j].path
  <1>a. merge \in [Slugs -> Row] /\ \A k \in Slugs : merge[k] \in Row
    BY DEF MemoryTypeOK
  <1>b. ASSUME NEW k \in Slugs, NEW status \in {"PENDING", "FAILED"}, Unfinished(merge[k]),
               merge' = [merge EXCEPT ![k] = Unclaimed(merge[k], status)]
        PROVE  Unfinished(merge[j]) /\ merge'[j].project = merge[j].project /\ merge'[j].path = merge[j].path
    <2>1. status \in {"PENDING", "FAILED", "DONE"}
      OBVIOUS
    <2>2. /\ Unclaimed(merge[k], status).project = merge[k].project
          /\ Unclaimed(merge[k], status).path = merge[k].path
      BY <1>a, <2>1, UnclaimedFacts
    <2> QED  BY <1>a, <1>b, <2>2
  <1>1. ASSUME NEW w \in Workers, HandOut(w)
        PROVE  Unfinished(merge[j]) /\ merge'[j].project = merge[j].project /\ merge'[j].path = merge[j].path
    <2>1. merge' = [merge EXCEPT ![worker[w].key].digest = merge'[worker[w].key].digest] \/ UNCHANGED merge
      BY <1>1, <1>a DEF HandOut, Row
    <2> QED  BY <1>a, <2>1 DEF Row, Unfinished
  <1>2. ASSUME NEW w \in Workers, NEW k \in Slugs, ClaimMerge(w, k)
        PROVE  Unfinished(merge[j]) /\ merge'[j].project = merge[j].project /\ merge'[j].path = merge[j].path
    BY <1>2, <1>a DEF ClaimMerge, Row, Unfinished
  <1>3. ASSUME NEW w \in Workers, NEW k \in Slugs, CompleteMemory(w, k)
        PROVE  Unfinished(merge[j]) /\ merge'[j].project = merge[j].project /\ merge'[j].path = merge[j].path
    <2>1. Unfinished(merge[k])
      BY <1>3 DEF CompleteMemory, Holds, Unfinished
    <2>2. CASE MovedOn(merge[k])
      BY <1>3, <1>b, <2>1, <2>2 DEF CompleteMemory
    <2>3. CASE ~MovedOn(merge[k])
      <3>1. merge' = [merge EXCEPT ![k] = [Unclaimed(merge[k], "DONE") EXCEPT !.docs = {}]]
        BY <1>3, <2>3 DEF CompleteMemory
      <3>2. ~Unfinished([Unclaimed(merge[k], "DONE") EXCEPT !.docs = {}])
        <4>1. merge[k] \in Row /\ "DONE" \in {"PENDING", "FAILED", "DONE"}
          BY <1>a
        <4>2. [Unclaimed(merge[k], "DONE") EXCEPT !.docs = {}].status = "DONE"
          BY <4>1, UnclaimedFacts
        <4> QED  BY <4>2 DEF Unfinished
      <3> QED  BY <1>a, <3>1, <3>2
    <2> QED  BY <2>2, <2>3
  <1>4. ASSUME NEW w \in Workers, NEW k \in Slugs, ReturnMerge(w, k)
        PROVE  Unfinished(merge[j]) /\ merge'[j].project = merge[j].project /\ merge'[j].path = merge[j].path
    BY <1>4, <1>b DEF ReturnMerge, Holds, Unfinished
  <1>5. ASSUME NEW k \in Slugs, ReclaimMerge(k) \/ RetryMerge(k)
        PROVE  Unfinished(merge[j]) /\ merge'[j].project = merge[j].project /\ merge'[j].path = merge[j].path
    BY <1>5, <1>b DEF ReclaimMerge, RetryMerge, Unfinished
  <1>6. ASSUME UNCHANGED merge
        PROVE  Unfinished(merge[j]) /\ merge'[j].project = merge[j].project /\ merge'[j].path = merge[j].path
    BY <1>6
  <1>7. /\ \A p \in Slugs, text \in Synced : SyncMemories(p, text) => UNCHANGED merge
        /\ \A w \in Workers : AbandonMerge(w) => UNCHANGED merge
        /\ CutShort => UNCHANGED merge
    BY DEF SyncMemories, AbandonMerge, CutShort
  <1> QED  BY <1>1, <1>2, <1>3, <1>4, <1>5, <1>6, <1>7

LEMMA WorkDisturbs ==
  ASSUME MemoryTypeOK, Undisturbed, NothingStranded,
         \/ \E p \in Slugs, text \in Synced : SyncMemories(p, text)
         \/ \E w \in Workers : \/ HandOut(w) \/ AbandonMerge(w)
                               \/ \E k \in Slugs : ClaimMerge(w, k) \/ CompleteMemory(w, k) \/ ReturnMerge(w, k)
         \/ \E k \in Slugs : ReclaimMerge(k) \/ RetryMerge(k)
         \/ CutShort
  PROVE  Undisturbed' /\ NothingStranded'
  <1>1. Meanwhile /\ UNCHANGED alias /\ (absorbing = NoMerge => absorbing' = NoMerge)
    BY DEF SyncMemories, HandOut, AbandonMerge, ClaimMerge, CompleteMemory, ReturnMerge, ReclaimMerge,
           RetryMerge, CutShort
  <1>2. CASE absorbing # NoMerge
    <2>1. crossed'
      BY <1>1, <1>2, Zenon DEF Meanwhile
    <2> QED  BY <2>1 DEF Undisturbed, NothingStranded
  <1>3. CASE absorbing = NoMerge
    <2>1. absorbing' = NoMerge /\ (~crossed' => ~crossed)
      BY <1>1, <1>3 DEF Meanwhile, MemoryTypeOK
    <2>2. Undisturbed'
      BY <2>1 DEF Undisturbed
    <2>3. NothingStranded'
      <3> SUFFICES ASSUME ~crossed', NEW j \in Slugs, Unfinished(merge'[j])
                   PROVE  merge'[j].project = j /\ merge'[j].path = j /\ alias'[j] = Unmerged
        BY DEF NothingStranded, Unfinished
      <3>1. Unfinished(merge[j]) /\ merge'[j].project = merge[j].project /\ merge'[j].path = merge[j].path
        BY WorkStaysHome
      <3> QED  BY <1>1, <1>3, <2>1, <3>1 DEF NothingStranded
    <2> QED  BY <2>2, <2>3
  <1> QED  BY <1>2, <1>3

\* Of an undisturbed merge: what it does to the rows of other projects.
LEMMA HandInStaysHome ==
  ASSUME MemoryTypeOK, absorbing \in Absorbing, NEW d \in Document, HandIn(d), \A k \in Slugs : AtHome(k)
  PROVE  /\ \A k \in Slugs : AtHome(k)'
         /\ \A k \in Slugs \ {Target} : merge'[k] = merge[k]
  BY HandInFacts, TypeOfRows DEF AtHome

LEMMA PromisesGrow ==
  ASSUME \A o \in owed : o[1] = Target => o \in owed', UNCHANGED Target
  PROVE  Promised(Target) \subseteq Promised(Target)'
  BY DEF Promised

LEMMA AbsorbGoesOn ==
  ASSUME MergeInv, Undisturbed, NothingStranded, absorbing # NoMerge, AbsorbStep
  PROVE  Undisturbed' /\ NothingStranded'
  <1> USE DEF MergeInv
  <1>a. /\ absorbing \in Absorbing /\ Source \in Slugs /\ Target \in Slugs /\ Source # Target
        /\ absorbing.todo \subseteq Slugs \X SUBSET Document
        /\ merge \in [Slugs -> Row] /\ file \in [Slugs -> Texts]
    BY AbsorbingFields DEF Source, Target, MemoryTypeOK, Accounted
  <1>b. UNCHANGED crossed
    BY DEF AbsorbStep, HandInMemory, UnlinkMemory, ListMerges, CarryDocument, DropCarried, RemoveDirectory,
           RedirectProject, RenameProject
  <1>c. CASE crossed
    BY <1>b, <1>c DEF Undisturbed, NothingStranded
  <1>d. CASE ~crossed
    <2>a. /\ \A k \in Slugs : AtHome(k)
          /\ \A k \in Slugs : Unfinished(merge[k]) =>
                alias[k] = Unmerged \/ (k = Target /\ absorbing.phase # "renaming")
          /\ absorbing.phase = "handing" => absorbing.text = file[Source]
          /\ absorbing.phase \in {"handing", "unlinking"} => file[Source] # {}
          /\ absorbing.phase # "carrying" => absorbing.todo = {}
          /\ \A c \in absorbing.todo : c[1] = Source
          /\ absorbing.phase \in {"carrying", "redirecting", "renaming"} /\ absorbing.todo = {}
                => ~Unfinished(merge[Source])
          /\ absorbing.said \subseteq file[Target] \cup
                (IF absorbing.phase = "handing" THEN absorbing.text ELSE Promised(Target))
      BY <1>d DEF Undisturbed
    <2>b. ASSUME NEW phase \in {"handing", "unlinking", "listing", "carrying", "redirecting", "renaming"}, Goto(phase)
          PROVE  /\ absorbing'.phase = phase /\ Source' = Source /\ Target' = Target
                 /\ absorbing'.todo = absorbing.todo /\ absorbing'.said = absorbing.said
                 /\ absorbing'.text = absorbing.text /\ absorbing' # NoMerge
      <3>1. absorbing' = [absorbing EXCEPT !.phase = phase]
        BY <2>b DEF Goto
      <3>2. absorbing' # NoMerge
        BY <1>a, <3>1, MergeAssumption DEF Absorbing
      <3> QED  BY <1>a, <3>1, <3>2 DEF Absorbing, Source, Target
    <2>1. CASE HandInMemory
      <3> DEFINE d == [from |-> Source, says |-> absorbing.text]
      <3>1. absorbing.phase = "handing" /\ HandIn(d) /\ owed' = owed \cup {<<Target, d>>}
            /\ Goto("unlinking") /\ UNCHANGED <<alias, file>>
        BY <2>1 DEF HandInMemory
      <3>2. d \in Document /\ d.says = absorbing.text
        BY <1>a, AbsorbingFields DEF Document
      <3> HIDE DEF d
      <3>3. /\ \A k \in Slugs : AtHome(k)'
            /\ \A k \in Slugs \ {Target} : merge'[k] = merge[k]
        BY <1>a, <2>a, <3>1, <3>2, HandInStaysHome
      <3>4. /\ absorbing'.phase = "unlinking" /\ Source' = Source /\ Target' = Target
            /\ absorbing'.todo = {} /\ absorbing'.said = absorbing.said /\ absorbing' # NoMerge
        BY <2>a, <2>b, <3>1
      <3>5. absorbing.text \subseteq Promised(Target)'
        BY <3>1, <3>2, <3>4 DEF Promised
      <3>6. absorbing'.said \subseteq file'[Target'] \cup Promised(Target)'
        BY <2>a, <3>1, <3>4, <3>5
      <3>7. Undisturbed'
        BY <2>a, <3>1, <3>3, <3>4, <3>6 DEF Undisturbed, Unfinished
      <3> QED  BY <3>4, <3>7 DEF NothingStranded
    <2>2. CASE UnlinkMemory
      <3>1. /\ absorbing.phase = "unlinking" /\ Goto("listing") /\ UNCHANGED <<alias, merge, owed>>
            /\ file' = [file EXCEPT ![Source] = {}]
        BY <2>2, <2>a DEF UnlinkMemory
      <3>2. /\ absorbing'.phase = "listing" /\ Source' = Source /\ Target' = Target
            /\ absorbing'.todo = {} /\ absorbing'.said = absorbing.said /\ absorbing' # NoMerge
        BY <2>a, <2>b, <3>1
      <3>3. file'[Target] = file[Target]
        BY <1>a, <3>1
      <3>4. Promised(Target) \subseteq Promised(Target)'
        BY <3>1, <3>2, PromisesGrow
      <3>5. Undisturbed'
        BY <2>a, <3>1, <3>2, <3>3, <3>4 DEF Undisturbed, Unfinished, AtHome
      <3> QED  BY <3>2, <3>5 DEF NothingStranded
    <2>3. CASE ListMerges
      <3> DEFINE listed == {<<k, IF k = Target THEN {} ELSE merge[k].docs>> : k \in Listed}
      <3>1. /\ absorbing.phase = "listing" /\ UNCHANGED <<alias, file, merge, owed>>
            /\ absorbing' = [absorbing EXCEPT !.phase = "carrying", !.todo = listed]
        BY <2>3 DEF ListMerges
      <3>2. listed \subseteq Slugs \X SUBSET Document
        <4>1. \A k \in Slugs : merge[k].docs \in SUBSET Document
          BY <1>a, RowFields
        <4> QED  BY <4>1 DEF Listed
      <3>3. \A c \in listed : c[1] = Source
        BY <2>a DEF Listed, AtHome
      <3>4. Unfinished(merge[Source]) => listed # {}
        <4>1. Unfinished(merge[Source]) => Source \in Listed
          BY <1>a, <2>a DEF Listed, AtHome
        <4>2. \A k \in Listed : <<k, IF k = Target THEN {} ELSE merge[k].docs>> \in listed
          OBVIOUS
        <4> QED  BY <4>1, <4>2
      <3> HIDE DEF listed
      <3>5. /\ absorbing'.phase = "carrying" /\ Source' = Source /\ Target' = Target
            /\ absorbing'.todo = listed /\ absorbing'.said = absorbing.said /\ absorbing' # NoMerge
        BY <1>a, <3>1, <3>2, MergeAssumption DEF Absorbing, Source, Target
      <3>6. Promised(Target) \subseteq Promised(Target)'
        BY <3>1, <3>5, PromisesGrow
      <3>7. Undisturbed'
        BY <2>a, <3>1, <3>3, <3>4, <3>5, <3>6 DEF Undisturbed, Unfinished, AtHome
      <3> QED  BY <3>5, <3>7 DEF NothingStranded
    <2>4. ASSUME NEW c \in absorbing.todo, NEW d \in c[2], CarryDocument(c, d)
          PROVE  Undisturbed' /\ NothingStranded'
      <3> DEFINE rest == (absorbing.todo \ {c}) \cup {<<c[1], c[2] \ {d}>>}
      <3>1. /\ absorbing.phase = "carrying" /\ HandIn(d) /\ UNCHANGED <<alias, file>>
            /\ owed' = (owed \ {<<c[1], d>>}) \cup {<<Target, d>>}
            /\ absorbing' = [absorbing EXCEPT !.todo = rest]
        BY <2>4, <2>a DEF CarryDocument
      <3>2. d \in Document /\ c[1] = Source /\ rest \subseteq Slugs \X SUBSET Document
        BY <1>a, <2>a
      <3>3. rest # {} /\ \A e \in rest : e[1] = Source
        <4>1. <<c[1], c[2] \ {d}>>[1] = Source /\ <<c[1], c[2] \ {d}>> \in rest
          BY <3>2
        <4>2. \A e \in rest : e \in absorbing.todo \/ e = <<c[1], c[2] \ {d}>>
          OBVIOUS
        <4> HIDE DEF rest
        <4> QED  BY <2>a, <4>1, <4>2
      <3> HIDE DEF rest
      <3>4. /\ \A k \in Slugs : AtHome(k)'
            /\ \A k \in Slugs \ {Target} : merge'[k] = merge[k]
        BY <1>a, <2>a, <3>1, <3>2, HandInStaysHome
      <3>5. /\ absorbing'.phase = "carrying" /\ Source' = Source /\ Target' = Target
            /\ absorbing'.todo = rest /\ absorbing'.said = absorbing.said /\ absorbing' # NoMerge
        BY <1>a, <3>1, <3>2, MergeAssumption DEF Absorbing, Source, Target
      <3>6. Promised(Target) \subseteq Promised(Target)'
        <4>1. \A o \in owed : o[1] = Target => o \in owed'
          BY <1>a, <3>1, <3>2
        <4> QED  BY <3>5, <4>1, PromisesGrow
      <3>7. Undisturbed'
        BY <2>a, <3>1, <3>3, <3>4, <3>5, <3>6 DEF Undisturbed, Unfinished
      <3> QED  BY <3>5, <3>7 DEF NothingStranded
    <2>5. ASSUME NEW c \in absorbing.todo, DropCarried(c)
          PROVE  Undisturbed' /\ NothingStranded'
      <3>1. /\ absorbing.phase = "carrying" /\ c[1] = Source /\ UNCHANGED <<alias, file, owed>>
            /\ merge' = [merge EXCEPT ![Source] = NoRow(Source)]
            /\ absorbing' = [absorbing EXCEPT !.todo = absorbing.todo \ {c}]
        BY <2>5, <2>a, <1>a DEF DropCarried
      <3>2. /\ absorbing'.phase = "carrying" /\ Source' = Source /\ Target' = Target
            /\ absorbing'.todo = absorbing.todo \ {c} /\ absorbing'.said = absorbing.said /\ absorbing' # NoMerge
        BY <1>a, <3>1, MergeAssumption DEF Absorbing, Source, Target
      <3>3. ~Unfinished(merge'[Source]) /\ \A k \in Slugs \ {Source} : merge'[k] = merge[k]
        BY <1>a, <3>1, NoRowFacts DEF Unfinished
      <3>4. Promised(Target) \subseteq Promised(Target)'
        BY <3>1, <3>2, PromisesGrow
      <3>5. \A k \in Slugs : AtHome(k)'
        BY <2>a, <3>3 DEF AtHome, Unfinished
      <3>6. Undisturbed'
        BY <2>a, <3>1, <3>2, <3>3, <3>4, <3>5 DEF Undisturbed, Unfinished
      <3> QED  BY <3>2, <3>6 DEF NothingStranded
    <2>6. CASE RemoveDirectory
      <3>1. /\ absorbing.phase = "carrying" /\ absorbing.todo = {} /\ Goto("redirecting")
            /\ UNCHANGED <<alias, merge, owed>> /\ file' = [file EXCEPT ![Source] = {}]
        BY <2>6 DEF RemoveDirectory
      <3>2. /\ absorbing'.phase = "redirecting" /\ Source' = Source /\ Target' = Target
            /\ absorbing'.todo = {} /\ absorbing'.said = absorbing.said /\ absorbing' # NoMerge
        BY <2>b, <3>1
      <3>3. file'[Target] = file[Target]
        BY <1>a, <3>1
      <3>4. Promised(Target) \subseteq Promised(Target)'
        BY <3>1, <3>2, PromisesGrow
      <3>5. Undisturbed'
        BY <2>a, <3>1, <3>2, <3>3, <3>4 DEF Undisturbed, Unfinished, AtHome
      <3> QED  BY <3>2, <3>5 DEF NothingStranded
    <2>7. CASE RedirectProject
      <3>1. /\ absorbing.phase = "redirecting" /\ Goto("renaming") /\ Redirect(Source, Target)
            /\ UNCHANGED <<file, merge, owed>>
        BY <2>7 DEF RedirectProject
      <3>2. /\ absorbing'.phase = "renaming" /\ Source' = Source /\ Target' = Target
            /\ absorbing'.todo = {} /\ absorbing'.said = absorbing.said /\ absorbing' # NoMerge
        BY <2>a, <2>b, <3>1
      <3>3. \A k \in Slugs : Unfinished(merge[k]) => alias'[k] = Unmerged
        BY <1>a, <2>a, <3>1, UnmergedAssumption DEF Redirect
      <3>4. Promised(Target) \subseteq Promised(Target)'
        BY <3>1, <3>2, PromisesGrow
      <3>5. Undisturbed'
        BY <2>a, <3>1, <3>2, <3>3, <3>4 DEF Undisturbed, Unfinished, AtHome
      <3> QED  BY <3>2, <3>5 DEF NothingStranded
    <2>8. CASE RenameProject
      <3>1. /\ absorbing.phase = "renaming" /\ absorbing' = NoMerge /\ UNCHANGED alias
            /\ \A k \in Slugs : merge'[k] = IF merge[k].status # "ABSENT" /\ merge[k].project = Source
                                             THEN [merge[k] EXCEPT !.project = Target] ELSE merge[k]
        BY <2>8 DEF RenameProject
      <3>2. ASSUME NEW k \in Slugs, Unfinished(merge'[k])
            PROVE  merge'[k] = merge[k] /\ Unfinished(merge[k])
        <4>1. Unfinished(merge[k])
          BY <1>a, <3>1, <3>2 DEF Unfinished, Row
        <4>2. k # Source /\ merge[k].project = k
          BY <2>a, <3>1, <4>1 DEF AtHome
        <4> QED  BY <3>1, <4>1, <4>2
      <3>3. NothingStranded'
        BY <2>a, <3>1, <3>2 DEF NothingStranded, AtHome, Unfinished
      <3> QED  BY <3>1, <3>3 DEF Undisturbed
    <2> QED  BY <2>1, <2>2, <2>3, <2>4, <2>5, <2>6, <2>7, <2>8 DEF AbsorbStep
  <1> QED  BY <1>c, <1>d

LEMMA MergesGoOn ==
  ASSUME MergeInv, Undisturbed, NothingStranded, [MemoryNext]_memoryVars
  PROVE  Undisturbed' /\ NothingStranded'
  <1> USE DEF MergeInv
  <1>1. ASSUME NEW a \in Slugs, NEW b \in Slugs, Absorb(a, b)
        PROVE  Undisturbed' /\ NothingStranded'
    <2> DEFINE source == Resolve(a)
               target == MergeTarget(source, b)
               both   == file[source] # {} /\ file[target] # {}
    <2>1. /\ absorbing = NoMerge /\ source # target /\ UNCHANGED <<alias, merge, owed, crossed>>
          /\ absorbing' = [phase |-> FirstPhase(both), source |-> source, target |-> target,
                           text |-> file[source], todo |-> {}, said |-> file[source] \cup file[target]]
          /\ file' = IF both \/ file[source] = {} THEN file
                     ELSE [file EXCEPT ![source] = {}, ![target] = file[source]]
      BY <1>1 DEF Absorb
    <2>2. source \in Slugs /\ target \in Slugs /\ file \in [Slugs -> Texts]
      BY ResolveType DEF MemoryTypeOK
    <2>3. absorbing' \in Absorbing
      BY <2>1, <2>2 DEF Absorbing, FirstPhase, Texts
    <2>4. absorbing' # NoMerge
      BY <2>3, MergeAssumption
    <2>5. /\ Source' = source /\ Target' = target /\ absorbing'.todo = {} /\ absorbing'.text = file[source]
          /\ absorbing'.said = file[source] \cup file[target]
          /\ absorbing'.phase = IF both THEN "handing" ELSE "listing"
      BY <2>1 DEF Source, Target, FirstPhase
    <2>6. both => file' = file
      BY <2>1
    <2>7. ~both => file'[target] = file[source] \cup file[target]
      BY <2>1, <2>2
    <2> HIDE DEF source, target
    <2>8. Undisturbed'
      <3> SUFFICES ASSUME ~crossed
                   PROVE  Undisturbed'
        BY <2>1 DEF Undisturbed
      <3>1. /\ \A k \in Slugs : Unfinished(merge[k]) => merge[k].project = k /\ merge[k].path = k
            /\ \A k \in Slugs : Unfinished(merge[k]) => alias[k] = Unmerged
        BY <2>1 DEF NothingStranded
      <3> QED  BY <2>1, <2>2, <2>4, <2>5, <2>6, <2>7, <3>1 DEF Undisturbed, AtHome, Unfinished
    <2> QED  BY <2>4, <2>8 DEF NothingStranded
  <1>2. ASSUME NEW a \in Slugs, DeleteMemories(a)
        PROVE  Undisturbed' /\ NothingStranded'
    <2>1. /\ absorbing = NoMerge /\ absorbing' = NoMerge /\ UNCHANGED crossed
          /\ \A k \in Slugs : merge'[k] \in {NoRow(k), merge[k]}
          /\ \A k \in Slugs : alias'[k] \in {alias[k], Unmerged}
      BY <1>2 DEF DeleteMemories, Forgotten
    <2>2. \A k \in Slugs : Unfinished(merge'[k]) => merge'[k] = merge[k]
      BY <2>1, NoRowFacts DEF Unfinished
    <2>3. NothingStranded'
      BY <2>1, <2>2 DEF NothingStranded, Unfinished
    <2> QED  BY <2>1, <2>3 DEF Undisturbed
  <1>3. CASE UNCHANGED memoryVars
    <2>1. Undisturbed'
      BY <1>3 DEF memoryVars, Undisturbed, AtHome, Unfinished, Source, Target, Promised
    <2>2. NothingStranded'
      BY <1>3 DEF memoryVars, NothingStranded, Unfinished
    <2> QED  BY <2>1, <2>2
  <1>4. AbsorbStep => absorbing # NoMerge
    BY DEF AbsorbStep, HandInMemory, UnlinkMemory, ListMerges, RemoveDirectory, RedirectProject, RenameProject
  <1> QED  BY <1>1, <1>2, <1>3, <1>4, WorkDisturbs, AbsorbGoesOn DEF MemoryNext

LEMMA Unhindered == MemorySpec => [](Undisturbed /\ NothingStranded)
  <1>1. MemoryInit => Undisturbed /\ NothingStranded
    BY NoRowFacts DEF MemoryInit, Undisturbed, NothingStranded, Unfinished
  <1>2. MergeInv /\ (Undisturbed /\ NothingStranded) /\ [MemoryNext]_memoryVars => (Undisturbed /\ NothingStranded)'
    BY MergesGoOn
  <1> QED  BY <1>1, <1>2, MergeInvHolds, PTL DEF MemorySpec

\* Between merges nothing is left that belongs to a project that was merged away,
\* when nothing got in the way of any.
THEOREM NothingIsStranded == MemorySpec => []NothingStranded
  BY Unhindered, PTL

\* A merge that nothing gets in the way of loses nothing, wherever it is cut short.
THEOREM MergesKeep == MemorySpec => []MergeKeeps
  <1>1. MergeInv /\ Undisturbed => MergeKeeps
    <2> SUFFICES ASSUME MergeInv, Undisturbed, absorbing # NoMerge, ~crossed
                 PROVE  absorbing.said \subseteq file[Source] \cup file[Target] \cup Summary(merge[Target].docs)
      BY DEF MergeKeeps
    <2>1. /\ absorbing.phase = "handing" => absorbing.text = file[Source]
          /\ absorbing.said \subseteq file[Target] \cup
                (IF absorbing.phase = "handing" THEN absorbing.text ELSE Promised(Target))
      BY DEF Undisturbed
    <2>2. Promised(Target) \subseteq Summary(merge[Target].docs)
      BY DEF Promised, Summary, MergeInv, DocumentsKept
    <2> QED  BY <2>1, <2>2
  <1> QED  BY <1>1, MergeInvHolds, Unhindered, PTL

\* Merges that nothing gets in the way of lose nothing and leave nothing behind.
THEOREM MergesAreWhole == MemorySpec => []MergesLoseNothing
  BY MemoryTypeCorrect, MergesKeep, NothingIsStranded, PTL DEF MergesLoseNothing

-----------------------------------------------------------------------------
\* Reset: what a run of kb reset leaves of the files.

Spot  == [dir: Seq(Labels), part: Parts, title: Seq(Labels)]
Entry == [at: Spot, what: Place]

ResetTypeOK ==
    /\ held \subseteq Entry /\ IsFiniteSet(held) /\ first \subseteq Entry
    /\ step \in {"idle", "remove", "move", "done"}
    /\ nest \subseteq {d \in Seq(Labels) : Len(d) > 1}

\* From the end of the first loop on nothing is left that the run removes, and
\* every project inside another that still has a file is on the list, with those
\* it is in.
NestedListed ==
    step \in {"move", "done"} =>
        \A h \in held : /\ h.at.part \notin Cleared /\ h.at.dir # <<>>
                        /\ \A n \in 2..Len(h.at.dir) : SubSeq(h.at.dir, 1, n) \in nest

\* What cannot be written again is there, in a place that is not cleared.
Spared ==
    ~Memories => \A h \in first : h.at.part \notin Derived =>
                     \E g \in held : g.what = h.what /\ g.at.part \notin Derived

ResetInv ==
    /\ ResetTypeOK /\ NestedListed /\ Spared
    /\ \A h \in held : h.at.dir # <<>>
    /\ step = "done" => nest = {}

-----------------------------------------------------------------------------
LEMMA PlacesAreSpots == ASSUME NEW p \in Place PROVE p \in Spot /\ p.dir # <<>>
  <1>1. PICK t \in Titles : p.title = <<t>>
    BY DEF Place
  <1>2. <<t>> \in Seq(Labels)
    BY DEF Labels
  <1> QED BY <1>1, <1>2, ResetAssumption DEF Place, Spot

LEMMA EntryFields ==
  ASSUME NEW h \in Entry
  PROVE  /\ h.at \in Spot /\ h.at.dir \in Seq(Labels) /\ h.at.title \in Seq(Labels) /\ h.at.part \in Parts
         /\ h.what \in Place
  BY DEF Entry, Spot

LEMMA TaggedIs ==
  ASSUME NEW p \in Spot, NEW d \in Seq(Labels), Len(d) > 1, NEW n \in Nat
  PROVE  /\ Tagged(d, p, n) \in Spot /\ Len(Tagged(d, p, n).title) = Len(p.title) + n
         /\ Tagged(d, p, n).dir = p.dir /\ Tagged(d, p, n).part = p.part
  <1> DEFINE tail == [i \in 1..n |-> d[Len(d) - 1]]
  <1>1. tail \in Seq(Labels) /\ Len(tail) = n
    OBVIOUS
  <1>2. p.title \in Seq(Labels)
    BY DEF Spot
  <1>3. p.title \o tail \in Seq(Labels) /\ Len(p.title \o tail) = Len(p.title) + n
    BY <1>1, <1>2
  <1>4. Tagged(d, p, n) = [p EXCEPT !.title = @ \o tail]
    BY DEF Tagged
  <1> HIDE DEF tail
  <1> QED BY <1>3, <1>4 DEF Spot

\* Of one title more than there are files, one is not taken.
LEMMA SomeVacant ==
  ASSUME ResetTypeOK, NEW p \in Spot, NEW d \in Seq(Labels), Len(d) > 1
  PROVE  \E k \in 0..Cardinality(held) : ~Filled(Tagged(d, p, k))
  <1> SUFFICES ASSUME \A k \in 0..Cardinality(held) : Filled(Tagged(d, p, k)) PROVE FALSE
    OBVIOUS
  <1>1. IsFiniteSet(held) /\ Cardinality(held) \in Nat
    BY FS_CardinalityType DEF ResetTypeOK
  <1> DEFINE K == 0..Cardinality(held)
             f == [k \in K |-> CHOOSE h \in held : h.at = Tagged(d, p, k)]
  <1>2. IsFiniteSet(K) /\ Cardinality(K) = Cardinality(held) + 1
    BY <1>1, FS_Interval
  <1>3. \A k \in K : f[k] \in held /\ f[k].at = Tagged(d, p, k)
    BY DEF Filled
  <1>4. f \in [K -> held]
    BY <1>3
  <1> HIDE DEF f, K
  <1>5. PICK i \in K, j \in K : i # j /\ f[i] = f[j]
    BY <1>1, <1>2, <1>4, FS_PigeonHole
  <1>6. i \in Nat /\ j \in Nat
    BY <1>1 DEF K
  <1>7. Tagged(d, p, i).title = Tagged(d, p, j).title
    BY <1>3, <1>5
  <1>8. Len(p.title) \in Nat
    BY DEF Spot
  <1> QED BY <1>5, <1>6, <1>7, <1>8, TaggedIs

\* A file is moved to a name that is not taken.
LEMMA VacantIs ==
  ASSUME ResetTypeOK, NEW p \in Spot, NEW d \in Seq(Labels), Len(d) > 1
  PROVE  /\ Vacant(d, p) \in Spot /\ ~Filled(Vacant(d, p))
         /\ Vacant(d, p).dir = p.dir /\ Vacant(d, p).part = p.part
  <1> DEFINE K == {k \in 0..Cardinality(held) : ~Filled(Tagged(d, p, k))}
  <1>0. Cardinality(held) \in Nat
    BY FS_CardinalityType DEF ResetTypeOK
  <1>1. K \subseteq Nat /\ K # {}
    BY <1>0, SomeVacant
  <1>2. PICK n \in K : \A k \in K : ~(<<k, n>> \in OpToRel(<, Nat))
    BY <1>1, NatLessThanWellFounded, WFMin
  <1>3. \A k \in K : ~(k < n)
    BY <1>1, <1>2 DEF OpToRel
  <1>4. \A j \in 0..(n - 1) : Filled(Tagged(d, p, j))
    BY <1>0, <1>1, <1>3
  <1> DEFINE least == CHOOSE k \in 0..Cardinality(held) : /\ ~Filled(Tagged(d, p, k))
                                                         /\ \A j \in 0..(k - 1) : Filled(Tagged(d, p, j))
  <1>5. least \in 0..Cardinality(held) /\ ~Filled(Tagged(d, p, least))
    BY <1>1, <1>4
  <1>6. Vacant(d, p) = Tagged(d, p, least)
    BY DEF Vacant
  <1> HIDE DEF least, K
  <1> QED BY <1>0, <1>5, <1>6, TaggedIs

LEMMA WantedIs ==
  ASSUME NEW h \in Entry, NEW d \in Seq(Labels), Len(d) > 1, IsPrefix(d, h.at.dir)
  PROVE  /\ Wanted(d, h.at) \in Spot /\ Wanted(d, h.at).part = h.at.part /\ Wanted(d, h.at).dir # <<>>
         /\ h.at.dir = d => Wanted(d, h.at).dir = <<Last(d)>>
  <1> DEFINE rest == SubSeq(h.at.dir, Len(d) + 1, Len(h.at.dir))
  <1>1. h.at \in Spot /\ h.at.dir \in Seq(Labels)
    BY EntryFields
  <1>2. Len(d) <= Len(h.at.dir)
    BY DEF IsPrefix
  <1>3. rest \in Seq(Labels)
    BY <1>1, <1>2
  <1>4. Last(d) \in Labels
    BY DEF Last
  <1>5. <<Last(d)>> \o rest \in Seq(Labels) /\ Len(<<Last(d)>> \o rest) = 1 + Len(rest)
    BY <1>3, <1>4
  <1>6. h.at.dir = d => rest = <<>>
    BY <1>1
  <1>7. Wanted(d, h.at) = [h.at EXCEPT !.dir = <<Last(d)>> \o rest]
    BY DEF Wanted
  <1>8. rest = <<>> => <<Last(d)>> \o rest = <<Last(d)>>
    <2>1. <<Last(d)>> \in Seq(Labels)
      BY <1>4
    <2> QED BY <2>1, ConcatEmptySeq
  <1> HIDE DEF rest
  <1>9. Wanted(d, h.at).dir = <<Last(d)>> \o rest
    BY <1>1, <1>7 DEF Spot
  <1>10. Len(rest) \in Nat
    BY <1>3
  <1>11. <<Last(d)>> \o rest # <<>>
    BY <1>5, <1>10
  <1> QED BY <1>1, <1>5, <1>6, <1>7, <1>8, <1>9, <1>11 DEF Spot

LEMMA ResetInitially == ResetInit => ResetInv
  <1> SUFFICES ASSUME ResetInit PROVE ResetInv
    OBVIOUS
  <1>1. PICK S \in FirstFiles : held = {[at |-> p, what |-> p] : p \in S}
    BY DEF ResetInit
  <1>2. IsFiniteSet(S) /\ S \subseteq Place
    BY <1>1, ResetAssumption
  <1>3. IsFiniteSet(held)
    <2> DEFINE f == [p \in S |-> [at |-> p, what |-> p]]
    <2>1. f \in [S -> held]
      BY <1>1
    <2>2. f \in Surjection(S, held)
      BY <1>1, <2>1 DEF Surjection
    <2> QED BY <1>2, <2>2, FS_Surjection
  <1>4. \A h \in held : h \in Entry /\ h.at.dir # <<>>
    BY <1>1, <1>2, PlacesAreSpots DEF Entry
  <1>5. first = held /\ step = "idle" /\ nest = {}
    BY DEF ResetInit
  <1>6. \A h \in held : \E g \in held : g.what = h.what /\ (h.at.part \notin Derived => g.at.part \notin Derived)
    OBVIOUS
  <1>7. Spared
    BY <1>5, <1>6 DEF Spared
  <1> QED BY <1>3, <1>4, <1>5, <1>7 DEF ResetInv, ResetTypeOK, NestedListed

\* A file that goes is one that is not spared; a file that moves keeps what it
\* says and where in its project it is.
LEMMA SparedStay ==
  ASSUME Spared, UNCHANGED first,
         \A g \in held : g.at.part \notin Derived => \E x \in held' : x.what = g.what /\ x.at.part = g.at.part
  PROVE  Spared'
  BY DEF Spared

LEMMA MoveKeeps == ASSUME ResetInv, MoveOneUp PROVE ResetInv'
  <1>1. /\ ResetTypeOK /\ NestedListed /\ Spared /\ step = "move" /\ UNCHANGED <<kinds, step, kills, first>>
        /\ \A h \in held : h.at.dir # <<>>
    BY DEF ResetInv, MoveOneUp
  <1>2. PICK d \in nest :
          /\ InnerFirst(d)
          /\ \/ Inside(d) = {} /\ nest' = nest \ {d} /\ UNCHANGED held
             \/ \E h \in Inside(d) :
                     LET to == Vacant(d, Wanted(d, h.at))
                     IN held' = {g \in held : g # h /\ g.at # to} \cup {[h EXCEPT !.at = to]} /\ UNCHANGED nest
    BY DEF MoveOneUp
  <1>3. d \in Seq(Labels) /\ Len(d) > 1 /\ held \subseteq Entry /\ nest \subseteq {x \in Seq(Labels) : Len(x) > 1}
    BY <1>1 DEF ResetTypeOK
  <1>4. CASE Inside(d) = {} /\ nest' = nest \ {d} /\ UNCHANGED held
    <2>1. \A h \in held : \A n \in 2..Len(h.at.dir) : SubSeq(h.at.dir, 1, n) # d
      <3> SUFFICES ASSUME NEW h \in held, NEW n \in 2..Len(h.at.dir), SubSeq(h.at.dir, 1, n) = d PROVE FALSE
        OBVIOUS
      <3>1. h.at.dir \in Seq(Labels)
        BY <1>3, EntryFields
      <3>2. Len(d) = n /\ IsPrefix(d, h.at.dir)
        BY <1>3, <3>1 DEF IsPrefix
      <3> QED BY <1>4, <3>2 DEF Inside
    <2>2. NestedListed'
      BY <1>1, <1>4, <2>1 DEF NestedListed, Cleared
    <2>3. Spared'
      BY <1>1, <1>4 DEF Spared
    <2>4. ResetTypeOK'
      BY <1>1, <1>4 DEF ResetTypeOK
    <2> QED BY <1>1, <1>4, <2>2, <2>3, <2>4 DEF ResetInv
  <1>5. ASSUME NEW h \in Inside(d), UNCHANGED nest,
               held' = {g \in held : g # h /\ g.at # Vacant(d, Wanted(d, h.at))}
                         \cup {[h EXCEPT !.at = Vacant(d, Wanted(d, h.at))]}
        PROVE  ResetInv'
    <2> DEFINE to == Vacant(d, Wanted(d, h.at))
               moved == [h EXCEPT !.at = to]
    <2>1. h \in held /\ h \in Entry /\ IsPrefix(d, h.at.dir) /\ h.at.dir \in Seq(Labels)
      BY <1>3, EntryFields DEF Inside
    <2>2. h.at.dir = d
      <3> SUFFICES ASSUME h.at.dir # d PROVE FALSE
        OBVIOUS
      <3>1. Len(h.at.dir) > 1
        BY <1>3, <2>1 DEF IsPrefix
      <3>2. SubSeq(h.at.dir, 1, Len(h.at.dir)) = h.at.dir
        BY <2>1
      <3>3. SubSeq(h.at.dir, 1, Len(h.at.dir)) \in nest
        <4>1. Len(h.at.dir) \in 2..Len(h.at.dir)
          BY <2>1, <3>1
        <4> QED BY <1>1, <2>1, <4>1 DEF NestedListed
      <3>4. h.at.dir \in nest
        BY <3>2, <3>3
      <3> QED BY <1>2, <2>1, <3>4 DEF InnerFirst
    <2>3. /\ to \in Spot /\ ~Filled(to) /\ to.part = h.at.part /\ to.dir = <<Last(d)>>
      <3>1. /\ Wanted(d, h.at) \in Spot /\ Wanted(d, h.at).part = h.at.part
            /\ Wanted(d, h.at).dir = <<Last(d)>>
        BY <1>3, <2>1, <2>2, WantedIs
      <3> QED BY <1>1, <1>3, <3>1, VacantIs
    <2>4. \A g \in held : g.at # to
      BY <2>3 DEF Filled
    <2> HIDE DEF to
    <2>5. moved \in Entry /\ moved.at = to /\ moved.what = h.what
      BY <2>1, <2>3 DEF Entry
    <2> HIDE DEF moved
    <2>6. held' = (held \ {h}) \cup {moved}
      BY <1>5, <2>4 DEF moved, to
    <2>7. IsFiniteSet(held')
      BY <1>1, <2>6, FS_RemoveElement, FS_AddElement DEF ResetTypeOK
    <2>8. ResetTypeOK'
      BY <1>1, <1>5, <2>5, <2>6, <2>7 DEF ResetTypeOK
    <2>9. to.dir # <<>> /\ Len(to.dir) = 1
      BY <2>3
    <2>10. NestedListed'
      <3>1. \A g \in held' : /\ g.at.part \notin Cleared /\ g.at.dir # <<>>
                             /\ \A n \in 2..Len(g.at.dir) : SubSeq(g.at.dir, 1, n) \in nest
        <4>1. moved.at.part \notin Cleared /\ moved.at.dir # <<>> /\ 2..Len(moved.at.dir) = {}
          <5>1. h.at.part \notin Cleared
            BY <1>1, <2>1 DEF NestedListed
          <5>2. moved.at.part = h.at.part /\ moved.at.dir # <<>> /\ Len(moved.at.dir) = 1
            BY <2>3, <2>5, <2>9
          <5>3. 2..Len(moved.at.dir) = {}
            BY <5>2
          <5> QED BY <5>1, <5>2, <5>3
        <4> QED BY <1>1, <2>6, <4>1 DEF NestedListed
      <3> QED BY <1>5, <3>1 DEF NestedListed, Cleared
    <2>11. Spared'
      <3>1. \A g \in held : \E x \in held' : x.what = g.what /\ x.at.part = g.at.part
        BY <2>3, <2>5, <2>6
      <3> QED BY <1>1, <3>1, SparedStay
    <2> QED BY <1>1, <2>5, <2>6, <2>8, <2>9, <2>10, <2>11 DEF ResetInv
  <1> QED BY <1>2, <1>4, <1>5

LEMMA ResetKept == ResetInv /\ [ResetNext]_resetVars => ResetInv'
  <1> SUFFICES ASSUME ResetInv, [ResetNext]_resetVars PROVE ResetInv'
    OBVIOUS
  <1>1. ResetTypeOK /\ NestedListed /\ Spared /\ \A h \in held : h.at.dir # <<>>
    BY DEF ResetInv
  <1>2. ASSUME UNCHANGED <<held, first>>, step' \in {"idle", "remove"}, nest' = nest \/ nest' = {} PROVE ResetInv'
    BY <1>1, <1>2 DEF ResetInv, ResetTypeOK, NestedListed, Spared
  <1>3. CASE WipeJobs
    BY <1>2, <1>3 DEF WipeJobs
  <1>4. CASE KillReset
    BY <1>2, <1>4 DEF KillReset
  <1>5. CASE RemoveOne
    <2>1. PICK h \in held : h.at.part \in Cleared /\ held' = held \ {h}
      BY <1>5 DEF RemoveOne
    <2>2. step = "remove" /\ UNCHANGED <<step, nest, first>>
      BY <1>5 DEF RemoveOne
    <2>3. ResetTypeOK'
      BY <1>1, <2>1, <2>2, FS_RemoveElement DEF ResetTypeOK
    <2>4. Spared'
      BY <1>1, <2>1, <2>2 DEF Spared, Cleared
    <2> QED BY <1>1, <2>1, <2>2, <2>3, <2>4 DEF ResetInv, NestedListed
  <1>6. CASE StartMoving
    <2>1. /\ step' = "move" /\ UNCHANGED <<held, first>>
          /\ \A h \in held : h.at.part \notin Cleared
          /\ nest' = UNION {{SubSeq(d, 1, n) : n \in 2..Len(d)} : d \in Nested}
      BY <1>6 DEF StartMoving
    <2>2. \A h \in held : h.at.dir \in Seq(Labels)
      BY <1>1, EntryFields DEF ResetTypeOK
    <2>3. \A d \in Nested : d \in Seq(Labels)
      BY <2>2 DEF Nested
    <2>4. nest' \subseteq {d \in Seq(Labels) : Len(d) > 1}
      BY <2>1, <2>3
    <2>5. NestedListed'
      <3>1. \A h \in held : \A n \in 2..Len(h.at.dir) : SubSeq(h.at.dir, 1, n) \in nest'
        <4> SUFFICES ASSUME NEW h \in held, NEW n \in 2..Len(h.at.dir) PROVE SubSeq(h.at.dir, 1, n) \in nest'
          OBVIOUS
        <4>1. h.at.dir \in Nested
          BY <2>2 DEF Nested
        <4> QED BY <2>1, <4>1
      <3> QED BY <1>1, <2>1, <3>1 DEF NestedListed, Cleared
    <2>6. ResetTypeOK' /\ Spared'
      BY <1>1, <2>1, <2>4 DEF ResetTypeOK, Spared
    <2> QED BY <1>1, <2>1, <2>5, <2>6 DEF ResetInv
  <1>7. CASE FinishReset
    <2>1. step = "move" /\ step' = "done" /\ nest = {} /\ UNCHANGED <<held, nest, first>>
      BY <1>7 DEF FinishReset
    <2>2. NestedListed'
      BY <1>1, <2>1 DEF NestedListed, Cleared
    <2> QED BY <1>1, <2>1, <2>2 DEF ResetInv, ResetTypeOK, Spared
  <1>8. CASE UNCHANGED resetVars
    <2>1. UNCHANGED <<held, step, nest, first>>
      BY <1>8 DEF resetVars
    <2>2. NestedListed' /\ Spared' /\ ResetTypeOK'
      BY <1>1, <2>1 DEF NestedListed, Spared, ResetTypeOK, Cleared
    <2> QED BY <1>1, <2>1, <2>2 DEF ResetInv
  <1> QED BY <1>3, <1>4, <1>5, <1>6, <1>7, <1>8, MoveKeeps DEF ResetNext

\* The inductive invariant: what a run has still to move is on its list, and what
\* cannot be written again is there.
THEOREM ResetInvariant == ResetSpec => []ResetInv
  BY ResetInitially, ResetKept, PTL DEF ResetSpec

\* A reset loses nothing that the transcripts cannot bring back, under whatever
\* name it ends and wherever a run of it is killed; and one that ends leaves no
\* project inside another (merged_into, derived).
THEOREM ResetsAreSafe == ResetSpec => []ResetIsSafe
  <1> SUFFICES ResetInv => ResetIsSafe
    BY ResetInvariant, PTL
  <1> SUFFICES ASSUME ResetInv PROVE ResetIsSafe
    OBVIOUS
  <1>1. MemoriesKept
    BY DEF ResetInv, Spared, MemoriesKept
  <1>2. EndsFlat
    <2> SUFFICES ASSUME step = "done", NEW h \in held PROVE h.at.part \notin Cleared /\ Len(h.at.dir) = 1
      BY DEF EndsFlat
    <2>1. h.at.dir \in Seq(Labels) /\ h.at.dir # <<>>
      BY EntryFields DEF ResetInv, ResetTypeOK
    <2>2. h.at.part \notin Cleared /\ \A n \in 2..Len(h.at.dir) : SubSeq(h.at.dir, 1, n) \in nest
      BY DEF ResetInv, NestedListed
    <2>3. nest = {}
      BY DEF ResetInv
    <2>4. ASSUME Len(h.at.dir) > 1 PROVE FALSE
      <3>1. 2 \in 2..Len(h.at.dir)
        BY <2>1, <2>4
      <3> QED BY <2>2, <2>3, <3>1
    <2>5. Len(h.at.dir) \in Nat /\ Len(h.at.dir) # 0
      BY <2>1
    <2>6. Len(h.at.dir) = 1
      <3> DEFINE n == Len(h.at.dir)
      <3>1. n \in Nat /\ n # 0 /\ ~(n > 1)
        BY <2>4, <2>5
      <3> HIDE DEF n
      <3>2. n = 1
        BY <3>1
      <3> QED BY <3>2 DEF n
    <2> QED BY <2>2, <2>6
  <1> QED BY <1>1, <1>2 DEF ResetIsSafe

-----------------------------------------------------------------------------
Paths == Projects \X Nat
Note  == [path: Paths, holds: SUBSET Requests]

Filings == [phase: {"none", "claimed", "planned", "written"}, place: [Requests -> Projects \cup {NoProject}],
            home: Projects \cup {NoProject}, path: Paths \cup {NoPath}, locked: BOOLEAN, alone: BOOLEAN]
Commands == [step: {"none", "relocate", "relink", "clear", "redirect", "erase"}, from: Projects \cup {NoProject},
             to: Projects \cup {NoProject}, old: Paths \cup {NoPath}, moved: SUBSET (Paths \X Paths)]

FilingTypeOK ==
    /\ notes \subseteq Note /\ filedUnder \in Projects /\ notePath \in Paths \cup {NoPath}
    /\ pins \in [Requests \cup {0} -> Projects \cup {NoProject}]
    /\ aliasOf \in [Projects -> Projects \cup {NoProject}]
    /\ filing \in Filings /\ command \in Commands
    /\ decided \in BOOLEAN /\ erased \in BOOLEAN /\ settled \in BOOLEAN /\ swallowed \in BOOLEAN

\* Every request is in one note.
Once(written) == \A r \in Requests : \E n \in written : \A m \in written : r \in m.holds <=> m = n

\* What a command is about, and what it cannot meet: a summary with which
\* nothing came between has no command beside it.
UnderWay ==
    /\ command.step \in {"clear", "redirect"} => command.to \in Projects /\ MergesInto(command.from, command.to)
    /\ command.step = "relocate" => command.to \in Live /\ command.old \in Paths
    /\ filing.phase # "none" /\ filing.alone => command.step = "none"

\* While the decision stands nobody is about to write notes.
DecisionStands ==
    /\ filing.phase = "planned" => filing.locked
    /\ decided => filing.phase \in {"none", "written"}
    /\ command.step = "erase" => decided
    /\ erased => decided /\ notes = {}

PinsKept(r) == PinsOn(r) # {} => \E n \in notes : r \in n.holds /\ n.path[1] \in {Resolved(p) : p \in PinsOn(r)}

\* What a summary has planned and written while nothing came between.
PlanStands ==
    /\ filing.phase = "planned" => filing.place \in [Requests -> Projects]
    /\ filing.phase = "planned" /\ filing.alone => filing.place \in [Requests -> Live] /\ Obeys(filing.place)
    /\ filing.phase = "written" /\ filing.alone =>
           /\ Once(notes) /\ filing.path \in Occupied
           /\ \A n \in notes : n.path[1] \in Live
           /\ \A r \in Requests : PinsKept(r)

\* Where notes may be: a merge has emptied its source, and its target will be
\* the name of a project when the aliases are redirected.
NotePlaces == IF command.step \in {"clear", "redirect"} THEN (Live \cup {command.to}) \ {command.from} ELSE Live

\* From a settled summary to the next that writes, through the steps of commands:
\* the row is about to follow the file.
InPlace ==
    settled /\ filing.phase # "written" =>
        /\ notes # {} /\ ~swallowed => Once(notes)
        /\ \A n \in notes : n.path[1] \in NotePlaces
        /\ (IF command.step \in {"clear", "redirect", "relink"} THEN Renamed(notePath) ELSE notePath) \in Occupied \cup {NoPath}
        /\ command.step = "erase" => notePath = NoPath

FilingInv == FilingTypeOK /\ UnderWay /\ DecisionStands /\ PlanStands /\ InPlace

-----------------------------------------------------------------------------
LEMMA FilingFields ==
  ASSUME NEW f \in Filings
  PROVE  /\ f.phase \in {"none", "claimed", "planned", "written"} /\ f.path \in Paths \cup {NoPath}
         /\ f.place \in [Requests -> Projects \cup {NoProject}] /\ f.home \in Projects \cup {NoProject}
         /\ f.locked \in BOOLEAN /\ f.alone \in BOOLEAN
  BY DEF Filings

LEMMA CommandFields ==
  ASSUME NEW c \in Commands
  PROVE  /\ c.step \in {"none", "relocate", "relink", "clear", "redirect", "erase"}
         /\ c.from \in Projects \cup {NoProject} /\ c.to \in Projects \cup {NoProject}
         /\ c.old \in Paths \cup {NoPath} /\ c.moved \subseteq Paths \X Paths
  BY DEF Commands

LEMMA NobodyBusy ==
  /\ NoFiling \in Filings /\ NoFiling.phase = "none" /\ NoFiling.path = NoPath
  /\ NoCommand \in Commands /\ NoCommand.step = "none"
  BY DEF NoFiling, Filings, NoCommand, Commands

LEMMA NoPathIsNone == NoPath \notin Paths /\ NoPath[1] = NoProject /\ NoPath[1] \notin Projects
  BY NoProjectAssumption DEF NoPath, Paths

LEMMA PathParts ==
  ASSUME NEW p \in Paths
  PROVE  p = <<p[1], p[2]>> /\ p[1] \in Projects /\ p[2] \in Nat
  BY DEF Paths

LEMMA NoteFields == ASSUME NEW n \in Note PROVE n.path \in Paths /\ n.holds \subseteq Requests
  BY DEF Note

\* Notes that go elsewhere keep their requests.
LEMMA OnceMoved ==
  ASSUME NEW written, NEW L \in SUBSET written, NEW f, NEW after,
         Once(written), \A n \in L : f[n].holds = n.holds,
         \A m : m \in after <=> m \in written \ L \/ \E n \in L : m = f[n]
  PROVE  Once(after)
  <1> SUFFICES ASSUME NEW r \in Requests
               PROVE  \E n \in after :
                         \A m \in after : r \in m.holds <=> m = n
    BY DEF Once
  <1>1. PICK n \in written : \A m \in written : r \in m.holds <=> m = n
    BY DEF Once
  <1>2. CASE n \in L
    <2>1. \A m \in after : r \in m.holds <=> m = f[n]
      BY <1>1, <1>2
    <2> QED BY <1>2, <2>1
  <1>3. CASE n \notin L
    <2>1. \A m \in after : r \in m.holds <=> m = n
      BY <1>1, <1>3
    <2> QED BY <1>3, <2>1
  <1> QED BY <1>2, <1>3

LEMMA RenamedIs ==
  ASSUME NEW path \in Paths \cup {NoPath}, command \in Commands
  PROVE  /\ Renamed(path) \in Paths \cup {NoPath}
         /\ (\E m \in command.moved : m[1] = path) => \E m \in command.moved : m[1] = path /\ Renamed(path) = m[2]
         /\ (\A m \in command.moved : m[1] # path) => Renamed(path) = path
  <1>1. command.moved \subseteq Paths \X Paths
    BY CommandFields
  <1> QED BY <1>1 DEF Renamed

-----------------------------------------------------------------------------
\* What a step of a command does to a summary: it is not undisturbed any more.
LEMMA DoesThat ==
  ASSUME FilingTypeOK, NEW now, NEW next, Does(now, next)
  PROVE  /\ command.step = now /\ command' = next /\ settled' = settled
         /\ filing' \in Filings /\ filing'.phase = filing.phase /\ filing'.place = filing.place
         /\ filing'.locked = filing.locked /\ filing'.path = filing.path
         /\ filing'.phase # "none" => ~filing'.alone
  <1>1. filing \in Filings
    BY DEF FilingTypeOK
  <1> QED BY <1>1 DEF Does, Filings

\* What is left to show of such a step.
LEMMA ByCommand ==
  ASSUME FilingInv, NEW now, NEW next, Does(now, next),
         next \in Commands, next.step # "erase",
         notes' \subseteq Note, filedUnder' \in Projects, notePath' \in Paths \cup {NoPath},
         pins' \in [Requests \cup {0} -> Projects \cup {NoProject}],
         aliasOf' \in [Projects -> Projects \cup {NoProject}],
         erased' \in BOOLEAN, swallowed' \in BOOLEAN, UNCHANGED decided,
         next.step \in {"clear", "redirect"} =>
             /\ next.from \in Live' /\ next.to \in Projects /\ next.from # next.to
             /\ next.to \in Live' \/ aliasOf'[next.to] = next.from,
         next.step = "relocate" => next.to \in Live' /\ next.old \in Paths,
         erased' => decided /\ notes' = {},
         settled /\ filing.phase # "written" => InPlace'
  PROVE  FilingInv'
  <1>1. FilingTypeOK /\ DecisionStands /\ PlanStands
    BY DEF FilingInv
  <1>2. /\ command' = next /\ settled' = settled
        /\ filing' \in Filings /\ filing'.phase = filing.phase /\ filing'.place = filing.place
        /\ filing'.locked = filing.locked
        /\ filing'.phase # "none" => ~filing'.alone
    BY <1>1, DoesThat
  <1>3. FilingTypeOK'
    BY <1>1, <1>2 DEF FilingTypeOK
  <1>4. UnderWay'
    BY <1>2 DEF UnderWay, MergesInto
  <1>5. DecisionStands'
    BY <1>1, <1>2 DEF DecisionStands
  <1>6. PlanStands'
    BY <1>1, <1>2 DEF PlanStands
  <1>7. InPlace'
    BY <1>2 DEF InPlace, NotePlaces
  <1> QED BY <1>3, <1>4, <1>5, <1>6, <1>7 DEF FilingInv

-----------------------------------------------------------------------------
(* The summary.                                                            *)

LEMMA ClaimKeeps == ASSUME FilingInv, Claim PROVE FilingInv'
  <1>1. FilingTypeOK /\ UnderWay /\ DecisionStands /\ PlanStands /\ InPlace
    BY DEF FilingInv
  <1>2. /\ filing.phase = "none" /\ ~decided
        /\ UNCHANGED <<notes, notePath, filedUnder, pins, aliasOf, command, commands, decided, erased, settled, swallowed>>
    BY DEF Claim, projectVars
  <1>3. /\ filing' \in Filings /\ filing'.phase = "claimed" /\ (filing'.alone => command.step = "none")
    BY NobodyBusy DEF Claim, Filings
  <1>4. FilingTypeOK' /\ UnderWay' /\ DecisionStands' /\ PlanStands'
    BY <1>1, <1>2, <1>3 DEF FilingTypeOK, UnderWay, DecisionStands, PlanStands, Live, MergesInto
  <1>5. InPlace'
    BY <1>1, <1>2, <1>3 DEF InPlace, NotePlaces, Once, Live, Occupied, Renamed
  <1> QED BY <1>4, <1>5 DEF FilingInv

LEMMA PlanKeeps == ASSUME FilingInv, Plan PROVE FilingInv'
  <1>1. FilingTypeOK /\ UnderWay /\ DecisionStands /\ PlanStands /\ InPlace /\ filing \in Filings
    BY DEF FilingInv, FilingTypeOK
  <1>2. /\ filing.phase = "claimed"
        /\ UNCHANGED <<notes, notePath, filedUnder, pins, aliasOf, command, commands, decided, erased, settled, swallowed>>
    BY DEF Plan, projectVars
  <1>3. PICK place \in [Requests -> Live] :
          /\ Obeys(place)
          /\ filing' = [filing EXCEPT !.phase = "planned", !.place = place, !.locked = TRUE,
                           !.home = IF pins[0] # NoProject THEN pins[0] ELSE Resolved(filedUnder)]
    BY DEF Plan
  <1>4. (IF pins[0] # NoProject THEN pins[0] ELSE Resolved(filedUnder)) \in Projects \cup {NoProject}
    BY <1>1 DEF FilingTypeOK, Resolved
  <1>5. place \in [Requests -> Projects] /\ place \in [Requests -> Projects \cup {NoProject}]
    BY <1>3 DEF Live
  <1>6. /\ filing' \in Filings /\ filing'.phase = "planned" /\ filing'.place = place /\ filing'.locked
        /\ (filing'.alone <=> filing.alone)
    BY <1>1, <1>3, <1>4, <1>5 DEF Filings
  <1>7. FilingTypeOK' /\ UnderWay' /\ DecisionStands'
    BY <1>1, <1>2, <1>6 DEF FilingTypeOK, UnderWay, DecisionStands, Live, MergesInto
  <1>8. PlanStands'
    <2>1. Obeys(place)' /\ Live' = Live
      BY <1>2, <1>3 DEF Obeys, PinsOn, Resolved, Live
    <2>2. filing'.place \in [Requests -> Live'] /\ Obeys(filing.place)'
      BY <1>2, <1>3, <1>6, <2>1 DEF Obeys, PinsOn, Resolved
    <2> QED BY <1>3, <1>5, <1>6, <2>1, <2>2 DEF PlanStands
  <1>9. InPlace'
    BY <1>1, <1>2, <1>6 DEF InPlace, NotePlaces, Once, Live, Occupied, Renamed
  <1> QED BY <1>7, <1>8, <1>9 DEF FilingInv

LEMMA WriteNotesKeeps == ASSUME FilingInv, NEW absorbs \in BOOLEAN, WriteNotes(absorbs) PROVE FilingInv'
  <1> DEFINE groups  == {filing.place[r] : r \in Requests}
             path(p) == IF p = filing.home /\ notePath[1] = p THEN notePath ELSE <<p, 1>>
             note(p) == [path |-> path(p), holds |-> {r \in Requests : filing.place[r] = p}]
             written == {note(p) : p \in groups}
  <1>1. FilingTypeOK /\ UnderWay /\ DecisionStands /\ PlanStands /\ filing \in Filings
    BY DEF FilingInv, FilingTypeOK
  <1>2. /\ filing.phase = "planned" /\ notes' = written /\ swallowed' = FALSE
        /\ UNCHANGED <<notePath, filedUnder, pins, aliasOf, command, commands, decided, erased, settled>>
    BY DEF WriteNotes, WithoutOthers, projectVars
  <1>3. PICK n \in written : filing' = [filing EXCEPT !.phase = "written", !.path = n.path, !.locked = ~absorbs]
    BY DEF WriteNotes
  <1>4. filing.place \in [Requests -> Projects] /\ groups \subseteq Projects
    BY <1>1, <1>2 DEF PlanStands
  <1>5. ASSUME NEW p \in groups PROVE path(p) \in Paths /\ path(p)[1] = p
    <2>1. notePath \in Paths \cup {NoPath} /\ p \in Projects
      BY <1>1, <1>4 DEF FilingTypeOK
    <2>2. <<p, 1>> \in Paths /\ <<p, 1>>[1] = p
      BY <2>1 DEF Paths
    <2>3. notePath[1] = p => notePath \in Paths
      BY <2>1, NoPathIsNone
    <2> QED BY <2>2, <2>3
  <1> HIDE DEF path
  <1>6. \A p \in groups : /\ note(p) \in Note /\ note(p).path = path(p)
                          /\ note(p).holds = {r \in Requests : filing.place[r] = p}
    BY <1>5 DEF Note
  <1> HIDE DEF note
  <1>7. written \subseteq Note /\ n.path \in Paths
    BY <1>5, <1>6
  <1>8. /\ filing' \in Filings /\ filing'.phase = "written" /\ filing'.path = n.path
        /\ (filing'.alone <=> filing.alone)
    BY <1>1, <1>3, <1>7 DEF Filings
  <1>9. FilingTypeOK' /\ UnderWay' /\ DecisionStands' /\ InPlace'
    BY <1>1, <1>2, <1>7, <1>8 DEF FilingTypeOK, UnderWay, DecisionStands, InPlace, NotePlaces, Live, MergesInto
  <1>10. Once(written)
    <2> SUFFICES ASSUME NEW r \in Requests PROVE \E x \in written : \A m \in written : r \in m.holds <=> m = x
      BY DEF Once
    <2>1. filing.place[r] \in groups /\ \A p \in groups : r \in note(p).holds <=> p = filing.place[r]
      BY <1>6
    <2> QED BY <2>1
  <1>11. ASSUME filing.alone PROVE filing'.path \in Occupied' /\ (\A m \in notes' : m.path[1] \in Live')
    <2>1. groups \subseteq Live /\ Live' = Live
      BY <1>1, <1>2, <1>11 DEF PlanStands, Live
    <2>2. \A m \in written : m.path[1] \in Live
      BY <1>5, <1>6, <2>1
    <2> QED BY <1>2, <1>8, <2>1, <2>2 DEF Occupied
  <1>12. ASSUME filing.alone, NEW r \in Requests PROVE PinsKept(r)'
    <2>1. Obeys(filing.place)
      BY <1>1, <1>2, <1>12 DEF PlanStands
    <2>2. filing.place[r] \in groups
      OBVIOUS
    <2>3. r \in note(filing.place[r]).holds /\ note(filing.place[r]).path[1] = filing.place[r]
      BY <1>5, <1>6, <2>2
    <2>4. note(filing.place[r]) \in notes'
      BY <1>2, <2>2
    <2> QED BY <1>2, <2>1, <2>3, <2>4 DEF PinsKept, Obeys, PinsOn, Resolved
  <1>13. PlanStands'
    BY <1>2, <1>8, <1>10, <1>11, <1>12 DEF PlanStands
  <1> QED BY <1>9, <1>13 DEF FilingInv

LEMMA SaveJobKeeps == ASSUME FilingInv, SaveJob PROVE FilingInv'
  <1>1. FilingTypeOK /\ UnderWay /\ DecisionStands /\ PlanStands /\ filing \in Filings
    BY DEF FilingInv, FilingTypeOK
  <1>2. /\ filing.phase = "written" /\ notePath' = filing.path /\ (settled' <=> filing.alone) /\ filing' = NoFiling
        /\ UNCHANGED <<notes, filedUnder, pins, aliasOf, command, commands, decided, erased, swallowed>>
    BY DEF SaveJob, projectVars
  <1>3. filing' \in Filings /\ filing'.phase = "none"
    BY <1>2, NobodyBusy
  <1>4. settled' \in BOOLEAN /\ notePath' \in Paths \cup {NoPath}
    BY <1>1, <1>2, FilingFields DEF SaveJob
  <1>5. FilingTypeOK' /\ UnderWay' /\ DecisionStands' /\ PlanStands'
    BY <1>1, <1>2, <1>3, <1>4 DEF FilingTypeOK, UnderWay, DecisionStands, PlanStands, Live, MergesInto
  <1>6. ASSUME filing.alone PROVE InPlace'
    <2>1. command'.step = "none" /\ Once(notes) /\ filing.path \in Occupied /\ \A n \in notes : n.path[1] \in Live
      BY <1>1, <1>2, <1>6 DEF UnderWay, PlanStands
    <2> QED BY <1>2, <2>1 DEF InPlace, NotePlaces, Occupied, Live, Once
  <1> QED BY <1>2, <1>5, <1>6 DEF FilingInv, InPlace, NotePlaces

LEMMA RestartKeeps == ASSUME FilingInv, Restart PROVE FilingInv'
  <1>1. FilingTypeOK /\ DecisionStands
    BY DEF FilingInv
  <1>2. /\ filing' = NoFiling /\ command' = NoCommand /\ settled' = FALSE
        /\ UNCHANGED <<notes, notePath, filedUnder, pins, aliasOf, commands, decided, erased, swallowed>>
    BY DEF Restart, projectVars
  <1>3. filing' \in Filings /\ filing'.phase = "none" /\ command' \in Commands /\ command'.step = "none"
    BY <1>2, NobodyBusy
  <1> QED BY <1>1, <1>2, <1>3 DEF FilingInv, FilingTypeOK, UnderWay, DecisionStands, PlanStands, InPlace, NotePlaces

-----------------------------------------------------------------------------
(* The owner.                                                              *)

\* What no command has changed the notes for.
LEMMA AsBefore ==
  ASSUME InPlace, settled, filing.phase # "written", UNCHANGED <<notes, swallowed, notePath, aliasOf>>,
         command.step \in {"none", "relocate"}, command'.step \in {"none", "relocate"}
  PROVE  InPlace'
  BY DEF InPlace, NotePlaces, Once, Occupied, Live

LEMMA FreeCommand ==
  ASSUME FilingInv, NEW next, Orders(next)
  PROVE  Does("none", next) /\ command.step = "none" /\ command' = next
  BY DEF Orders, Does

LEMMA PinKeeps ==
  ASSUME FilingInv, NEW r \in Requests \cup {0}, NEW p \in Projects, PinRequest(r, p) \/ Unpin(r)
  PROVE  FilingInv'
  <1>1. FilingTypeOK /\ DecisionStands /\ InPlace
    BY DEF FilingInv
  <1>2. /\ Orders(NoCommand) /\ UNCHANGED <<notes, notePath, filedUnder, aliasOf, decided, erased, swallowed>>
        /\ pins' = [pins EXCEPT ![r] = p] \/ pins' = [pins EXCEPT ![r] = NoProject]
    BY DEF PinRequest, Unpin
  <1>3. Does("none", NoCommand) /\ command.step = "none" /\ command' = NoCommand
    BY <1>2, FreeCommand
  <1>4. pins' \in [Requests \cup {0} -> Projects \cup {NoProject}]
    BY <1>1, <1>2 DEF FilingTypeOK
  <1>5. settled /\ filing.phase # "written" => InPlace'
    BY <1>1, <1>2, <1>3, NobodyBusy, AsBefore
  <1>6. erased' => decided /\ notes' = {}
    BY <1>1, <1>2 DEF DecisionStands
  <1>7. /\ notes' \subseteq Note /\ filedUnder' \in Projects /\ notePath' \in Paths \cup {NoPath}
        /\ aliasOf' \in [Projects -> Projects \cup {NoProject}] /\ erased' \in BOOLEAN /\ swallowed' \in BOOLEAN
    BY <1>1, <1>2 DEF FilingTypeOK
  <1> QED BY <1>2, <1>3, <1>4, <1>5, <1>6, <1>7, NobodyBusy, ByCommand

LEMMA MoveNoteKeeps ==
  ASSUME FilingInv, NEW n \in notes, NEW p \in Projects, MoveNote(n, p)
  PROVE  FilingInv'
  <1> DEFINE next == IF n.path[1] = p THEN NoCommand
                     ELSE [NoCommand EXCEPT !.step = "relocate", !.to = p, !.old = n.path]
  <1>1. FilingTypeOK /\ DecisionStands /\ InPlace /\ n.path \in Paths
    BY NoteFields DEF FilingInv, FilingTypeOK
  <1>2. /\ p \in Live /\ Orders(next) /\ pins' = [pins EXCEPT ![0] = p]
        /\ UNCHANGED <<notes, notePath, filedUnder, aliasOf, decided, erased, swallowed>>
    BY DEF MoveNote, Nameable
  <1>3. /\ next \in Commands /\ next.step \in {"none", "relocate"}
        /\ next.step = "relocate" => next.to = p /\ next.old = n.path
    BY <1>1, NobodyBusy DEF Commands
  <1> HIDE DEF next
  <1>4. Does("none", next) /\ command.step = "none" /\ command' = next
    BY <1>2, FreeCommand
  <1>5. pins' \in [Requests \cup {0} -> Projects \cup {NoProject}]
    BY <1>1, <1>2 DEF FilingTypeOK
  <1>6. settled /\ filing.phase # "written" => InPlace'
    BY <1>1, <1>2, <1>3, <1>4, AsBefore
  <1>7. (erased' => decided /\ notes' = {}) /\ Live' = Live
    BY <1>1, <1>2 DEF DecisionStands, Live
  <1>8. /\ notes' \subseteq Note /\ filedUnder' \in Projects /\ notePath' \in Paths \cup {NoPath}
        /\ aliasOf' \in [Projects -> Projects \cup {NoProject}] /\ erased' \in BOOLEAN /\ swallowed' \in BOOLEAN
    BY <1>1, <1>2 DEF FilingTypeOK
  <1> QED BY <1>1, <1>2, <1>3, <1>4, <1>5, <1>6, <1>7, <1>8, ByCommand

LEMMA AllowKeeps == ASSUME FilingInv, Allow PROVE FilingInv'
  <1>1. FilingTypeOK /\ UnderWay /\ DecisionStands /\ PlanStands /\ InPlace
    BY DEF FilingInv
  <1>2. /\ Orders(NoCommand) /\ decided' = FALSE /\ erased' = FALSE
        /\ UNCHANGED <<notes, notePath, filedUnder, pins, aliasOf, swallowed>>
    BY DEF Allow, projectVars
  <1>3. Does("none", NoCommand) /\ command.step = "none" /\ command' = NoCommand
    BY <1>2, FreeCommand
  <1>4. /\ settled' = settled /\ filing' \in Filings /\ filing'.phase = filing.phase
        /\ filing'.place = filing.place /\ filing'.locked = filing.locked
        /\ filing'.phase # "none" => ~filing'.alone
    BY <1>1, <1>3, DoesThat
  <1>5. FilingTypeOK' /\ UnderWay' /\ DecisionStands' /\ PlanStands'
    BY <1>1, <1>2, <1>3, <1>4, NobodyBusy DEF FilingTypeOK, UnderWay, DecisionStands, PlanStands
  <1>6. settled /\ filing.phase # "written" => InPlace'
    BY <1>1, <1>2, <1>3, NobodyBusy, AsBefore
  <1> QED BY <1>4, <1>5, <1>6 DEF FilingInv, InPlace, NotePlaces

LEMMA ForgetKeeps == ASSUME FilingInv, Forget PROVE FilingInv'
  <1>1. FilingTypeOK /\ UnderWay /\ DecisionStands /\ PlanStands /\ InPlace /\ filing \in Filings
    BY DEF FilingInv, FilingTypeOK
  <1>2. /\ ~filing.locked /\ command.step = "none" /\ command' = [NoCommand EXCEPT !.step = "erase"]
        /\ filing' = ClaimBack /\ decided' = TRUE /\ notePath' = NoPath
        /\ UNCHANGED <<notes, filedUnder, pins, aliasOf, erased, settled, swallowed>>
    BY DEF Forget, projectVars
  <1>3. command' \in Commands /\ command'.step = "erase"
    BY <1>2, NobodyBusy DEF Commands
  <1>4. /\ filing' \in Filings /\ filing'.phase \in {"none", "written"}
        /\ filing'.phase = "written" => filing.phase = "written" /\ ~filing'.alone
    <2>1. CASE filing.phase = "claimed"
      BY <1>2, <2>1, NobodyBusy DEF ClaimBack
    <2>2. CASE filing.phase # "claimed"
      <3>1. filing.phase \in {"none", "written"}
        BY <1>1, <1>2, <2>2, FilingFields DEF DecisionStands
      <3> QED BY <1>1, <1>2, <2>2, <3>1 DEF ClaimBack, Filings
    <2> QED BY <2>1, <2>2
  <1>5. FilingTypeOK' /\ UnderWay' /\ DecisionStands' /\ PlanStands'
    BY <1>1, <1>2, <1>3, <1>4 DEF FilingTypeOK, UnderWay, DecisionStands, PlanStands
  <1>6. ASSUME settled, filing'.phase # "written" PROVE InPlace'
    <2>1. filing.phase # "written"
      <3> SUFFICES ASSUME filing.phase = "written" PROVE FALSE
        OBVIOUS
      <3>1. filing'.phase = "written"
        BY <1>1, <1>2 DEF ClaimBack, Filings
      <3> QED BY <1>6, <3>1
    <2> QED BY <1>1, <1>2, <1>3, <1>6, <2>1 DEF InPlace, NotePlaces, Once, Live, Occupied
  <1> QED BY <1>2, <1>5, <1>6 DEF FilingInv, InPlace, NotePlaces

LEMMA EraseKeeps == ASSUME FilingInv, Erase PROVE FilingInv'
  <1>1. FilingTypeOK /\ UnderWay /\ DecisionStands /\ PlanStands /\ InPlace
    BY DEF FilingInv
  <1>2. /\ notes' = {} /\ erased' = TRUE /\ Does("erase", NoCommand)
        /\ UNCHANGED <<notePath, filedUnder, pins, aliasOf, decided, swallowed>>
    BY DEF Erase, projectVars
  <1>3. command.step = "erase" /\ command' = NoCommand
    BY <1>2 DEF Does
  <1>4. decided /\ (settled /\ filing.phase # "written" => notePath = NoPath)
    BY <1>1, <1>3 DEF DecisionStands, InPlace, NotePlaces
  <1>5. settled /\ filing.phase # "written" => InPlace'
    BY <1>2, <1>3, <1>4, NobodyBusy DEF InPlace, NotePlaces
  <1>6. /\ notes' \subseteq Note /\ filedUnder' \in Projects /\ notePath' \in Paths \cup {NoPath}
        /\ pins' \in [Requests \cup {0} -> Projects \cup {NoProject}]
        /\ aliasOf' \in [Projects -> Projects \cup {NoProject}] /\ erased' \in BOOLEAN /\ swallowed' \in BOOLEAN
    BY <1>1, <1>2 DEF FilingTypeOK
  <1> QED BY <1>2, <1>4, <1>5, <1>6, NobodyBusy, ByCommand

LEMMA RelinkKeeps == ASSUME FilingInv, Relink PROVE FilingInv'
  <1>1. FilingTypeOK /\ DecisionStands /\ InPlace
    BY DEF FilingInv
  <1>2. /\ notePath' = Renamed(notePath) /\ Does("relink", NoCommand)
        /\ UNCHANGED <<notes, filedUnder, pins, aliasOf, decided, erased, swallowed>>
    BY DEF Relink, projectVars
  <1>3. command.step = "relink" /\ command' = NoCommand
    BY <1>2 DEF Does
  <1>4. notePath' \in Paths \cup {NoPath}
    BY <1>1, <1>2, RenamedIs DEF FilingTypeOK
  <1>5. settled /\ filing.phase # "written" => InPlace'
    BY <1>1, <1>2, <1>3, NobodyBusy DEF InPlace, NotePlaces, Once, Occupied, Live
  <1>6. /\ notes' \subseteq Note /\ filedUnder' \in Projects
        /\ pins' \in [Requests \cup {0} -> Projects \cup {NoProject}]
        /\ aliasOf' \in [Projects -> Projects \cup {NoProject}] /\ erased' \in BOOLEAN /\ swallowed' \in BOOLEAN
        /\ erased' => decided /\ notes' = {}
    BY <1>1, <1>2 DEF FilingTypeOK, DecisionStands
  <1> QED BY <1>2, <1>4, <1>5, <1>6, NobodyBusy, ByCommand

LEMMA ClearSourceKeeps == ASSUME FilingInv, ClearSource PROVE FilingInv'
  <1> DEFINE next == [command EXCEPT !.step = "redirect"]
  <1>1. FilingTypeOK /\ UnderWay /\ DecisionStands /\ InPlace /\ command \in Commands
    BY DEF FilingInv, FilingTypeOK
  <1>2. /\ notes' = {n \in notes : n.path[1] # command.from} /\ Does("clear", next)
        /\ UNCHANGED <<notePath, filedUnder, pins, aliasOf, decided, erased, swallowed>>
    BY DEF ClearSource, projectVars
  <1>3. /\ next \in Commands /\ next.step = "redirect" /\ next.moved = command.moved
        /\ next.from = command.from /\ next.to = command.to
    BY <1>1 DEF Commands
  <1> HIDE DEF next
  <1>4. command.step = "clear" /\ command' = next
    BY <1>2 DEF Does
  <1>5. /\ command.from \in Live /\ command.to \in Projects /\ command.from # command.to /\ Live' = Live
        /\ command.to \in Live \/ aliasOf[command.to] = command.from
    BY <1>1, <1>2, <1>4 DEF UnderWay, Live, MergesInto
  <1>6. ASSUME settled, filing.phase # "written" PROVE InPlace'
    <2>1. notes' = notes
      BY <1>1, <1>2, <1>4, <1>6 DEF InPlace, NotePlaces
    <2>2. Renamed(notePath)' = Renamed(notePath)
      BY <1>2, <1>3, <1>4 DEF Renamed
    <2> QED BY <1>1, <1>2, <1>3, <1>4, <1>5, <1>6, <2>1, <2>2 DEF InPlace, NotePlaces, Once, Occupied
  <1>7. /\ notes' \subseteq Note /\ filedUnder' \in Projects /\ notePath' \in Paths \cup {NoPath}
        /\ pins' \in [Requests \cup {0} -> Projects \cup {NoProject}]
        /\ aliasOf' \in [Projects -> Projects \cup {NoProject}] /\ erased' \in BOOLEAN /\ swallowed' \in BOOLEAN
        /\ erased' => decided /\ notes' = {}
    BY <1>1, <1>2 DEF FilingTypeOK, DecisionStands
  <1> QED BY <1>2, <1>3, <1>5, <1>6, <1>7, ByCommand

LEMMA RedirectKeeps == ASSUME FilingInv, RedirectAliases PROVE FilingInv'
  <1> DEFINE from == command.from
             to   == command.to
             next == [command EXCEPT !.step = "relink"]
  <1>1. FilingTypeOK /\ UnderWay /\ DecisionStands /\ InPlace /\ command \in Commands
    BY DEF FilingInv, FilingTypeOK
  <1>2. /\ aliasOf' = [p \in Projects |-> IF p = to THEN NoProject
                                          ELSE IF p = from \/ aliasOf[p] = from THEN to ELSE aliasOf[p]]
        /\ pins' = [r \in DOMAIN pins |-> IF pins[r] = from THEN to ELSE pins[r]]
        /\ filedUnder' = IF filedUnder = from THEN to ELSE filedUnder
        /\ Does("redirect", next) /\ UNCHANGED <<notes, notePath, decided, erased, swallowed>>
    BY DEF RedirectAliases
  <1>3. next \in Commands /\ next.step = "relink" /\ next.moved = command.moved
    BY <1>1 DEF Commands
  <1> HIDE DEF next
  <1>4. command.step = "redirect" /\ command' = next
    BY <1>2 DEF Does
  <1>5. from \in Live /\ to \in Projects /\ from # to
    BY <1>1, <1>4 DEF UnderWay, MergesInto
  <1>6. ASSUME settled, filing.phase # "written" PROVE InPlace'
    <2>1. \A n \in notes : n.path[1] \in (Live \cup {to}) \ {from}
      BY <1>1, <1>4, <1>6 DEF InPlace, NotePlaces
    <2>2. \A p \in (Live \cup {to}) \ {from} : p \in Live'
      BY <1>2, <1>5, NoProjectAssumption DEF Live
    <2>3. Renamed(notePath)' = Renamed(notePath)
      BY <1>2, <1>3, <1>4 DEF Renamed
    <2> QED BY <1>1, <1>2, <1>3, <1>4, <1>6, <2>1, <2>2, <2>3 DEF InPlace, NotePlaces, Once, Occupied
  <1>7. /\ notes' \subseteq Note /\ filedUnder' \in Projects /\ notePath' \in Paths \cup {NoPath}
        /\ pins' \in [Requests \cup {0} -> Projects \cup {NoProject}]
        /\ aliasOf' \in [Projects -> Projects \cup {NoProject}] /\ erased' \in BOOLEAN /\ swallowed' \in BOOLEAN
        /\ erased' => decided /\ notes' = {}
    BY <1>1, <1>2, <1>5 DEF FilingTypeOK, DecisionStands, Live
  <1> QED BY <1>2, <1>3, <1>6, <1>7, ByCommand

\* A file that is written over another is the one case in which a request may be
\* lost; the job follows the file in the next step.
LEMMA RelocateKeeps == ASSUME FilingInv, Relocate PROVE FilingInv'
  <1> DEFINE old    == command.old
             wanted == <<command.to, old[2]>>
             moving == {n \in notes : n.path = old}
             at(n)  == [n EXCEPT !.path = wanted]
             next   == IF moving = {} THEN NoCommand ELSE [command EXCEPT !.step = "relink", !.moved = {<<old, wanted>>}]
  <1>1. FilingTypeOK /\ UnderWay /\ DecisionStands /\ InPlace /\ command \in Commands /\ notes \subseteq Note
    BY DEF FilingInv, FilingTypeOK
  <1>2. /\ notes' = {n \in notes : n.path \notin {old} \cup (IF moving = {} THEN {} ELSE {wanted})} \cup {at(n) : n \in moving}
        /\ swallowed' = (swallowed \/ (moving # {} /\ wanted \in Occupied))
        /\ Does("relocate", next)
        /\ UNCHANGED <<notePath, filedUnder, pins, aliasOf, decided, erased>>
    BY DEF Relocate, projectVars
  <1>3. command.step = "relocate" /\ command' = next /\ command.to \in Live /\ old \in Paths
    BY <1>1, <1>2 DEF Does, UnderWay
  <1>4. wanted \in Paths /\ wanted[1] = command.to
    BY <1>3, PathParts DEF Paths, Live
  <1> HIDE DEF wanted
  <1>5. \A n \in notes : at(n) \in Note /\ at(n).path = wanted /\ at(n).holds = n.holds
    BY <1>1, <1>4 DEF Note
  <1>6. /\ next \in Commands /\ next.step \in {"none", "relink"}
        /\ moving # {} => next.step = "relink" /\ next.moved = {<<old, wanted>>}
        /\ moving = {} => next.step = "none"
    <2>1. {<<old, wanted>>} \subseteq Paths \X Paths
      BY <1>3, <1>4
    <2>2. CASE moving = {}
      BY <2>2, NobodyBusy
    <2>3. CASE moving # {}
      <3> DEFINE there == {<<old, wanted>>}
      <3>1. next = [command EXCEPT !.step = "relink", !.moved = there]
        BY <2>3
      <3> HIDE DEF there, moving, next
      <3>2. next \in Commands /\ next.step = "relink" /\ next.moved = there
        BY <1>1, <2>1, <3>1 DEF Commands, there
      <3> QED BY <2>3, <3>2 DEF there
    <2> QED BY <2>2, <2>3
  <1> HIDE DEF at, next
  <1>7. ASSUME settled, filing.phase # "written" PROVE InPlace'
    <2>1. /\ notes # {} /\ ~swallowed => Once(notes)
          /\ \A n \in notes : n.path[1] \in Live
          /\ notePath \in Occupied \cup {NoPath}
      BY <1>1, <1>3, <1>7 DEF InPlace, NotePlaces
    <2>2. Live' = Live
      BY <1>2 DEF Live
    <2>3. CASE moving = {}
      <3>1. notes' = notes /\ (swallowed' <=> swallowed)
        BY <1>2, <2>3
      <3> QED BY <1>2, <1>3, <1>6, <2>1, <2>2, <2>3, <3>1 DEF InPlace, NotePlaces, Once, Occupied
    <2>4. CASE moving # {}
      <3>1. notes' = {n \in notes : n.path \notin {old, wanted}} \cup {at(n) : n \in moving}
        BY <1>2, <2>4
      <3>2. ASSUME ~swallowed' PROVE Once(notes')
        <4>1. ~swallowed /\ wanted \notin Occupied /\ notes # {}
          BY <1>2, <2>4, <3>2
        <4>2. {n \in notes : n.path \notin {old, wanted}} = notes \ moving
          BY <4>1 DEF Occupied
        <4> DEFINE f == [n \in moving |-> at(n)]
        <4>3. \A n \in moving : f[n].holds = n.holds
          BY <1>5
        <4>4. {f[n] : n \in moving} = {at(n) : n \in moving}
          OBVIOUS
        <4> HIDE DEF f
        <4>5. notes' = (notes \ moving) \cup {f[n] : n \in moving}
          BY <3>1, <4>2, <4>4
        <4>6. Once(notes) /\ moving \in SUBSET notes
          BY <2>1, <4>1
        <4> HIDE DEF moving
        <4>7. \A m : m \in notes' <=> m \in notes \ moving \/ \E n \in moving : m = f[n]
          BY <4>5
        <4> QED BY <4>3, <4>6, <4>7, OnceMoved
      <3>3. \A n \in notes' : n.path[1] \in Live'
        BY <1>3, <1>4, <1>5, <2>1, <2>2, <3>1
      <3>4. wanted \in Occupied'
        <4>1. PICK n \in moving : TRUE
          BY <2>4
        <4> QED BY <1>5, <3>1, <4>1 DEF Occupied
      <3>5. Renamed(notePath)' \in Occupied' \cup {NoPath}
        <4>1. command' \in Commands /\ notePath' \in Paths \cup {NoPath} /\ notePath' = notePath
          BY <1>1, <1>2, <1>3, <1>6 DEF FilingTypeOK
        <4>2. command'.moved = {<<old, wanted>>}
          BY <1>3, <1>6, <2>4
        <4>3. CASE notePath = old
          <5>1. <<old, wanted>> \in command'.moved /\ <<old, wanted>>[1] = notePath'
            BY <4>1, <4>2, <4>3
          <5> DEFINE chosen == CHOOSE m \in command'.moved : m[1] = notePath'
          <5>2. Renamed(notePath)' = chosen[2]
            BY <5>1 DEF Renamed
          <5>3. chosen \in command'.moved
            BY <5>1
          <5> HIDE DEF chosen
          <5>4. chosen = <<old, wanted>>
            BY <4>2, <5>3
          <5>5. Renamed(notePath)' = wanted
            BY <5>2, <5>4
          <5> QED BY <3>4, <5>5
        <4>4. CASE notePath # old
          <5>1. Renamed(notePath)' = notePath
            BY <4>1, <4>2, <4>4 DEF Renamed
          <5>2. notePath = NoPath \/ \E n \in notes : n.path = notePath
            BY <2>1 DEF Occupied
          <5>3. ASSUME NEW n \in notes, n.path = notePath PROVE notePath \in Occupied'
            <6>1. CASE notePath = wanted
              BY <3>4, <6>1
            <6>2. CASE notePath # wanted
              BY <3>1, <4>4, <5>3, <6>2 DEF Occupied
            <6> QED BY <6>1, <6>2
          <5> QED BY <5>1, <5>2, <5>3
        <4> QED BY <4>3, <4>4
      <3>6. command'.step = "relink"
        BY <1>3, <1>6, <2>4
      <3> QED BY <3>2, <3>3, <3>5, <3>6 DEF InPlace, NotePlaces
    <2> QED BY <2>3, <2>4
  <1>8. notes' \subseteq Note /\ swallowed' \in BOOLEAN
    BY <1>1, <1>2, <1>5 DEF FilingTypeOK
  <1>9. erased' => decided /\ notes' = {}
    BY <1>1, <1>2 DEF DecisionStands
  <1>10. /\ filedUnder' \in Projects /\ notePath' \in Paths \cup {NoPath}
         /\ pins' \in [Requests \cup {0} -> Projects \cup {NoProject}]
         /\ aliasOf' \in [Projects -> Projects \cup {NoProject}] /\ erased' \in BOOLEAN
    BY <1>1, <1>2 DEF FilingTypeOK
  <1> QED BY <1>2, <1>6, <1>7, <1>8, <1>9, <1>10, ByCommand

LEMMA MergeProjectsKeeps ==
  ASSUME FilingInv, NEW source \in Projects, NEW target \in Projects, MergeProjects(source, target)
  PROVE  FilingInv'
  <1> DEFINE leaving == {n \in notes : n.path[1] = source}
  <1>1. FilingTypeOK /\ DecisionStands /\ InPlace /\ notes \subseteq Note
    BY DEF FilingInv, FilingTypeOK
  <1>2. PICK copy \in [leaving -> Copies] :
          LET new(n) == <<target, copy[n]>>
              moved  == {<<n.path, new(n)>> : n \in leaving}
          IN  /\ notes' = (notes \ leaving) \cup {[n EXCEPT !.path = new(n)] : n \in leaving}
              /\ Orders([NoCommand EXCEPT !.step = "clear", !.from = source, !.to = target, !.moved = moved])
    BY DEF MergeProjects
  <1> DEFINE new(n) == <<target, copy[n]>>
             f      == [n \in leaving |-> [n EXCEPT !.path = new(n)]]
             moved  == {<<n.path, new(n)>> : n \in leaving}
             next   == [NoCommand EXCEPT !.step = "clear", !.from = source, !.to = target, !.moved = moved]
  <1>3. /\ source \in Live /\ source # target /\ (target \in Live \/ aliasOf[target] = source)
        /\ UNCHANGED <<notePath, filedUnder, pins, aliasOf, decided, erased, swallowed>>
    BY DEF MergeProjects, MergesInto, projectVars
  <1>4. notes' = (notes \ leaving) \cup {f[n] : n \in leaving} /\ Orders(next)
    BY <1>2
  <1>5. \A n \in leaving : new(n) \in Paths /\ new(n)[1] = target
    BY <1>2, CopiesAssumption DEF Paths
  <1> HIDE DEF new
  <1>6. \A n \in leaving : f[n] \in Note /\ f[n].path = new(n) /\ f[n].holds = n.holds
    BY <1>1, <1>5 DEF Note
  <1>7. moved \subseteq Paths \X Paths
    BY <1>1, <1>5, NoteFields
  <1> HIDE DEF f
  <1>8. next \in Commands /\ next.step = "clear" /\ next.from = source /\ next.to = target /\ next.moved = moved
    <2> HIDE DEF moved
    <2> QED BY <1>7, NobodyBusy DEF Commands
  <1> HIDE DEF next
  <1>9. Does("none", next) /\ command.step = "none" /\ command' = next
    BY <1>4, FreeCommand
  <1>10. Live' = Live
    BY <1>3 DEF Live
  <1>11. ASSUME settled, filing.phase # "written" PROVE InPlace'
    <2>1. /\ notes # {} /\ ~swallowed => Once(notes)
          /\ \A n \in notes : n.path[1] \in Live
          /\ notePath \in Occupied \cup {NoPath}
      BY <1>1, <1>9, <1>11 DEF InPlace, NotePlaces
    <2>2. ASSUME notes' # {}, ~swallowed' PROVE Once(notes')
      <3>1. notes # {} /\ ~swallowed
        BY <1>3, <1>4, <2>2
      <3>2. leaving \in SUBSET notes /\ \A n \in leaving : f[n].holds = n.holds
        BY <1>6
      <3> HIDE DEF leaving
      <3>3. Once(notes)
        BY <2>1, <3>1
      <3>4. \A m : m \in notes' <=> m \in notes \ leaving \/ \E n \in leaving : m = f[n]
        BY <1>4
      <3> QED BY <3>2, <3>3, <3>4, OnceMoved
    <2>3. \A n \in notes' : n.path[1] \in (Live' \cup {target}) \ {source}
      BY <1>3, <1>4, <1>5, <1>6, <1>10, <2>1
    <2>4. Renamed(notePath)' \in Occupied' \cup {NoPath}
      <3>1. command'.moved = moved /\ notePath' = notePath
        BY <1>3, <1>8, <1>9
      <3>2. CASE \E n \in leaving : n.path = notePath
        <4>1. \E m \in moved : m[1] = notePath
          <5>1. PICK n \in leaving : n.path = notePath
            BY <3>2
          <5>2. <<n.path, new(n)>> \in moved /\ <<n.path, new(n)>>[1] = notePath
            BY <5>1
          <5> QED BY <5>2
        <4>2. \E m \in moved : Renamed(notePath)' = m[2]
          BY <3>1, <4>1 DEF Renamed
        <4>3. \A m \in moved : \E n \in leaving : m[2] = f[n].path
          BY <1>6
        <4> QED BY <1>4, <4>2, <4>3 DEF Occupied
      <3>3. CASE ~ \E n \in leaving : n.path = notePath
        <4>1. ~ \E m \in moved : m[1] = notePath
          BY <3>3
        <4>2. Renamed(notePath)' = notePath
          BY <3>1, <4>1 DEF Renamed
        <4>3. notePath = NoPath \/ \E n \in notes : n.path = notePath
          BY <2>1 DEF Occupied
        <4>4. ASSUME NEW n \in notes, n.path = notePath PROVE notePath \in Occupied'
          BY <1>4, <3>3, <4>4 DEF Occupied
        <4> QED BY <4>2, <4>3, <4>4
      <3> QED BY <3>2, <3>3
    <2> QED BY <1>8, <1>9, <2>2, <2>3, <2>4 DEF InPlace, NotePlaces
  <1>12. notes' \subseteq Note
    BY <1>1, <1>4, <1>6
  <1>13. erased' => decided /\ notes' = {}
    BY <1>1, <1>3, <1>4 DEF DecisionStands
  <1>14. /\ filedUnder' \in Projects /\ notePath' \in Paths \cup {NoPath}
         /\ pins' \in [Requests \cup {0} -> Projects \cup {NoProject}]
         /\ aliasOf' \in [Projects -> Projects \cup {NoProject}] /\ erased' \in BOOLEAN /\ swallowed' \in BOOLEAN
    BY <1>1, <1>3 DEF FilingTypeOK
  <1> QED BY <1>3, <1>8, <1>9, <1>10, <1>11, <1>12, <1>13, <1>14, ByCommand

-----------------------------------------------------------------------------
LEMMA FilingInitially == FilingInit => FilingInv
  BY NobodyBusy DEF FilingInit, FilingInv, FilingTypeOK, UnderWay, DecisionStands, PlanStands, InPlace, NotePlaces

LEMMA FilingKept == FilingInv /\ [FilingNext]_filingVars => FilingInv'
  <1> SUFFICES ASSUME FilingInv, [FilingNext]_filingVars PROVE FilingInv'
    OBVIOUS
  <1>1. CASE UNCHANGED filingVars
    <2>1. UNCHANGED <<notes, notePath, filedUnder, pins, aliasOf, filing, command, decided, erased, settled, swallowed>>
      BY <1>1 DEF filingVars, projectVars
    <2>2. FilingTypeOK' /\ UnderWay' /\ DecisionStands'
      BY <2>1 DEF FilingInv, FilingTypeOK, UnderWay, DecisionStands, Live, MergesInto
    <2>3. PlanStands'
      <3>1. \A r \in Requests : PinsKept(r)' <=> PinsKept(r)
        BY <2>1 DEF PinsKept, PinsOn, Resolved
      <3>2. /\ Live' = Live /\ Occupied' = Occupied /\ Once(notes)' = Once(notes)
            /\ Obeys(filing.place)' = Obeys(filing.place)
        BY <2>1 DEF Live, Occupied, Once, Obeys, PinsOn, Resolved
      <3> QED BY <2>1, <3>1, <3>2 DEF FilingInv, PlanStands
    <2>4. InPlace'
      BY <2>1 DEF FilingInv, InPlace, NotePlaces, Once, Occupied, Live, Renamed
    <2> QED BY <2>2, <2>3, <2>4 DEF FilingInv
  <1>2. DOMAIN pins = Requests \cup {0} /\ 0 \notin Requests
    BY RequestsAssumption DEF FilingInv, FilingTypeOK
  <1>3. ASSUME NEW r \in DOMAIN pins, Unpin(r) \/ \E p \in Projects : PinRequest(r, p) PROVE FilingInv'
    <2>1. Projects # {}
      BY DEF FilingInv, FilingTypeOK
    <2> QED BY <1>2, <1>3, <2>1, PinKeeps
  <1> QED
    BY <1>1, <1>3, ClaimKeeps, PlanKeeps, SaveJobKeeps, WriteNotesKeeps, MoveNoteKeeps, MergeProjectsKeeps, RelocateKeeps,
       RelinkKeeps, ClearSourceKeeps, RedirectKeeps, ForgetKeeps, EraseKeeps, AllowKeeps, RestartKeeps
    DEF FilingNext

\* The inductive invariant: what a summary has planned and written while nothing
\* came between, and where notes are between the steps of a command.
THEOREM FilingInvariant == FilingSpec => []FilingInv
  BY FilingInitially, FilingKept, PTL DEF FilingSpec

\* What has been shown of the notes whenever nothing goes on.
LEMMA PlacesHold ==
  ASSUME FilingInv
  PROVE  EachRequestOnce /\ NamedNoteIsThere /\ NotesInLiveProjects /\ ForgottenIsGone
  <1>1. InPlace /\ DecisionStands
    BY DEF FilingInv
  <1>2. EachRequestOnce
    <2> SUFFICES ASSUME settled, AtRest, notes # {}, ~swallowed, NEW r \in Requests
                 PROVE  Cardinality({n \in notes : r \in n.holds}) = 1
      BY DEF EachRequestOnce
    <2>1. Once(notes)
      BY <1>1 DEF InPlace, NotePlaces, AtRest
    <2>2. PICK n \in notes : {m \in notes : r \in m.holds} = {n}
      BY <2>1 DEF Once
    <2> QED BY <2>2, FS_Singleton
  <1>3. NamedNoteIsThere /\ NotesInLiveProjects
    BY <1>1 DEF NamedNoteIsThere, NotesInLiveProjects, AtRest, InPlace, NotePlaces
  <1>4. ForgottenIsGone
    BY <1>1 DEF ForgottenIsGone, DecisionStands
  <1> QED BY <1>2, <1>3, <1>4

\* A summary that ends well has met nothing since it was planned.
LEMMA EndsAsPlanned ==
  ASSUME FilingInv, FilingNext, settled', filing.phase = "written", filing'.phase = "none", NEW r \in Requests
  PROVE  PinsKept(r)
  <1>1. FilingTypeOK /\ PlanStands /\ filing \in Filings
    BY DEF FilingInv, FilingTypeOK
  <1>2. ASSUME NEW now, NEW next, Does(now, next) PROVE FALSE
    BY <1>1, <1>2, DoesThat
  <1>3. CASE SaveJob
    BY <1>1, <1>3 DEF SaveJob, PlanStands
  <1>4. ~Forget
    BY <1>1 DEF Forget, ClaimBack, Filings
  <1>5. ~Claim /\ ~Plan /\ ~Restart /\ \A absorbs \in BOOLEAN : ~WriteNotes(absorbs)
    BY DEF Claim, Plan, Restart, WriteNotes
  <1>6. ASSUME NEW next, Orders(next) PROVE FALSE
    BY <1>2, <1>6 DEF Orders
  <1>7. ASSUME NEW x, Unpin(x) \/ \E p \in Projects : PinRequest(x, p) PROVE FALSE
    BY <1>6, <1>7 DEF Unpin, PinRequest
  <1>8. ASSUME NEW n \in notes, NEW p \in Projects, MoveNote(n, p) PROVE FALSE
    BY <1>6, <1>8 DEF MoveNote
  <1>9. ASSUME NEW p \in Projects, NEW q \in Projects, MergeProjects(p, q) PROVE FALSE
    BY <1>6, <1>9 DEF MergeProjects
  <1>10. ~Allow
    BY <1>6 DEF Allow
  <1>11. ~Relocate /\ ~Relink /\ ~ClearSource /\ ~RedirectAliases /\ ~Erase
    BY <1>2 DEF Relocate, Relink, ClearSource, RedirectAliases, Erase
  <1> QED BY <1>3, <1>4, <1>5, <1>7, <1>8, <1>9, <1>10, <1>11 DEF FilingNext

\* Where summaries, pins, moves, merges, deletions and restarts leave the notes of
\* a session: every request in one note of a live project, the job at one of
\* them, none of a forgotten session, and where the pins say (complete_session,
\* relink, forget, _absorb).
THEOREM NotesStayInPlace == FilingSpec => NotesInPlace
  <1>1. FilingInv /\ [FilingNext]_filingVars =>
          [settled' /\ filing.phase = "written" /\ filing'.phase = "none" =>
             \A r \in Requests : PinsOn(r) # {} =>
                 \E n \in notes : r \in n.holds /\ n.path[1] \in {Resolved(p) : p \in PinsOn(r)}]_filingVars
    BY EndsAsPlanned DEF PinsKept
  <1>2. FilingSpec => PinsObeyed
    BY FilingInvariant, <1>1, PTL DEF FilingSpec, PinsObeyed
  <1>3. FilingInv => EachRequestOnce /\ NamedNoteIsThere /\ NotesInLiveProjects /\ ForgottenIsGone
    BY PlacesHold
  <1> QED BY FilingInvariant, <1>2, <1>3, PTL DEF NotesInPlace
=============================================================================
