---------------------------- MODULE MemoryMerge ----------------------------
(***************************************************************************)
(* Memory files of projects that are merged.  Where both projects have the *)
(* file, that of the source is handed as a document to a memory_merge job  *)
(* of the target, whose worker writes one file out of the standing one and *)
(* all documents; unfinished jobs of the source are carried over first     *)
(* (ProjectService._absorb, JobRepository.ensure_memory_merge and          *)
(* carry_memory_merges, BackgroundService.claimed and moved_on,            *)
(* JobService.complete_memory).  Meanwhile devices go on syncing.          *)
(*                                                                         *)
(* One file name is modelled, so a job's session id is the project it was  *)
(* opened for.  A file is the set of things it says, {} when there is      *)
(* none.  A merge is a dozen transactions and file operations, each a step *)
(* here; the owner merges or deletes one project at a time.                *)
(***************************************************************************)
EXTENDS Naturals, ProjectAliases

CONSTANTS
    Words,      \* what a memory file may say
    Workers,    \* a worker's name is its claim token: it holds one claim
    NoWorker,   \* no token
    NoMerge,    \* the owner is not merging
    NeverRead,  \* no digest
    Gone,       \* the row a worker claimed has been deleted
    MaxMerges,  \* bound: merges started
    Synced,     \* bound: what devices sync, {} to delete the file
    MaxSyncs    \* bound: syncs

ASSUME WorkerAssumption == NoWorker \notin Workers
ASSUME GoneAssumption   == Gone \notin Slugs
ASSUME CountAssumption  == MaxMerges \in Nat /\ MaxSyncs \in Nat /\ Synced \subseteq SUBSET Words

VARIABLES
    file,       \* the memory file of each project
    merge,      \* the memory_merge row opened for each project
    worker,
    absorbing,  \* the merge of two projects that is under way
    merges,
    syncs,
    owed,       \* history: documents handed in that are in no file yet, by row
    crossed     \* history: something happened between two steps of a merge, or ended it

memoryVars == <<alias, file, merge, worker, absorbing, merges, syncs, owed, crossed>>

Texts == SUBSET Words

\* memory_document: what a project's file said.
Document == [from: Slugs, says: Texts]

Readings == SUBSET Document

Row == [status: {"ABSENT", "PENDING", "CLAIMED", "DONE", "FAILED"}, project: Slugs, path: Slugs,
        docs: SUBSET Document, digest: Readings \cup {NeverRead}, token: Workers \cup {NoWorker}]

NoRow(k) == [status |-> "ABSENT", project |-> k, path |-> k, docs |-> {}, digest |-> NeverRead,
             token |-> NoWorker]

\* read: what the worker was handed; was: the digest the row had when it was claimed.
Claimant == [phase: {"idle", "claiming", "working"}, key: Slugs \cup {Gone}, read: Readings,
             was: Readings \cup {NeverRead}]

Waiting == [phase |-> "idle", key |-> Gone, read |-> {}, was |-> NeverRead]

\* text: what the file of the source said when the merge read it.  todo: the rows
\* carry_memory_merges has listed, with the documents it still has to hand over.
\* said is history: what both files said at the beginning.
Absorbing == [phase: {"handing", "unlinking", "listing", "carrying", "redirecting", "renaming"},
              source: Slugs, target: Slugs, text: Texts, todo: SUBSET (Slugs \X SUBSET Document),
              said: Texts]

ASSUME MergeAssumption == NoMerge \notin Absorbing

MemoryInit ==
    /\ NoAliases
    /\ file      \in [Slugs -> Texts]
    /\ merge     = [k \in Slugs |-> NoRow(k)]
    /\ worker    = [w \in Workers |-> Waiting]
    /\ absorbing = NoMerge
    /\ merges    = 0
    /\ syncs     = 0
    /\ owed      = {}
    /\ crossed   = FALSE

Meanwhile == crossed' = (crossed \/ absorbing # NoMerge)

-----------------------------------------------------------------------------
(* What a worker is handed.  The digest of the records stands for them.    *)

FileOf(project, text) == IF text = {} THEN {} ELSE {[from |-> project, says |-> text]}

Records(row) == FileOf(row.project, file[row.path]) \cup row.docs

Summary(records) == UNION {d.says : d \in records}

EnsuredAfresh(row, home, d) ==
    LET idle == row.status \in {"ABSENT", "DONE", "FAILED"} IN
    [row EXCEPT !.project = home, !.path = home,
                !.docs   = IF idle THEN {d} ELSE @ \cup {d},
                !.status = IF idle THEN "PENDING" ELSE @,
                !.digest = IF idle THEN NeverRead ELSE @]

\* ensure_memory_merge: a row that is DONE starts over, one that FAILED still
\* has its documents.
Ensured(row, home, d) ==
    LET applied == row.status \in {"ABSENT", "DONE"}
        idle    == row.status \in {"ABSENT", "DONE", "FAILED"}
    IN [row EXCEPT !.project = home, !.path = home,
                   !.docs   = IF applied THEN {d} ELSE @ \cup {d},
                   !.status = IF idle THEN "PENDING" ELSE @,
                   !.digest = IF idle THEN NeverRead ELSE @]

HandIn(d) == merge' = [merge EXCEPT ![absorbing.target] = Ensured(@, absorbing.target, d)]

Unfinished(row) == row.status \in {"PENDING", "CLAIMED", "FAILED"}

\* The workers that hold a claim on a row that is deleted.
Bereft(rows) ==
    worker' = [w \in Workers |-> IF worker[w].key \in rows THEN [worker[w] EXCEPT !.key = Gone]
                                 ELSE worker[w]]

-----------------------------------------------------------------------------
(* Devices.                                                                *)

\* push_memories: the file as the device has it, or its deletion.
SyncMemories(p, text) ==
    /\ syncs < MaxSyncs
    /\ syncs' = syncs + 1
    /\ file'  = [file EXCEPT ![Resolve(p)] = text]
    /\ Meanwhile
    /\ UNCHANGED <<alias, merge, worker, absorbing, merges, owed>>

-----------------------------------------------------------------------------
(* Workers.                                                                *)

\* claim_next, and what claimed() reads in the same step.
ClaimMerge(w, k) ==
    /\ worker[w].phase = "idle"
    /\ merge[k].status = "PENDING"
    /\ merge' = [merge EXCEPT ![k].status = "CLAIMED", ![k].token = w]
    /\ worker' = [worker EXCEPT ![w] = [phase |-> "claiming", key |-> k, read |-> Records(merge[k]),
                                        was |-> merge[k].digest]]
    /\ Meanwhile
    /\ UNCHANGED <<alias, file, absorbing, merges, syncs, owed>>

\* claimed() saves the digest after other queries; the ORM writes the column
\* when it differs from what was loaded.  A deleted row fails the request, and
\* the worker may be gone when it is answered.
HandOut(w) ==
    /\ worker[w].phase = "claiming"
    /\ IF worker[w].key = Gone
       THEN worker' = [worker EXCEPT ![w] = Waiting] /\ UNCHANGED merge
       ELSE /\ merge' = [merge EXCEPT ![worker[w].key].digest =
                            IF worker[w].read # worker[w].was THEN worker[w].read ELSE @]
            /\ \/ worker' = [worker EXCEPT ![w].phase = "working"]
               \/ worker' = [worker EXCEPT ![w] = Waiting]
    /\ Meanwhile
    /\ UNCHANGED <<alias, file, absorbing, merges, syncs, owed>>

Holds(w, k) ==
    /\ worker[w].phase = "working" /\ worker[w].key = k
    /\ merge[k].status = "CLAIMED" /\ merge[k].token = w

UnclaimedByName(row, status) == [row EXCEPT !.status = status]

Unclaimed(row, status) == [row EXCEPT !.status = status, !.token = NoWorker]

NeverMovedOn(row) == FALSE

MovedOn(row) == row.digest # Records(row)

\* complete_memory: with the row locked, in one go.
CompleteMemory(w, k) ==
    /\ Holds(w, k)
    /\ IF MovedOn(merge[k])
       THEN /\ merge' = [merge EXCEPT ![k] = Unclaimed(@, "PENDING")]
            /\ UNCHANGED <<file, owed>>
       ELSE /\ file'  = [file EXCEPT ![merge[k].path] = Summary(worker[w].read)]
            /\ merge' = [merge EXCEPT ![k] = [Unclaimed(@, "DONE") EXCEPT !.docs = {}]]
            /\ owed'  = owed \ ({k} \X worker[w].read)
    /\ worker' = [worker EXCEPT ![w] = Waiting]
    /\ Meanwhile
    /\ UNCHANGED <<alias, absorbing, merges, syncs>>

\* release and fail; after the last attempt the row is FAILED.
ReturnMerge(w, k) ==
    /\ Holds(w, k)
    /\ \E status \in {"PENDING", "FAILED"} : merge' = [merge EXCEPT ![k] = Unclaimed(@, status)]
    /\ worker' = [worker EXCEPT ![w] = Waiting]
    /\ Meanwhile
    /\ UNCHANGED <<alias, file, absorbing, merges, syncs, owed>>

\* A worker dies, or its claim is refused.
AbandonMerge(w) ==
    /\ worker[w].phase = "working"
    /\ worker' = [worker EXCEPT ![w] = Waiting]
    /\ Meanwhile
    /\ UNCHANGED <<alias, file, merge, absorbing, merges, syncs, owed>>

\* reclaim_stale: after stale_claim_hours, when no claim request still runs.
ReclaimMerge(k) ==
    /\ merge[k].status = "CLAIMED"
    /\ \A w \in Workers : ~(worker[w].phase = "claiming" /\ worker[w].key = k)
    /\ merge' = [merge EXCEPT ![k] = Unclaimed(@, "PENDING")]
    /\ Meanwhile
    /\ UNCHANGED <<alias, file, worker, absorbing, merges, syncs, owed>>

RetryMerge(k) ==
    /\ merge[k].status = "FAILED"
    /\ merge' = [merge EXCEPT ![k] = Unclaimed(@, "PENDING")]
    /\ Meanwhile
    /\ UNCHANGED <<alias, file, worker, absorbing, merges, syncs, owed>>

-----------------------------------------------------------------------------
(* Merging two projects.                                                   *)

Goto(phase) == absorbing' = [absorbing EXCEPT !.phase = phase]

Source == absorbing.source
Target == absorbing.target

FirstPhaseUnlinks(both) == IF both THEN "unlinking" ELSE "listing"

FirstPhase(both) == IF both THEN "handing" ELSE "listing"

\* _merge_memories: a file only the source has is moved.
Absorb(a, b) ==
    LET source == Resolve(a)
        target == MergeTarget(source, b)
        both   == file[source] # {} /\ file[target] # {}
    IN  /\ absorbing = NoMerge /\ merges < MaxMerges
        /\ source # target
        /\ merges' = merges + 1
        /\ absorbing' = [phase |-> FirstPhase(both), source |-> source, target |-> target,
                         text |-> file[source], todo |-> {}, said |-> file[source] \cup file[target]]
        /\ file' = IF both \/ file[source] = {} THEN file
                   ELSE [file EXCEPT ![source] = {}, ![target] = file[source]]
        /\ UNCHANGED <<alias, merge, worker, syncs, owed, crossed>>

\* What the file said when the merge began is handed in ...
HandInMemory ==
    /\ absorbing # NoMerge /\ absorbing.phase = "handing"
    /\ LET d == [from |-> Source, says |-> absorbing.text]
       IN HandIn(d) /\ owed' = owed \cup {<<Target, d>>}
    /\ Goto("unlinking")
    /\ UNCHANGED <<alias, file, worker, merges, syncs, crossed>>

\* ... and then the file goes, or the merge fails because it is gone already.
UnlinkMemory ==
    /\ absorbing # NoMerge /\ absorbing.phase = "unlinking"
    /\ IF file[Source] # {} THEN Goto("listing") ELSE absorbing' = NoMerge
    /\ file' = [file EXCEPT ![Source] = {}]
    /\ UNCHANGED <<alias, merge, worker, merges, syncs, owed, crossed>>

\* Mutant: claimed merges are not carried over.
ListedWaiting == {k \in Slugs : merge[k].status = "PENDING" /\ merge[k].project = Source}

Listed == {k \in Slugs : Unfinished(merge[k]) /\ merge[k].project = Source}

ListMerges ==
    /\ absorbing # NoMerge /\ absorbing.phase = "listing"
    /\ absorbing' = [absorbing EXCEPT !.phase = "carrying",
            !.todo = {<<k, IF k = Target THEN {} ELSE merge[k].docs>> : k \in Listed}]
    /\ UNCHANGED <<alias, file, merge, worker, merges, syncs, owed, crossed>>

\* carry_memory_merges: a listed row hands its documents over one at a time ...
CarryDocument(c, d) ==
    /\ absorbing # NoMerge /\ c \in absorbing.todo
    /\ d \in c[2]
    /\ HandIn(d)
    /\ owed' = (owed \ {<<c[1], d>>}) \cup {<<Target, d>>}
    /\ absorbing' = [absorbing EXCEPT !.todo = (@ \ {c}) \cup {<<c[1], c[2] \ {d}>>}]
    /\ UNCHANGED <<alias, file, worker, merges, syncs, crossed>>

\* ... and is dropped; one with the target's session id stays.
DropCarried(c) ==
    /\ absorbing # NoMerge /\ c \in absorbing.todo
    /\ c[2] = {}
    /\ merge' = [merge EXCEPT ![c[1]] = IF c[1] = Target THEN [@ EXCEPT !.path = Target] ELSE NoRow(c[1])]
    /\ Bereft({c[1]} \ {Target})
    /\ absorbing' = [absorbing EXCEPT !.todo = @ \ {c}]
    /\ UNCHANGED <<alias, file, merges, syncs, owed, crossed>>

\* The directory goes with whatever is in it by now.
RemoveDirectory ==
    /\ absorbing # NoMerge /\ absorbing.phase = "carrying" /\ absorbing.todo = {}
    /\ file' = [file EXCEPT ![Source] = {}]
    /\ Goto("redirecting")
    /\ UNCHANGED <<alias, merge, worker, merges, syncs, owed, crossed>>

RedirectProject ==
    /\ absorbing # NoMerge /\ absorbing.phase = "redirecting"
    /\ Redirect(Source, Target)
    /\ Goto("renaming")
    /\ UNCHANGED <<file, merge, worker, merges, syncs, owed, crossed>>

RenameProject ==
    /\ absorbing # NoMerge /\ absorbing.phase = "renaming"
    /\ merge' = [k \in Slugs |-> IF merge[k].status # "ABSENT" /\ merge[k].project = Source
                                 THEN [merge[k] EXCEPT !.project = Target] ELSE merge[k]]
    /\ absorbing' = NoMerge
    /\ UNCHANGED <<alias, file, worker, merges, syncs, owed, crossed>>

\* ProjectService.delete
DeleteMemories(a) ==
    LET slug == Resolve(a)
        rows == {k \in Slugs : merge[k].project = slug}
    IN  /\ absorbing = NoMerge
        /\ file' = [file EXCEPT ![slug] = {}]
        /\ Forgotten(slug)
        /\ merge' = [k \in Slugs |-> IF k \in rows THEN NoRow(k) ELSE merge[k]]
        /\ Bereft(rows)
        /\ owed' = {o \in owed : o[1] \notin rows}
        /\ UNCHANGED <<absorbing, merges, syncs, crossed>>

\* The api process restarts: its requests end where they are.
CutShort ==
    /\ absorbing # NoMerge \/ \E w \in Workers : worker[w].phase = "claiming"
    /\ absorbing' = NoMerge
    /\ worker' = [w \in Workers |-> IF worker[w].phase = "claiming" THEN Waiting ELSE worker[w]]
    /\ Meanwhile
    /\ UNCHANGED <<alias, file, merge, merges, syncs, owed>>

-----------------------------------------------------------------------------
AbsorbStep ==
    \/ HandInMemory \/ UnlinkMemory \/ ListMerges
    \/ absorbing # NoMerge /\ \E c \in absorbing.todo :
          DropCarried(c) \/ \E d \in c[2] : CarryDocument(c, d)
    \/ RemoveDirectory \/ RedirectProject \/ RenameProject

MemoryNext ==
    \/ \E p \in Slugs, text \in Synced : SyncMemories(p, text)
    \/ \E w \in Workers :
          \/ HandOut(w) \/ AbandonMerge(w)
          \/ \E k \in Slugs : ClaimMerge(w, k) \/ CompleteMemory(w, k) \/ ReturnMerge(w, k)
    \/ \E k \in Slugs : ReclaimMerge(k) \/ RetryMerge(k) \/ DeleteMemories(k)
    \/ \E a, b \in Slugs : Absorb(a, b)
    \/ AbsorbStep
    \/ CutShort

MemorySpec == MemoryInit /\ [][MemoryNext]_memoryVars

-----------------------------------------------------------------------------
\* The type of every variable; only a claimed row has a token.
MemoryTypeOK ==
    /\ AliasType
    /\ file \in [Slugs -> Texts]
    /\ merge \in [Slugs -> Row]
    /\ \A k \in Slugs : merge[k].status # "CLAIMED" => merge[k].token = NoWorker
    /\ worker \in [Workers -> Claimant]
    /\ absorbing \in Absorbing \cup {NoMerge}
    /\ merges \in 0..MaxMerges /\ syncs \in 0..MaxSyncs
    /\ owed \subseteq Slugs \X Document
    /\ crossed \in BOOLEAN

\* A document that was handed in stays with an unfinished row until a file was
\* written from it, or its project deleted: through completions, failures,
\* retries, merges of merges and restarts (ensure_memory_merge, settle,
\* carry_memory_merges).
DocumentsKept == \A o \in owed : Unfinished(merge[o[1]]) /\ o[2] \in merge[o[1]].docs

\* A result only ever replaces the file and ends the documents it was written
\* from, whatever was synced or handed in since the claim, and however late
\* claimed() saves its digest (moved_on).
MergeReplacesWhatItRead ==
    [][\A k \in Slugs :
          merge[k].status = "CLAIMED" /\ merge'[k].status = "DONE"
              => \E w \in Workers : merge[k].token = w /\ Records(merge[k]) \subseteq worker[w].read]_memoryVars

\* When nothing happens in between, a merge loses nothing of what either file
\* said, wherever it is cut short: it is in one of the two files or waiting to be
\* written into the target's (_merge_memories).
MergeKeeps ==
    absorbing # NoMerge /\ ~crossed =>
        absorbing.said \subseteq file[Source] \cup file[Target] \cup Summary(merge[Target].docs)

\* Between merges no unfinished row belongs to a project that was merged away:
\* its result would be stored where nobody looks (carry_memory_merges).
NothingStranded ==
    absorbing = NoMerge /\ ~crossed =>
        \A k \in Slugs : Unfinished(merge[k]) =>
            merge[k].project = k /\ merge[k].path = k /\ alias[k] = Unmerged

\* A merge that nothing gets in the way of loses nothing and leaves nothing behind,
\* wherever it is cut short.
MergesLoseNothing == MemoryTypeOK /\ MergeKeeps /\ NothingStranded
=============================================================================
