----------------------------- MODULE LargeFiles -----------------------------
(***************************************************************************)
(* Files too large for git.  Every Stop queues them (queue_large_files in  *)
(* hooks/kbstore_hook.py); a service on each device, of which one runs at  *)
(* a time, uploads them once the repository is idle (settle): the chunks   *)
(* the server lacks, the list of chunks, a request to put them together    *)
(* (BlobService), and at last a report of what the repository holds.       *)
(*                                                                         *)
(* Each device has one repository with one such file, the same on all of   *)
(* them: the n-th edit makes content n.  A device cuts a content into      *)
(* chunks of its own size, and sends the list one chunk at a time.         *)
(***************************************************************************)
EXTENDS Integers, Sequences, SequencesExt

CONSTANTS
    Devices,
    MaxContent,     \* bound: contents of the file
    Digests,        \* of chunks
    Cut,            \* Cut[d][c]: the chunks of content c on device d
    LastContent,    \* bound: edits on each device
    MaxStops,       \* bound: Stops on each device
    MaxRots         \* bound: stored chunks that go bad

Contents == 1..MaxContent

ASSUME ContentAssumption == MaxContent \in Nat \ {0}
ASSUME CutAssumption     == Cut \in [Devices -> [Contents -> Seq(Digests)]]
ASSUME BoundAssumption   == /\ LastContent \in [Devices -> Contents]
                            /\ MaxStops \in [Devices -> Nat] /\ MaxRots \in Nat

VARIABLES
    content,    \* the file on each device
    stops,      \* Stops so far: time.time()
    told,       \* history: the content at the last Stop
    pending,    \* the pending entry: the Stop that touched it last, 0 when there is none
    slipped,    \* history: the last Stop came between settle's last look and its unlink
    task,       \* settle on each device
    stored,     \* chunk files
    damaged,    \* those that no longer have their digest
    rots,
    blob,       \* blob rows
    checking,   \* a complete request that has read the chunks and not yet locked the row
    reported,   \* worktree_file.digest of each device
    doubted     \* blobs that an inspect could not put together, and has not yet reopened

deviceVars == <<content, stops, told, pending, slipped>>
chunkVars  == <<stored, damaged, rots>>
serverVars == <<blob, checking, reported, doubted>>
largeVars  == <<deviceVars, task, chunkVars, serverVars>>

None == 0

Phases == {"rest", "hashing", "asking", "listing", "sending", "manifest", "completing", "checked",
           "reporting", "closing", "leaving"}

\* settle: the time in the entry, the content that fingerprint printed, the
\* chunks the server lacks, and how much of the list is sent.
Task == [phase: Phases, touched: Nat, printed: Contents \cup {None}, missing: SUBSET Digests, offset: Nat]

Blob == [list: Seq(Digests), done: BOOLEAN]

Check == [digest: Contents \cup {None}, list: Seq(Digests)]

AtRest == [phase |-> "rest", touched |-> 0, printed |-> None, missing |-> {}, offset |-> 0]

NoBlob == [list |-> <<>>, done |-> FALSE]

NoCheck == [digest |-> None, list |-> <<>>]

LargeInit ==
    /\ content  = [d \in Devices |-> 1]
    /\ stops    = [d \in Devices |-> 0]
    /\ told     = [d \in Devices |-> None]
    /\ pending  = [d \in Devices |-> 0]
    /\ slipped  = [d \in Devices |-> FALSE]
    /\ task     = [d \in Devices |-> AtRest]
    /\ stored   = {}
    /\ damaged  = {}
    /\ rots     = 0
    /\ blob     = [c \in Contents |-> NoBlob]
    /\ checking = [d \in Devices |-> NoCheck]
    /\ reported = [d \in Devices |-> None]
    /\ doubted  = {}

-----------------------------------------------------------------------------
(* The device.                                                             *)

Edit(d) ==
    /\ content[d] < LastContent[d]
    /\ content' = [content EXCEPT ![d] = @ + 1]
    /\ UNCHANGED <<stops, told, pending, slipped, task, chunkVars, serverVars>>

QueueLargeFiles(d) ==
    /\ stops[d] < MaxStops[d]
    /\ stops'   = [stops EXCEPT ![d] = @ + 1]
    /\ told'    = [told EXCEPT ![d] = content[d]]
    /\ pending' = [pending EXCEPT ![d] = stops'[d]]
    /\ slipped' = [slipped EXCEPT ![d] = task[d].phase = "leaving"]
    /\ UNCHANGED <<content, task, chunkVars, serverVars>>

Goto(d, phase) == task' = [task EXCEPT ![d].phase = phase]

\* waiting: the entry stays for a later round.
TryLater(d) == task' = [task EXCEPT ![d] = AtRest]

\* The entry is idle; fingerprint takes the size and the time, and reads.
Settle(d) ==
    /\ task[d].phase = "rest" /\ pending[d] # 0
    /\ task' = [task EXCEPT ![d] = [AtRest EXCEPT !.phase = "hashing", !.touched = pending[d],
                                                  !.printed = content[d]]]
    /\ UNCHANGED <<deviceVars, chunkVars, serverVars>>

Fingerprint(d) ==
    /\ task[d].phase = "hashing"
    /\ IF content[d] = task[d].printed THEN Goto(d, "asking") ELSE TryLater(d)
    /\ UNCHANGED <<deviceVars, chunkVars, serverVars>>

\* A GET that fails counts as a blob the server does not have.
AskBlob(d) ==
    /\ task[d].phase = "asking"
    /\ \/ Goto(d, "listing")
       \/ blob[task[d].printed].done /\ Goto(d, "reporting")
    /\ UNCHANGED <<deviceVars, chunkVars, serverVars>>

Parts(d) == Cut[d][task[d].printed]

AskMissing(d) ==
    /\ task[d].phase = "listing"
    /\ task' = [task EXCEPT ![d] = [@ EXCEPT !.phase = "sending", !.missing = ToSet(Parts(d)) \ stored]]
    /\ UNCHANGED <<deviceVars, chunkVars, serverVars>>

\* Is part n of the file still the one that fingerprint saw?
Unchanged(d, n) == LET now == Cut[d][content[d]] IN n \in DOMAIN now /\ now[n] = Parts(d)[n]

\* The first missing chunk is read again, and must still have its digest.
SendPart(d) ==
    /\ task[d].phase = "sending"
    /\ \E n \in DOMAIN Parts(d) :
          /\ Parts(d)[n] \in task[d].missing
          /\ \A m \in 1..(n - 1) : Parts(d)[m] \notin task[d].missing
          /\ IF Unchanged(d, n)
             THEN /\ stored'  = stored \cup {Parts(d)[n]}
                  /\ damaged' = damaged \ {Parts(d)[n]}
                  /\ task' = [task EXCEPT ![d].missing = @ \ {Parts(d)[n]}]
             ELSE TryLater(d) /\ UNCHANGED <<stored, damaged>>
    /\ UNCHANGED <<deviceVars, rots, serverVars>>

EndOfParts(d) ==
    /\ task[d].phase = "sending" /\ task[d].missing = {}
    /\ Goto(d, "manifest")
    /\ UNCHANGED <<deviceVars, chunkVars, serverVars>>

\* add_manifest: an offset of 0 starts the list over.
Fits(b, offset) == offset \in {0, Len(b.list)}

Lengthened(b, offset, k) == [b EXCEPT !.list = Append(@, k)]

Extended(b, offset, k) == [b EXCEPT !.list = Append(IF offset = 0 THEN <<>> ELSE @, k)]

AddManifest(d) ==
    /\ task[d].phase = "manifest" /\ task[d].offset < Len(Parts(d))
    /\ LET c == task[d].printed
           n == task[d].offset
       IN IF blob[c].done \/ Fits(blob[c], n)
          THEN /\ blob' = IF blob[c].done THEN blob
                          ELSE [blob EXCEPT ![c] = Extended(@, n, Parts(d)[n + 1])]
               /\ task' = [task EXCEPT ![d].offset = n + 1]
          ELSE TryLater(d) /\ UNCHANGED blob
    /\ UNCHANGED <<deviceVars, chunkVars, checking, reported, doubted>>

EndOfManifest(d) ==
    /\ task[d].phase = "manifest" /\ task[d].offset = Len(Parts(d))
    /\ Goto(d, "completing")
    /\ UNCHANGED <<deviceVars, chunkVars, serverVars>>

Makes(list, c) == \E d \in Devices : list = Cut[d][c]

AddsUp(list, c) == Makes(list, c) /\ ToSet(list) \subseteq stored \ damaged

DropAll(list) == stored' = stored \ ToSet(list) /\ damaged' = damaged \ ToSet(list)

\* drop_damaged
DropDamaged(list) == stored' = stored \ (damaged \cap ToSet(list)) /\ damaged' = damaged \ ToSet(list)

\* complete, up to the lock: are all chunks there, and do they add up?  Bound: a
\* device has one such request under way.
Complete(d) ==
    /\ task[d].phase = "completing" /\ checking[d] = NoCheck
    /\ LET c == task[d].printed
           list == blob[c].list
       IN \/ /\ blob[c].done
             /\ Goto(d, "reporting") /\ UNCHANGED <<stored, damaged, checking>>
          \/ /\ ~blob[c].done /\ AddsUp(list, c)
             /\ checking' = [checking EXCEPT ![d] = [digest |-> c, list |-> list]]
             /\ Goto(d, "checked") /\ UNCHANGED <<stored, damaged>>
          \/ /\ ~blob[c].done /\ ~AddsUp(list, c)
             /\ IF ToSet(list) \subseteq stored THEN DropDamaged(list) ELSE UNCHANGED <<stored, damaged>>
             /\ TryLater(d) /\ UNCHANGED checking
    /\ UNCHANGED <<deviceVars, rots, blob, reported, doubted>>

AnyList(d) == TRUE

SameList(d) == blob[checking[d].digest].list = checking[d].list

\* complete, from the lock on.  The device may have given up meanwhile.
Lock(d) ==
    /\ checking[d] # NoCheck
    /\ LET c == checking[d].digest
       IN blob' = [blob EXCEPT ![c].done = @ \/ SameList(d)]
    /\ checking' = [checking EXCEPT ![d] = NoCheck]
    /\ IF task[d].phase # "checked" THEN UNCHANGED task
       ELSE IF SameList(d) THEN Goto(d, "reporting") ELSE TryLater(d)
    /\ UNCHANGED <<deviceVars, chunkVars, reported, doubted>>

\* report_files skips a blob that is not complete any more.
Report(d) ==
    /\ task[d].phase = "reporting"
    /\ IF blob[task[d].printed].done
       THEN reported' = [reported EXCEPT ![d] = task[d].printed] /\ Goto(d, "closing")
       ELSE UNCHANGED reported /\ TryLater(d)
    /\ UNCHANGED <<deviceVars, chunkVars, blob, checking, doubted>>

\* A request fails or times out (what it did stays done, and complete may go
\* on), or the service is killed or replaces itself by an update.
GiveUp(d) ==
    /\ task[d].phase # "rest"
    /\ TryLater(d)
    /\ UNCHANGED <<deviceVars, chunkVars, serverVars>>

AlwaysForgettable(d) == TRUE

Forgettable(d) == pending[d] = task[d].touched

\* The end of settle: the entry goes unless a Stop has touched it since.
Close(d) ==
    /\ task[d].phase = "closing"
    /\ IF Forgettable(d) THEN Goto(d, "leaving") ELSE TryLater(d)
    /\ UNCHANGED <<deviceVars, chunkVars, serverVars>>

Unlink(d) ==
    /\ task[d].phase = "leaving"
    /\ TryLater(d)
    /\ pending' = [pending EXCEPT ![d] = 0]
    /\ UNCHANGED <<content, stops, told, slipped, chunkVars, serverVars>>

-----------------------------------------------------------------------------
(* The server on its own.                                                  *)

Rot(k) ==
    /\ rots < MaxRots /\ k \in stored \ damaged
    /\ rots' = rots + 1
    /\ damaged' = damaged \cup {k}
    /\ UNCHANGED <<deviceVars, task, stored, serverVars>>

\* inspect cannot put a complete blob together: it drops the damaged chunks ...
Inspect(c) ==
    /\ blob[c].done /\ c \notin doubted /\ ~AddsUp(blob[c].list, c)
    /\ DropDamaged(blob[c].list)
    /\ doubted' = doubted \cup {c}
    /\ UNCHANGED <<deviceVars, task, rots, blob, checking, reported>>

\* ... and has it uploaded again.
Reopen(c) ==
    /\ c \in doubted
    /\ doubted' = doubted \ {c}
    /\ blob' = [blob EXCEPT ![c].done = FALSE]
    /\ UNCHANGED <<deviceVars, task, chunkVars, checking, reported>>

RestartServer ==
    /\ doubted # {} \/ \E d \in Devices : checking[d] # NoCheck
    /\ doubted'  = {}
    /\ checking' = [d \in Devices |-> NoCheck]
    /\ task'     = [d \in Devices |-> IF task[d].phase = "checked" THEN AtRest ELSE task[d]]
    /\ UNCHANGED <<deviceVars, chunkVars, blob, reported>>

-----------------------------------------------------------------------------
LargeNext ==
    \/ \E d \in Devices :
          \/ Edit(d) \/ QueueLargeFiles(d)
          \/ Settle(d) \/ Fingerprint(d) \/ AskBlob(d) \/ AskMissing(d) \/ SendPart(d) \/ EndOfParts(d)
          \/ AddManifest(d) \/ EndOfManifest(d) \/ Complete(d) \/ Lock(d) \/ Report(d)
          \/ GiveUp(d) \/ Close(d) \/ Unlink(d)
    \/ \E k \in Digests : Rot(k)
    \/ \E c \in Contents : Inspect(c) \/ Reopen(c)
    \/ RestartServer

LargeSpec == LargeInit /\ [][LargeNext]_largeVars

-----------------------------------------------------------------------------
\* The type of every variable; no list is longer than a device made it.
LargeTypeOK ==
    /\ content \in [Devices -> Contents]
    /\ stops \in [Devices -> Nat] /\ told \in [Devices -> Contents \cup {None}] /\ pending \in [Devices -> Nat]
    /\ slipped \in [Devices -> BOOLEAN]
    /\ task \in [Devices -> Task]
    /\ stored \subseteq Digests /\ damaged \subseteq stored /\ rots \in 0..MaxRots
    /\ blob \in [Contents -> Blob]
    /\ \A c \in Contents : blob[c].list = <<>> \/ \E d \in Devices : Len(blob[c].list) <= Len(Cut[d][c])
    /\ checking \in [Devices -> Check]
    /\ reported \in [Devices -> Contents \cup {None}]
    /\ doubted \subseteq Contents

\* A complete blob is a list of chunks that makes up the file, although devices
\* that cut it differently write the list at the same time, and although it may
\* be reopened (BlobService.add_manifest, complete, inspect).
CompletedIsWhole == \A c \in Contents : blob[c].done => Makes(blob[c].list, c)

\* What the server was told a repository holds, it can put together, as long as
\* the disk damages no chunk (report_files, BlobService.drop_damaged).
ReportedIsHeld ==
    \A d \in Devices : reported[d] # None /\ rots = 0 =>
        LET b == blob[reported[d]] IN b.done /\ ToSet(b.list) \subseteq stored

\* What a Stop queued is not forgotten: when no entry is left, the server was
\* told of the file as that Stop saw it, or of a later one.  The one exception
\* is a Stop in the moment between settle's last look at the entry and its unlink.
NothingForgotten == \A d \in Devices : pending[d] = 0 /\ ~slipped[d] => told[d] <= reported[d]

\* What is complete, and what the server was told of, can be put together again.
LargeFilesHeld == LargeTypeOK /\ CompletedIsWhole /\ ReportedIsHeld
=============================================================================
