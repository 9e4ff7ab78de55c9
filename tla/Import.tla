------------------------------- MODULE Import -------------------------------
(***************************************************************************)
(* One session that reaches the server twice over: the hook of its device   *)
(* pushes it on every Stop (push_transcript and capture in                  *)
(* hooks/kbstore_hook.py), the importer sends the copy of it that it finds   *)
(* in the directory or in an archive (import_raw and import_sessions in      *)
(* tools/kbstore_import.py).  Both send the transcript first and announce    *)
(* the session after; a worker may claim the job at any time.                   *)
(*                                                                         *)
(* The transcript only grows: its n-th piece is the number n, and a session   *)
(* is announced with how many pieces it had.  A request is handled in one     *)
(* step; TranscriptUpload has its awaits, JobQueue the job's other fields.       *)
(***************************************************************************)
EXTENDS Integers, Sequences, FiniteSetsExt

CONSTANTS
    MaxPieces,      \* bound: the longest transcript
    Block,          \* CHUNK_BYTES
    MinChars,       \* --min-chars: the importer skips what is shorter
    MaxStops,       \* bound: Stops of the session
    MaxImports      \* bound: runs of the importer

ASSUME ImportAssumption == MaxPieces \in Nat /\ Block \in Nat \ {0} /\ MinChars \in Nat /\ MaxStops \in Nat /\ MaxImports \in Nat

VARIABLES
    spoken,         \* pieces of the transcript on the device
    held,           \* the pieces in the server's file
    queued,         \* its status; how much was announced; activity since it was claimed
    written,        \* how much the note was made from, and whether an importer ran at the claim
    stop,           \* the hook that runs
    import,         \* the importer
    stops, imports,
    failed,         \* history: a call of the hook or of the importer failed
    beyond,         \* history: the importer announced more than the server held
    mixed           \* history: a hook and an importer ran at once

importVars == <<spoken, held, queued, written, stop, import, stops, imports, failed, beyond, mixed>>

\* base: what the server was found to have; offset: what was sent, of upto
\* pieces; said: how many the session is announced with; again: from the start.
AtRest == [phase |-> "off", said |-> 0, upto |-> 0, base |-> 0, offset |-> 0, again |-> FALSE, well |-> FALSE]

ImportInit ==
    /\ spoken = 0 /\ held = <<>>
    /\ queued  = [status |-> "none", announced |-> 0, active |-> FALSE, read |-> 0, crossed |-> FALSE]
    /\ written = [from |-> 0, crossed |-> FALSE]
    /\ stop = AtRest /\ import = AtRest
    /\ stops = 0 /\ imports = 0
    /\ failed = FALSE /\ beyond = FALSE /\ mixed = FALSE

Say ==
    /\ spoken < MaxPieces
    /\ spoken' = spoken + 1
    /\ UNCHANGED <<held, queued, written, stop, import, stops, imports, failed, beyond, mixed>>

-----------------------------------------------------------------------------
(* The server's handlers.                                                  *)

PiecesOf(from, upto) == [n \in 1..(upto - from) |-> from + n]

\* Mutant: what comes is appended, whatever its offset.
PlacesAnywhere(offset) == TRUE

Places(offset) == offset \in {0, Len(held)}

\* IngestService.append: the first block replaces the file.
Stored(offset, upto) == (IF offset = 0 THEN <<>> ELSE held) \o PiecesOf(offset, upto)

\* JobService.enqueue: what is announced again changes nothing.
Enqueued(said) ==
    IF queued.status # "none" /\ queued.announced = said THEN queued
    ELSE [queued EXCEPT !.announced = said, !.active = TRUE,
                     !.status = IF @ = "claimed" THEN "claimed" ELSE "pending"]

-----------------------------------------------------------------------------
(* Sending, the same for both but for what follows a failure.               *)

Through(c) == Min({c.offset + Block, c.upto})

\* The next block is stored; the last one ends the sending.
Advanced(c) ==
    IF Through(c) = c.upto THEN [c EXCEPT !.phase = "post", !.offset = Through(c), !.well = TRUE]
    ELSE [c EXCEPT !.offset = Through(c)]

\* Mutant: a block that was not taken is not sent again.
GivesUpSending(c) == [c EXCEPT !.phase = "post", !.well = TRUE]

\* push_transcript: from the start once more, unless that was the start.
Resends(c) ==
    IF c.base # 0 /\ ~c.again THEN [c EXCEPT !.offset = 0, !.again = TRUE] ELSE [c EXCEPT !.phase = "post"]

\* import_raw: the file is skipped, and the session is announced all the same.
Skips(c) == [c EXCEPT !.phase = "post"]

-----------------------------------------------------------------------------
(* The hook.                                                               *)

\* capture reads the transcript before it is pushed.
StopRuns ==
    /\ stop.phase = "off" /\ spoken > 0 /\ stops < MaxStops
    /\ stop' = [AtRest EXCEPT !.phase = "ask", !.said = spoken]
    /\ stops' = stops + 1
    /\ mixed' = (mixed \/ import.phase # "off")
    /\ UNCHANGED <<spoken, held, queued, written, import, imports, failed, beyond>>

AskHeld ==
    /\ stop.phase = "ask"
    /\ \E found \in {Len(held), 0} :
          /\ stop' = IF found = spoken THEN [stop EXCEPT !.phase = "post", !.well = TRUE]
                     ELSE [stop EXCEPT !.phase = "send", !.base = found, !.upto = spoken,
                                       !.offset = IF found <= spoken THEN found ELSE 0]
          /\ failed' = (failed \/ found # Len(held))
    /\ UNCHANGED <<spoken, held, queued, written, import, stops, imports, beyond, mixed>>

StopSends ==
    /\ stop.phase = "send"
    /\ IF Places(stop.offset)
       THEN held' = Stored(stop.offset, Through(stop)) /\ stop' = Advanced(stop)
       ELSE UNCHANGED held /\ stop' = Resends(stop)
    /\ UNCHANGED <<spoken, queued, written, import, stops, imports, failed, beyond, mixed>>

\* A call fails, or its answer is lost.
StopSendFails ==
    /\ stop.phase = "send" /\ failed' = TRUE
    /\ stop' = Resends(stop)
    /\ \/ UNCHANGED held
       \/ Places(stop.offset) /\ held' = Stored(stop.offset, Through(stop))
    /\ UNCHANGED <<spoken, queued, written, import, stops, imports, beyond, mixed>>

StopPosts ==
    /\ stop.phase = "post"
    /\ stop' = AtRest
    /\ \/ queued' = Enqueued(stop.said) /\ UNCHANGED failed
       \/ UNCHANGED queued /\ failed' = TRUE
    /\ UNCHANGED <<spoken, held, written, import, stops, imports, beyond, mixed>>

-----------------------------------------------------------------------------
(* The importer.                                                           *)

\* A run with or without --raw; the copy may be old.
ImportRuns(copy, raw) ==
    /\ import.phase = "off" /\ imports < MaxImports
    /\ copy >= MinChars
    /\ import' = [AtRest EXCEPT !.phase = IF raw THEN "send" ELSE "post", !.said = copy, !.upto = copy]
    /\ imports' = imports + 1
    /\ mixed' = (mixed \/ stop.phase # "off")
    /\ UNCHANGED <<spoken, held, queued, written, stop, stops, failed, beyond>>

\* send_in_chunks: from the start, without asking what is there.
ImportSends ==
    /\ import.phase = "send"
    /\ IF Places(import.offset)
       THEN held' = Stored(import.offset, Through(import)) /\ import' = Advanced(import)
       ELSE UNCHANGED held /\ import' = Skips(import)
    /\ UNCHANGED <<spoken, queued, written, stop, stops, imports, failed, beyond, mixed>>

ImportSendFails ==
    /\ import.phase = "send" /\ failed' = TRUE
    /\ import' = Skips(import)
    /\ \/ UNCHANGED held
       \/ Places(import.offset) /\ held' = Stored(import.offset, Through(import))
    /\ UNCHANGED <<spoken, queued, written, stop, stops, imports, beyond, mixed>>

\* import_sessions reads a directory again; an archive is as it was.
ImportPosts ==
    /\ import.phase = "post"
    /\ import' = AtRest
    /\ \/ \E said \in {import.said, spoken} :
             queued' = Enqueued(said) /\ beyond' = (beyond \/ said > Len(held)) /\ UNCHANGED failed
       \/ UNCHANGED <<queued, beyond>> /\ failed' = TRUE
    /\ UNCHANGED <<spoken, held, written, stop, stops, imports, mixed>>

-----------------------------------------------------------------------------
(* The worker.                                                             *)

\* The claim carries what the file holds, or what was announced when there is none.
ClaimSession ==
    /\ queued.status = "pending"
    /\ queued' = [queued EXCEPT !.status = "claimed", !.active = FALSE,
                          !.read = IF held = <<>> THEN queued.announced ELSE Len(held),
                          !.crossed = import.phase # "off"]
    /\ UNCHANGED <<spoken, held, written, stop, import, stops, imports, failed, beyond, mixed>>

\* Mutant: a session that went on is done.
DoneAnyway(active) == "done"

StatusWritten(active) == IF active THEN "pending" ELSE "done"

SessionDone ==
    /\ queued.status = "claimed"
    /\ queued'  = [queued EXCEPT !.status = StatusWritten(queued.active)]
    /\ written' = [from |-> queued.read, crossed |-> queued.crossed]
    /\ UNCHANGED <<spoken, held, stop, import, stops, imports, failed, beyond, mixed>>

ImportNext ==
    \/ Say \/ StopRuns \/ AskHeld \/ StopSends \/ StopSendFails \/ StopPosts
    \/ \E copy \in 1..spoken, raw \in BOOLEAN : ImportRuns(copy, raw)
    \/ ImportSends \/ ImportSendFails \/ ImportPosts
    \/ ClaimSession \/ SessionDone

ImportSpec == ImportInit /\ [][ImportNext]_importVars

-----------------------------------------------------------------------------
\* The server's file is the beginning of the transcript, with no piece missing
\* or twice, while a hook and an importer send the same session across each
\* other and calls of theirs are lost.
HeldInOrder == held = PiecesOf(0, Len(held))

\* When a push ends without having been refused for good, the server has all
\* that the session is about to be announced with, whatever an importer sent in
\* between.
PushedMeansHeld ==
    [][stop.phase \in {"ask", "send"} /\ stop'.phase = "post" /\ stop'.well => Len(held') >= stop.said]_importVars

\* The note of a session that is done was made from all that was announced, if
\* no call failed, no importer was between its first call and its last when the
\* session was claimed or a hook ran, and none announced more than the server
\* held: a session may go on while its directory is imported.
NoteHoldsAnnounced ==
    queued.status = "done" /\ ~failed /\ ~beyond /\ ~mixed /\ ~written.crossed => written.from >= queued.announced

\* A hook and an importer of one session do not spoil each other's transcript,
\* nor what its note is made from.
ImportBesideHook == [](HeldInOrder /\ NoteHoldsAnnounced) /\ PushedMeansHeld
=============================================================================
