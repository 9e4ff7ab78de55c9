-------------------------- MODULE TranscriptUpload --------------------------
(***************************************************************************)
(* How the transcript of one session gets from the device into STORAGE_DIR *)
(* (push_transcript in hooks/kbstore_hook.py, IngestService.append).  Every *)
(* Stop runs the hook, which asks how much the server has and sends the    *)
(* rest in chunks.  The agent runs one hook at a time, and kills it after  *)
(* its timeout; the request it was waiting for may go on without it.       *)
(*                                                                         *)
(* The transcript only grows, so its n-th piece is the number n; Chunk     *)
(* pieces make a chunk.                                                    *)
(***************************************************************************)
EXTENDS Integers, Sequences

CONSTANTS
    MaxSize,    \* bound: the longest transcript
    Chunk,      \* CHUNK_BYTES
    Requests,   \* bound: PUT requests that may be on their way at once
    NoRow, NoRequest

ASSUME SizeAssumption == MaxSize \in Nat /\ Chunk \in Nat \ {0}
ASSUME NameAssumption == NoRow \notin Nat /\ NoRequest \notin Requests

VARIABLES
    local,      \* size of the transcript on the device
    file,       \* the pieces in the server's file
    row,        \* raw_transcript.byte_size
    hook,       \* the hook that runs, or what became of the last one
    put,        \* the PUT requests
    outlived,   \* history: a request was still on its way when its hook gave up
    torn        \* history: the server died after it changed the file, before it saved the row

vars == <<local, file, row, hook, put, outlived, torn>>

Sizes == 0..MaxSize

\* The hook: base is the offset variable of push_transcript, offset the one of
\* send_transcript, again its second call.  The rest is history of this run.
Hook == [phase: {"off", "asking", "asked", "sending", "waiting"}, base: Sizes, offset: Sizes,
         again: BOOLEAN, request: Requests \cup {NoRequest},
         sent: BOOLEAN, well: BOOLEAN, trouble: BOOLEAN]

Put == [stage: {"free", "sent", "found", "written", "ok", "refused"}, offset: Sizes, upto: Sizes, seen: Sizes]

Resting == [phase |-> "off", base |-> 0, offset |-> 0, again |-> FALSE, request |-> NoRequest,
            sent |-> FALSE, well |-> FALSE, trouble |-> FALSE]

NoPut == [stage |-> "free", offset |-> 0, upto |-> 0, seen |-> 0]

Init ==
    /\ local    = 0
    /\ file     = <<>>
    /\ row      = NoRow
    /\ hook     = Resting
    /\ put      = [r \in Requests |-> NoPut]
    /\ outlived = FALSE
    /\ torn     = FALSE

Pieces(from, upto) == [n \in 1..(upto - from) |-> from + n]

Underway(r) == put[r].stage \in {"sent", "found", "written"}

-----------------------------------------------------------------------------
(* The device.                                                             *)

Speak ==
    /\ local < MaxSize
    /\ local' = local + 1
    /\ UNCHANGED <<file, row, hook, put, outlived, torn>>

Start ==
    /\ hook.phase = "off" /\ local > 0
    /\ hook' = [Resting EXCEPT !.phase = "asking"]
    /\ UNCHANGED <<local, file, row, put, outlived, torn>>

\* The GET: a session the server does not know is answered 404.
Ask ==
    /\ hook.phase = "asking"
    /\ hook' = [hook EXCEPT !.phase = "asked", !.base = IF row = NoRow THEN 0 ELSE row]
    /\ UNCHANGED <<local, file, row, put, outlived, torn>>

AskFails ==
    /\ hook.phase = "asking"
    /\ hook' = [hook EXCEPT !.phase = "asked", !.trouble = TRUE]
    /\ UNCHANGED <<local, file, row, put, outlived, torn>>

Done(h) == [h EXCEPT !.phase = "off", !.well = TRUE, !.request = NoRequest]

\* Nothing to send, or the first piece to send is known.
Decide ==
    /\ hook.phase = "asked"
    /\ hook' = IF local = hook.base
               THEN Done([hook EXCEPT !.offset = hook.base])
               ELSE [hook EXCEPT !.phase = "sending", !.offset = IF hook.base <= local THEN hook.base ELSE 0]
    /\ UNCHANGED <<local, file, row, put, outlived, torn>>

SendChunk(r) ==
    /\ hook.phase = "sending" /\ hook.offset < local
    /\ put[r].stage = "free"
    /\ LET upto == IF hook.offset + Chunk <= local THEN hook.offset + Chunk ELSE local
       IN put' = [put EXCEPT ![r] = [NoPut EXCEPT !.stage = "sent", !.offset = hook.offset, !.upto = upto]]
    /\ hook' = [hook EXCEPT !.phase = "waiting", !.request = r, !.sent = TRUE]
    /\ UNCHANGED <<local, file, row, outlived, torn>>

EndOfFile ==
    /\ hook.phase = "sending" /\ hook.offset >= local
    /\ hook' = Done(hook)
    /\ UNCHANGED <<local, file, row, put, outlived, torn>>

FailedForGood(h) == [h EXCEPT !.phase = "off", !.request = NoRequest]

\* send_transcript returned False: once more from the start, or not at all.
Failed(h) ==
    IF h.base # 0 /\ ~h.again
    THEN [h EXCEPT !.phase = "sending", !.offset = 0, !.again = TRUE, !.request = NoRequest]
    ELSE [h EXCEPT !.phase = "off", !.request = NoRequest]

TakeAnswer ==
    /\ hook.phase = "waiting"
    /\ LET r == hook.request
       IN /\ put[r].stage \in {"ok", "refused"}
          /\ hook' = IF put[r].stage = "ok"
                     THEN [hook EXCEPT !.phase = "sending", !.offset = put[r].upto, !.request = NoRequest]
                     ELSE Failed(hook)
          /\ put' = [put EXCEPT ![r] = NoPut]
    /\ UNCHANGED <<local, file, row, outlived, torn>>

\* The connection breaks: the request never arrives, or its answer does not.
LoseAnswer ==
    /\ hook.phase = "waiting" /\ put[hook.request].stage \in {"sent", "ok"}
    /\ hook' = [Failed(hook) EXCEPT !.trouble = TRUE]
    /\ put' = [put EXCEPT ![hook.request] = NoPut]
    /\ UNCHANGED <<local, file, row, outlived, torn>>

TimeOut ==
    /\ hook.phase = "waiting" /\ Underway(hook.request)
    /\ hook' = [Failed(hook) EXCEPT !.trouble = TRUE]
    /\ outlived' = TRUE
    /\ UNCHANGED <<local, file, row, put, torn>>

Kill ==
    /\ hook.phase # "off"
    /\ hook' = [hook EXCEPT !.phase = "off", !.trouble = TRUE, !.request = NoRequest]
    /\ outlived' = (outlived \/ (hook.phase = "waiting" /\ Underway(hook.request)))
    /\ put' = [r \in Requests |-> IF hook.request = r /\ ~Underway(r) THEN NoPut ELSE put[r]]
    /\ UNCHANGED <<local, file, row, torn>>

-----------------------------------------------------------------------------
(* The server.  The api process handles requests in one event loop: what   *)
(* append does to the file happens in one step, the queries before and the *)
(* commit after it are steps of their own.                                 *)

FindUnsaved(r) ==
    /\ put[r].stage = "sent"
    /\ put' = [put EXCEPT ![r] = [@ EXCEPT !.stage = "found", !.seen = row]]
    /\ UNCHANGED <<local, file, row, hook, outlived, torn>>

Find(r) ==
    /\ put[r].stage = "sent"
    /\ row' = IF row = NoRow THEN 0 ELSE row
    /\ put' = [put EXCEPT ![r] = [@ EXCEPT !.stage = "found", !.seen = row']]
    /\ UNCHANGED <<local, file, hook, outlived, torn>>

Kept(r) == IF put[r].offset = 0 THEN <<>> ELSE file

Appended(r) == Kept(r) \o Pieces(put[r].offset, put[r].upto)

AcceptsAnyOffset(r) == TRUE

AcceptsOffset(r) == put[r].offset = Len(Kept(r))

Write(r) ==
    /\ put[r].stage = "found"
    /\ IF AcceptsOffset(r)
       THEN /\ file' = Appended(r)
            /\ put' = [put EXCEPT ![r].stage = "written"]
       ELSE /\ put' = [put EXCEPT ![r].stage = "refused"]
            /\ UNCHANGED file
    /\ UNCHANGED <<local, row, hook, outlived, torn>>

SizeAdded(r) == IF put[r].seen + put[r].upto - put[r].offset > MaxSize THEN MaxSize
                ELSE put[r].seen + put[r].upto - put[r].offset

\* What append returned: the size of the file when it was written.
NewSize(r) == put[r].upto

\* The ORM writes a column that differs from the value it loaded.
Commit(r) ==
    /\ put[r].stage = "written"
    /\ row' = IF NewSize(r) # put[r].seen THEN NewSize(r) ELSE row
    /\ put' = [put EXCEPT ![r].stage = "ok"]
    /\ UNCHANGED <<local, file, hook, outlived, torn>>

\* Nobody waits for the answer any more.
Drop(r) ==
    /\ put[r].stage \in {"ok", "refused"}
    /\ hook.request # r
    /\ put' = [put EXCEPT ![r] = NoPut]
    /\ UNCHANGED <<local, file, row, hook, outlived, torn>>

Interrupted == [r \in Requests |-> IF Underway(r) THEN [put[r] EXCEPT !.stage = "refused"] ELSE put[r]]

Disturbed == IF hook.phase = "off" THEN hook ELSE [hook EXCEPT !.trouble = TRUE]

ServerDies ==
    /\ \E r \in Requests : Underway(r)
    /\ put' = Interrupted
    /\ torn' = (torn \/ \E r \in Requests : put[r].stage = "written")
    /\ hook' = Disturbed
    /\ UNCHANGED <<local, file, row, outlived>>

\* The process is killed between truncating the file and the end of the write.
DiesWriting(r) ==
    /\ put[r].stage = "found" /\ AcceptsOffset(r)
    /\ \E n \in Len(Kept(r))..Len(Appended(r)) : file' = SubSeq(Appended(r), 1, n)
    /\ torn' = TRUE
    /\ put' = Interrupted
    /\ hook' = Disturbed
    /\ UNCHANGED <<local, row, outlived>>

-----------------------------------------------------------------------------
DeviceStep == Speak \/ Start \/ Ask \/ AskFails \/ Decide \/ EndOfFile \/ TakeAnswer
                 \/ LoseAnswer \/ TimeOut \/ Kill

Next ==
    \/ DeviceStep
    \/ ServerDies
    \/ \E r \in Requests :
          SendChunk(r) \/ Find(r) \/ Write(r) \/ Commit(r) \/ Drop(r) \/ DiesWriting(r)

Spec == Init /\ [][Next]_vars

-----------------------------------------------------------------------------
\* The type of every variable.
TypeOK ==
    /\ local \in Sizes
    /\ file \in Seq(Sizes)
    /\ row \in Sizes \cup {NoRow}
    /\ hook \in Hook
    /\ put \in [Requests -> Put]
    /\ outlived \in BOOLEAN
    /\ torn \in BOOLEAN

\* The stored file is a prefix of the transcript, without holes and without
\* anything twice, whatever is lost, late, sent again or cut short
\* (StorageRepository.append: the offset must be the size).
StoredInOrder == file = Pieces(0, Len(file)) /\ Len(file) <= local

\* A push that has something to send and meets no trouble leaves everything it
\* read in the store, whatever earlier pushes and crashes left there: a refused
\* offset makes it start over, and that replaces the file (push_transcript).
PushRepairs ==
    hook.phase = "off" /\ hook.sent /\ ~hook.trouble /\ ~outlived => Len(file) = hook.offset

\* A push that thinks all is sent, because every PUT was answered or because
\* the row says so, is right, as long as no request outlived its hook and no
\* crash tore the file and the row apart.
WellMeansHeld ==
    hook.phase = "off" /\ hook.well /\ ~outlived /\ ~torn => Len(file) = hook.offset

\* The same without the last two conditions, once nothing is on its way:
\* STORAGE_DIR holds the session's original.
OriginalIsHeld ==
    hook.phase = "off" /\ hook.well /\ (\A r \in Requests : ~Underway(r)) => Len(file) = hook.offset

\* What is stored is the beginning of the transcript, a push repairs what others
\* left, and what it takes for stored is stored.
PushesHold == TypeOK /\ StoredInOrder /\ PushRepairs /\ WellMeansHeld
=============================================================================
