----------------------- MODULE TranscriptUploadProofs -----------------------
(***************************************************************************)
(* Theorems about TranscriptUpload, for every chunk size and any number of *)
(* requests on their way: the stored file is a prefix of the transcript,   *)
(* and a push without trouble repairs whatever was left behind.  And about *)
(* Import, for any bounds: an importer beside the hook does it no harm.    *)
(***************************************************************************)
EXTENDS TranscriptUpload, Import, TLAPS

USE SizeAssumption, NameAssumption

LEMMA PiecesType ==
  ASSUME NEW a \in Sizes, NEW b \in Sizes
  PROVE  a <= b => Pieces(a, b) \in Seq(Sizes) /\ Len(Pieces(a, b)) = b - a
BY DEF Pieces, Sizes

\* What a chunk read at the end of the file adds to it.
LEMMA PiecesJoin ==
  ASSUME NEW a \in Sizes, NEW b \in Sizes, a <= b
  PROVE  Pieces(0, a) \o Pieces(a, b) = Pieces(0, b)
BY PiecesType DEF Pieces, Sizes

LEMMA PiecesCut ==
  ASSUME NEW b \in Sizes, NEW n \in 0..b
  PROVE  SubSeq(Pieces(0, b), 1, n) = Pieces(0, n)
BY PiecesType DEF Pieces, Sizes

-----------------------------------------------------------------------------
LEMMA Records == Resting \in Hook /\ NoPut \in Put
  BY DEF Resting, NoPut, Hook, Put, Sizes

LEMMA HookFields ==
  ASSUME NEW h \in Hook
  PROVE  /\ h.phase \in {"off", "asking", "asked", "sending", "waiting"}
         /\ h.base \in Sizes /\ h.offset \in Sizes /\ h.request \in Requests \cup {NoRequest}
         /\ h.again \in BOOLEAN /\ h.sent \in BOOLEAN /\ h.well \in BOOLEAN /\ h.trouble \in BOOLEAN
  BY DEF Hook

LEMMA PutFields ==
  ASSUME NEW p \in Put
  PROVE  /\ p.stage \in {"free", "sent", "found", "written", "ok", "refused"}
         /\ p.offset \in Sizes /\ p.upto \in Sizes /\ p.seen \in Sizes
  BY DEF Put

LEMMA FailedType ==
  ASSUME NEW h \in Hook
  PROVE  Failed(h) \in Hook
  <1>1. 0 \in Sizes
    BY DEF Sizes
  <1>2. CASE h.base # 0 /\ ~h.again
    <2>1. Failed(h) = [h EXCEPT !.phase = "sending", !.offset = 0, !.again = TRUE, !.request = NoRequest]
      BY <1>2 DEF Failed
    <2> QED BY <2>1, <1>1 DEF Hook
  <1>3. CASE ~(h.base # 0 /\ ~h.again)
    <2>1. Failed(h) = [h EXCEPT !.phase = "off", !.request = NoRequest]
      BY <1>3 DEF Failed
    <2> QED BY <2>1 DEF Hook
  <1> QED BY <1>2, <1>3

LEMMA StandingBack == hook \in Hook => Disturbed \in Hook
  <1>1. CASE hook.phase = "off"
    BY <1>1 DEF Disturbed
  <1>2. CASE hook.phase # "off"
    <2>1. Disturbed = [hook EXCEPT !.trouble = TRUE]
      BY <1>2 DEF Disturbed
    <2> QED BY <2>1 DEF Hook
  <1> QED BY <1>1, <1>2

LEMMA DisturbedFields ==
  ASSUME hook \in Hook
  PROVE  /\ Disturbed.phase = hook.phase /\ Disturbed.request = hook.request /\ Disturbed.base = hook.base
         /\ Disturbed.offset = hook.offset /\ Disturbed.again = hook.again
         /\ Disturbed.sent = hook.sent /\ Disturbed.well = hook.well
         /\ hook.phase # "off" => Disturbed.trouble
  <1>1. CASE hook.phase = "off"
    BY <1>1 DEF Disturbed
  <1>2. CASE hook.phase # "off"
    <2>1. Disturbed = [hook EXCEPT !.trouble = TRUE]
      BY <1>2 DEF Disturbed
    <2> QED BY <2>1 DEF Hook
  <1> QED BY <1>1, <1>2

LEMMA InterruptedType == put \in [Requests -> Put] => Interrupted \in [Requests -> Put]
  BY DEF Interrupted, Put

(* A waiting hook waits for a request.                                     *)
Waits == hook.phase = "waiting" <=> hook.request # NoRequest

(* What is stored, and what is on its way to be stored.                    *)
Ordered ==
    /\ StoredInOrder
    /\ \A r \in Requests : put[r].offset <= put[r].upto /\ put[r].upto <= local

LEMMA KeptInOrder ==
  ASSUME TypeOK, Ordered, NEW r \in Requests, AcceptsOffset(r)
  PROVE  /\ Appended(r) = Pieces(0, put[r].upto)
         /\ Appended(r) \in Seq(Sizes)
         /\ Len(Appended(r)) = put[r].upto
         /\ Len(Kept(r)) = put[r].offset
  <1>1. put[r].offset \in Sizes /\ put[r].upto \in Sizes /\ put[r].offset <= put[r].upto
    BY PutFields DEF TypeOK, Ordered
  <1>2. Kept(r) = Pieces(0, put[r].offset)
    <2>1. CASE put[r].offset = 0
      BY <2>1 DEF Kept, Pieces
    <2>2. CASE put[r].offset # 0
      BY <2>2 DEF Kept, AcceptsOffset, Ordered, StoredInOrder
    <2> QED BY <2>1, <2>2
  <1>3. Appended(r) = Pieces(0, put[r].upto)
    BY <1>1, <1>2, PiecesJoin DEF Appended
  <1>4. 0 \in Sizes /\ 0 <= put[r].upto
    BY <1>1 DEF Sizes
  <1>5. Pieces(0, put[r].upto) \in Seq(Sizes) /\ Len(Pieces(0, put[r].upto)) = put[r].upto - 0
    BY <1>1, <1>4, PiecesType
  <1>6. put[r].upto - 0 = put[r].upto
    BY <1>1 DEF Sizes
  <1> QED BY <1>3, <1>5, <1>6 DEF AcceptsOffset

-----------------------------------------------------------------------------
(* Every variable keeps its type; the type needs to know what Appended is. *)
LEMMA TypeStep == TypeOK /\ Waits /\ Ordered /\ [Next]_vars => TypeOK'
  <1> SUFFICES ASSUME TypeOK, Waits, Ordered, [Next]_vars PROVE TypeOK'
    OBVIOUS
  <1> USE HookFields, PutFields, Records
  <1> USE DEF TypeOK
  <1>1. CASE Speak
    BY <1>1 DEF Speak, Sizes, Hook, Put
  <1>2. CASE Start
    BY <1>2 DEF Start, Sizes, Hook, Put
  <1>3. CASE Ask
    <2>1. (IF row = NoRow THEN 0 ELSE row) \in Sizes
      BY DEF Sizes
    <2> QED BY <1>3, <2>1 DEF Ask, Hook
  <1>4. CASE AskFails
    BY <1>4 DEF AskFails, Sizes, Hook, Put
  <1>5. CASE Decide
    <2>1. CASE local = hook.base
      <3>1. hook' = [hook EXCEPT !.offset = hook.base, !.phase = "off", !.well = TRUE, !.request = NoRequest]
        BY <1>5, <2>1 DEF Decide, Done
      <3> QED BY <1>5, <3>1 DEF Decide, Hook
    <2>2. CASE local # hook.base
      <3>1. (IF hook.base <= local THEN hook.base ELSE 0) \in Sizes
        BY DEF Sizes
      <3>2. hook' = [hook EXCEPT !.phase = "sending", !.offset = IF hook.base <= local THEN hook.base ELSE 0]
        BY <1>5, <2>2 DEF Decide
      <3> QED BY <1>5, <3>1, <3>2 DEF Decide, Hook
    <2> QED BY <2>1, <2>2
  <1>6. CASE EndOfFile
    BY <1>6 DEF EndOfFile, Done, Sizes, Hook, Put
  <1>7. CASE TakeAnswer
    <2> DEFINE r == hook.request
    <2>1. r \in Requests
      BY <1>7 DEF Waits, TakeAnswer
    <2>2. put' \in [Requests -> Put]
      BY <1>7 DEF TakeAnswer
    <2>3. CASE put[r].stage = "ok"
      <3>1. hook' = [hook EXCEPT !.phase = "sending", !.offset = put[r].upto, !.request = NoRequest]
        BY <1>7, <2>3 DEF TakeAnswer
      <3>2. hook' \in Hook
        BY <2>1, <3>1 DEF Hook
      <3> QED BY <1>7, <2>2, <3>2 DEF TakeAnswer
    <2>4. CASE put[r].stage # "ok"
      BY <1>7, <2>2, <2>4, FailedType DEF TakeAnswer
    <2> QED BY <2>3, <2>4
  <1>8. CASE LoseAnswer
    BY <1>8, FailedType DEF LoseAnswer, Hook, Put
  <1>9. CASE TimeOut
    BY <1>9, FailedType DEF TimeOut, Hook, Put
  <1>10. CASE Kill
    BY <1>10, FailedType DEF Kill, Underway, Sizes, Hook, Put
  <1>11. CASE ServerDies
    BY <1>11, StandingBack, InterruptedType DEF ServerDies
  <1>12. ASSUME NEW r \in Requests, SendChunk(r) PROVE TypeOK'
    <2> DEFINE upto == IF hook.offset + Chunk <= local THEN hook.offset + Chunk ELSE local
    <2>1. upto \in Sizes
      BY DEF Sizes
    <2>2. [NoPut EXCEPT !.stage = "sent", !.offset = hook.offset, !.upto = upto] \in Put
      BY <2>1 DEF NoPut, Put, Sizes
    <2>3. put' \in [Requests -> Put]
      BY <1>12, <2>2 DEF SendChunk
    <2> QED BY <1>12, <2>3 DEF SendChunk, Hook
  <1>13. ASSUME NEW r \in Requests, Find(r) PROVE TypeOK'
    <2>1. row' \in Sizes
      BY <1>13 DEF Find, Sizes
    <2>2. [put[r] EXCEPT !.stage = "found", !.seen = row'] \in Put
      BY <2>1 DEF Put
    <2>3. put' \in [Requests -> Put]
      BY <1>13, <2>2 DEF Find
    <2> QED BY <1>13, <2>1, <2>3 DEF Find
  <1>14. ASSUME NEW r \in Requests, Write(r) PROVE TypeOK'
    <2>1. put' \in [Requests -> Put]
      BY <1>14 DEF Write, Put
    <2>2. file' \in Seq(Sizes)
      BY <1>14, KeptInOrder DEF Write
    <2> QED BY <1>14, <2>1, <2>2 DEF Write
  <1>15. ASSUME NEW r \in Requests, Commit(r) PROVE TypeOK'
    <2>1. row' \in Sizes \cup {NoRow}
      BY <1>15 DEF Commit, NewSize
    <2>2. put' \in [Requests -> Put]
      BY <1>15 DEF Commit, Put
    <2> QED BY <1>15, <2>1, <2>2 DEF Commit
  <1>16. ASSUME NEW r \in Requests, Drop(r) PROVE TypeOK'
    BY <1>16 DEF Drop, Sizes, Hook, Put
  <1>17. ASSUME NEW r \in Requests, DiesWriting(r) PROVE TypeOK'
    BY <1>17, KeptInOrder, StandingBack, InterruptedType DEF DiesWriting
  <1>18. CASE UNCHANGED vars
    BY <1>18 DEF vars
  <1> QED BY <1>1, <1>2, <1>3, <1>4, <1>5, <1>6, <1>7, <1>8, <1>9, <1>10, <1>11, <1>12, <1>13, <1>14, <1>15, <1>16, <1>17, <1>18 DEF Next, DeviceStep

LEMMA WaitStep == TypeOK /\ Waits /\ [Next]_vars => Waits'
  <1> SUFFICES ASSUME TypeOK, Waits, [Next]_vars PROVE Waits'
    OBVIOUS
  <1> USE HookFields
  <1> USE DEF TypeOK, Waits
  <1>1. CASE Speak
    BY <1>1 DEF Speak
  <1>2. CASE Start
    BY <1>2 DEF Start, Resting
  <1>3. CASE Ask
    BY <1>3 DEF Ask
  <1>4. CASE AskFails
    BY <1>4 DEF AskFails
  <1>5. CASE Decide
    BY <1>5 DEF Decide, Done
  <1>6. CASE EndOfFile
    BY <1>6 DEF EndOfFile, Done
  <1>7. CASE TakeAnswer
    BY <1>7 DEF TakeAnswer, Failed
  <1>8. CASE LoseAnswer
    BY <1>8 DEF LoseAnswer, Failed
  <1>9. CASE TimeOut
    BY <1>9 DEF TimeOut, Failed
  <1>10. CASE Kill
    BY <1>10 DEF Kill
  <1>11. CASE ServerDies
    BY <1>11 DEF ServerDies, Disturbed
  <1>12. ASSUME NEW r \in Requests, SendChunk(r) PROVE Waits'
    BY <1>12 DEF SendChunk
  <1>13. ASSUME NEW r \in Requests, Find(r) PROVE Waits'
    BY <1>13 DEF Find
  <1>14. ASSUME NEW r \in Requests, Write(r) PROVE Waits'
    BY <1>14 DEF Write
  <1>15. ASSUME NEW r \in Requests, Commit(r) PROVE Waits'
    BY <1>15 DEF Commit
  <1>16. ASSUME NEW r \in Requests, Drop(r) PROVE Waits'
    BY <1>16 DEF Drop
  <1>17. ASSUME NEW r \in Requests, DiesWriting(r) PROVE Waits'
    BY <1>17 DEF DiesWriting, Disturbed
  <1>18. CASE UNCHANGED vars
    BY <1>18 DEF vars
  <1> QED BY <1>1, <1>2, <1>3, <1>4, <1>5, <1>6, <1>7, <1>8, <1>9, <1>10, <1>11, <1>12, <1>13, <1>14, <1>15, <1>16, <1>17, <1>18 DEF Next, DeviceStep

LEMMA OrderStep == TypeOK /\ Waits /\ Ordered /\ [Next]_vars => Ordered'
  <1> SUFFICES ASSUME TypeOK, Waits, Ordered, [Next]_vars PROVE Ordered'
    OBVIOUS
  <1> USE HookFields, PutFields
  <1> USE DEF TypeOK, Ordered, Sizes
  <1>1. CASE Speak
    BY <1>1 DEF Speak, StoredInOrder
  <1>2. CASE Start
    BY <1>2 DEF Start, StoredInOrder
  <1>3. CASE Ask
    BY <1>3 DEF Ask, StoredInOrder
  <1>4. CASE AskFails
    BY <1>4 DEF AskFails, StoredInOrder
  <1>5. CASE Decide
    BY <1>5 DEF Decide, StoredInOrder
  <1>6. CASE EndOfFile
    BY <1>6 DEF EndOfFile, StoredInOrder
  <1>7. CASE TakeAnswer
    BY <1>7 DEF TakeAnswer, NoPut, StoredInOrder
  <1>8. CASE LoseAnswer
    BY <1>8 DEF LoseAnswer, NoPut, StoredInOrder
  <1>9. CASE TimeOut
    BY <1>9 DEF TimeOut, StoredInOrder
  <1>10. CASE Kill
    BY <1>10 DEF Kill, NoPut, StoredInOrder
  <1>11. CASE ServerDies
    BY <1>11 DEF ServerDies, Interrupted, StoredInOrder
  <1>12. ASSUME NEW r \in Requests, SendChunk(r) PROVE Ordered'
    BY <1>12 DEF SendChunk, NoPut, StoredInOrder
  <1>13. ASSUME NEW r \in Requests, Find(r) PROVE Ordered'
    BY <1>13 DEF Find, StoredInOrder
  <1>14. ASSUME NEW r \in Requests, Write(r) PROVE Ordered'
    <2>1. \A q \in Requests : put'[q].offset = put[q].offset /\ put'[q].upto = put[q].upto
      <3>1. \/ put' = [put EXCEPT ![r].stage = "written"]
            \/ put' = [put EXCEPT ![r].stage = "refused"]
        BY <1>14 DEF Write
      <3>2. CASE put' = [put EXCEPT ![r].stage = "written"]
        BY <3>2
      <3>3. CASE put' = [put EXCEPT ![r].stage = "refused"]
        BY <3>3
      <3> QED BY <3>1, <3>2, <3>3
    <2>2. put[r].upto \in Sizes /\ put[r].upto <= local
      OBVIOUS
    <2>3. StoredInOrder'
      <3>1. CASE AcceptsOffset(r)
        <4>1. file' = Pieces(0, put[r].upto) /\ Len(file') = put[r].upto /\ local' = local
          BY <1>14, <3>1, KeptInOrder DEF Write
        <4> QED BY <4>1, <2>2 DEF StoredInOrder
      <3>2. CASE ~AcceptsOffset(r)
        BY <1>14, <3>2 DEF Write, StoredInOrder
      <3> QED BY <3>1, <3>2
    <2> QED BY <1>14, <2>1, <2>3 DEF Write
  <1>15. ASSUME NEW r \in Requests, Commit(r) PROVE Ordered'
    BY <1>15 DEF Commit, StoredInOrder
  <1>16. ASSUME NEW r \in Requests, Drop(r) PROVE Ordered'
    BY <1>16 DEF Drop, NoPut, StoredInOrder
  <1>17. ASSUME NEW r \in Requests, DiesWriting(r) PROVE Ordered'
    <2>1. \A q \in Requests : put'[q].offset = put[q].offset /\ put'[q].upto = put[q].upto
      BY <1>17 DEF DiesWriting, Interrupted
    <2>2. put[r].upto \in Sizes /\ put[r].upto <= local
      OBVIOUS
    <2>3. PICK n \in Len(Kept(r))..Len(Appended(r)) : file' = SubSeq(Appended(r), 1, n)
      BY <1>17 DEF DiesWriting
    <2>4. AcceptsOffset(r) /\ local' = local
      BY <1>17 DEF DiesWriting
    <2>5. /\ Appended(r) = Pieces(0, put[r].upto)
          /\ Len(Appended(r)) = put[r].upto
          /\ Len(Kept(r)) = put[r].offset
      BY <2>4, KeptInOrder
    <2>6. n \in 0..put[r].upto /\ n \in Sizes /\ n <= local /\ 0 \in Sizes /\ 0 <= n
      BY <2>2, <2>5
    <2>7. file' = Pieces(0, n)
      BY <2>2, <2>3, <2>5, <2>6, PiecesCut
    <2>8. Len(file') = n
      BY <2>6, <2>7, PiecesType
    <2>9. StoredInOrder'
      BY <2>4, <2>6, <2>7, <2>8 DEF StoredInOrder
    <2> QED BY <2>1, <2>4, <2>9
  <1>18. CASE UNCHANGED vars
    BY <1>18 DEF vars, StoredInOrder
  <1> QED BY <1>1, <1>2, <1>3, <1>4, <1>5, <1>6, <1>7, <1>8, <1>9, <1>10, <1>11, <1>12, <1>13, <1>14, <1>15, <1>16, <1>17, <1>18 DEF Next, DeviceStep

-----------------------------------------------------------------------------
(* While no request has outlived its hook, the request the hook waits for  *)
(* is the only one.                                                        *)
Alone ==
    /\ hook.phase # "off" => local > 0
    /\ ~outlived => \A r \in Requests : put[r].stage # "free" => hook.request = r

(* A run that has met no trouble: either it knows where the file ends, or  *)
(* it is the first attempt, which goes by the row and may be refused.      *)
Repairing ==
    ~outlived /\ ~hook.trouble =>
        /\ hook.phase \in {"asking", "asked"} => ~hook.sent /\ ~hook.again
        /\ hook.phase = "sending" =>
              \/ hook.offset = 0
              \/ hook.sent /\ Len(file) = hook.offset
              \/ ~hook.sent /\ hook.offset = hook.base /\ ~hook.again
        /\ hook.phase = "waiting" =>
              /\ hook.sent
              /\ put[hook.request].stage \in {"sent", "found"} /\ put[hook.request].offset # 0 =>
                    \/ Len(file) = put[hook.request].offset
                    \/ hook.base # 0 /\ ~hook.again
              /\ put[hook.request].stage \in {"written", "ok"} => Len(file) = put[hook.request].upto
              /\ put[hook.request].stage = "refused" => hook.base # 0 /\ ~hook.again
        /\ hook.phase = "off" /\ hook.sent => Len(file) = hook.offset

(* The size in the row is the size of the file, but for the moment between *)
(* the write and the commit.                                               *)
Honest ==
    ~outlived /\ ~torn =>
        /\ (\A r \in Requests : put[r].stage # "written") => (IF row = NoRow THEN 0 ELSE row) = Len(file)
        /\ \A r \in Requests : put[r].stage \in {"found", "written"} => row = put[r].seen
        /\ \A r \in Requests : put[r].stage \in {"written", "ok"} => Len(file) = put[r].upto
        /\ hook.phase = "asking" => hook.base = 0
        /\ hook.phase = "asked" => hook.base = 0 \/ hook.base = Len(file)
        /\ hook.phase = "sending" => hook.offset = 0 \/ hook.offset = Len(file)
        /\ hook.phase = "off" /\ hook.well => Len(file) = hook.offset
        /\ hook.phase # "off" => ~hook.well

LEMMA AloneStep == TypeOK /\ Waits /\ Alone /\ [Next]_vars => Alone'
  <1> SUFFICES ASSUME TypeOK, Waits, Alone, [Next]_vars PROVE Alone'
    OBVIOUS
  <1> USE HookFields, PutFields
  <1> USE DEF TypeOK, Waits, Alone, Sizes
  <1>1. CASE Speak
    BY <1>1 DEF Speak
  <1>2. CASE Start
    BY <1>2 DEF Start, Resting
  <1>3. CASE Ask
    BY <1>3 DEF Ask
  <1>4. CASE AskFails
    BY <1>4 DEF AskFails
  <1>5. CASE Decide
    BY <1>5 DEF Decide, Done
  <1>6. CASE EndOfFile
    BY <1>6 DEF EndOfFile, Done
  <1>7. CASE TakeAnswer
    BY <1>7 DEF TakeAnswer, NoPut, Failed
  <1>8. CASE LoseAnswer
    BY <1>8 DEF LoseAnswer, NoPut, Failed
  <1>9. CASE TimeOut
    BY <1>9 DEF TimeOut, Failed
  <1>10. CASE Kill
    BY <1>10 DEF Kill, NoPut, Underway
  <1>11. CASE ServerDies
    BY <1>11 DEF ServerDies, Disturbed, Interrupted, Underway
  <1>12. ASSUME NEW r \in Requests, SendChunk(r) PROVE Alone'
    BY <1>12 DEF SendChunk, NoPut
  <1>13. ASSUME NEW r \in Requests, Find(r) PROVE Alone'
    BY <1>13 DEF Find
  <1>14. ASSUME NEW r \in Requests, Write(r) PROVE Alone'
    BY <1>14 DEF Write
  <1>15. ASSUME NEW r \in Requests, Commit(r) PROVE Alone'
    BY <1>15 DEF Commit, NewSize
  <1>16. ASSUME NEW r \in Requests, Drop(r) PROVE Alone'
    BY <1>16 DEF Drop, NoPut
  <1>17. ASSUME NEW r \in Requests, DiesWriting(r) PROVE Alone'
    <2>1. \A q \in Requests : put'[q].stage # "free" => put[q].stage # "free"
      BY <1>17 DEF DiesWriting, Interrupted, Underway
    <2>2. hook'.phase = hook.phase /\ hook'.request = hook.request /\ local' = local /\ outlived' = outlived
      BY <1>17, DisturbedFields DEF DiesWriting
    <2> QED BY <2>1, <2>2
  <1>18. CASE UNCHANGED vars
    BY <1>18 DEF vars
  <1> QED BY <1>1, <1>2, <1>3, <1>4, <1>5, <1>6, <1>7, <1>8, <1>9, <1>10, <1>11, <1>12, <1>13, <1>14, <1>15, <1>16, <1>17, <1>18 DEF Next, DeviceStep

LEMMA RepairStep == TypeOK /\ Waits /\ Ordered /\ Alone /\ Repairing /\ [Next]_vars => Repairing'
  <1> SUFFICES ASSUME TypeOK, Waits, Ordered, Alone, Repairing, [Next]_vars PROVE Repairing'
    OBVIOUS
  <1> USE HookFields, PutFields
  <1> USE DEF TypeOK, Waits, Alone, Repairing, Sizes
  <1>1. CASE Speak
    BY <1>1 DEF Speak
  <1>2. CASE Start
    BY <1>2 DEF Start, Resting
  <1>3. CASE Ask
    BY <1>3 DEF Ask
  <1>4. CASE AskFails
    BY <1>4 DEF AskFails
  <1>5. CASE Decide
    BY <1>5 DEF Decide, Done
  <1>6. CASE EndOfFile
    BY <1>6 DEF EndOfFile, Done
  <1>7. CASE TakeAnswer
    <2> DEFINE q == hook.request
    <2>1. q \in Requests
      BY <1>7 DEF TakeAnswer
    <2>2. CASE put[q].stage = "ok"
      <3>1. hook' = [hook EXCEPT !.phase = "sending", !.offset = put[q].upto, !.request = NoRequest]
        BY <1>7, <2>2 DEF TakeAnswer
      <3>2. /\ hook'.phase = "sending" /\ hook'.offset = put[q].upto
            /\ hook'.trouble <=> hook.trouble
            /\ hook'.sent <=> hook.sent
        BY <3>1 DEF Hook
      <3>3. ~outlived /\ ~hook.trouble => hook.sent /\ Len(file) = put[q].upto
        BY <1>7, <2>2 DEF TakeAnswer
      <3> QED BY <1>7, <3>2, <3>3 DEF TakeAnswer
    <2>3. CASE put[q].stage = "refused"
      <3>1. hook' = Failed(hook)
        BY <1>7, <2>3 DEF TakeAnswer
      <3>2. CASE hook.base # 0 /\ ~hook.again
        <4>1. hook' = [hook EXCEPT !.phase = "sending", !.offset = 0, !.again = TRUE, !.request = NoRequest]
          BY <3>1, <3>2 DEF Failed
        <4>2. hook'.phase = "sending" /\ hook'.offset = 0
          BY <4>1 DEF Hook
        <4> QED BY <1>7, <4>2 DEF TakeAnswer
      <3>3. CASE ~(hook.base # 0 /\ ~hook.again)
        <4>1. hook' = [hook EXCEPT !.phase = "off", !.request = NoRequest]
          BY <3>1, <3>3 DEF Failed
        <4>2. outlived \/ hook.trouble
          BY <1>7, <2>1, <2>3, <3>3 DEF TakeAnswer
        <4>3. hook'.phase = "off" /\ (hook'.trouble <=> hook.trouble)
          BY <4>1 DEF Hook
        <4> QED BY <1>7, <4>2, <4>3 DEF TakeAnswer
      <3> QED BY <3>2, <3>3
    <2> QED BY <1>7, <2>2, <2>3 DEF TakeAnswer
  <1>8. CASE LoseAnswer
    BY <1>8 DEF LoseAnswer, NoPut, Failed
  <1>9. CASE TimeOut
    BY <1>9 DEF TimeOut, Failed
  <1>10. CASE Kill
    BY <1>10 DEF Kill, NoPut, Underway
  <1>11. CASE ServerDies
    <2>1. ~outlived => hook.phase # "off"
      BY <1>11 DEF ServerDies, Underway
    <2>2. ~outlived => hook'.trouble
      BY <1>11, <2>1, DisturbedFields DEF ServerDies
    <2> QED BY <1>11, <2>2 DEF ServerDies
  <1>12. ASSUME NEW r \in Requests, SendChunk(r) PROVE Repairing'
    BY <1>12 DEF SendChunk, NoPut
  <1>13. ASSUME NEW r \in Requests, Find(r) PROVE Repairing'
    BY <1>13 DEF Find
  <1>14. ASSUME NEW r \in Requests, Write(r) PROVE Repairing'
    <2>1. CASE AcceptsOffset(r)
      <3>1. Len(file') = put[r].upto /\ put' = [put EXCEPT ![r].stage = "written"]
        BY <1>14, <2>1, KeptInOrder DEF Write
      <3> QED BY <1>14, <3>1 DEF Write
    <2>2. CASE ~AcceptsOffset(r)
      <3>1. file' = file /\ put' = [put EXCEPT ![r].stage = "refused"]
        BY <1>14, <2>2 DEF Write
      <3>2. put[r].offset # 0 /\ put[r].offset # Len(file)
        BY <2>2 DEF AcceptsOffset, Kept
      <3> QED BY <1>14, <3>1, <3>2 DEF Write
    <2> QED BY <2>1, <2>2
  <1>15. ASSUME NEW r \in Requests, Commit(r) PROVE Repairing'
    BY <1>15 DEF Commit, NewSize
  <1>16. ASSUME NEW r \in Requests, Drop(r) PROVE Repairing'
    BY <1>16 DEF Drop, NoPut
  <1>17. ASSUME NEW r \in Requests, DiesWriting(r) PROVE Repairing'
    <2>1. ~outlived => hook.phase # "off"
      BY <1>17 DEF DiesWriting
    <2>2. ~outlived => hook'.trouble
      BY <1>17, <2>1, DisturbedFields DEF DiesWriting
    <2> QED BY <1>17, <2>2 DEF DiesWriting
  <1>18. CASE UNCHANGED vars
    BY <1>18 DEF vars
  <1> QED BY <1>1, <1>2, <1>3, <1>4, <1>5, <1>6, <1>7, <1>8, <1>9, <1>10, <1>11, <1>12, <1>13, <1>14, <1>15, <1>16, <1>17, <1>18 DEF Next, DeviceStep

LEMMA HonestStep == TypeOK /\ Waits /\ Ordered /\ Alone /\ Honest /\ [Next]_vars => Honest'
  <1> SUFFICES ASSUME TypeOK, Waits, Ordered, Alone, Honest, [Next]_vars PROVE Honest'
    OBVIOUS
  <1> USE HookFields, PutFields
  <1> USE DEF TypeOK, Waits, Alone, Honest, Sizes
  <1>1. CASE Speak
    BY <1>1 DEF Speak
  <1>2. CASE Start
    BY <1>2 DEF Start, Resting
  <1>3. CASE Ask
    BY <1>3 DEF Ask
  <1>4. CASE AskFails
    BY <1>4 DEF AskFails
  <1>5. CASE Decide
    BY <1>5 DEF Decide, Done
  <1>6. CASE EndOfFile
    BY <1>6 DEF EndOfFile, Done
  <1>7. CASE TakeAnswer
    BY <1>7 DEF TakeAnswer, NoPut, Failed
  <1>8. CASE LoseAnswer
    BY <1>8 DEF LoseAnswer, NoPut, Failed
  <1>9. CASE TimeOut
    BY <1>9 DEF TimeOut, Failed
  <1>10. CASE Kill
    BY <1>10 DEF Kill, NoPut, Underway
  <1>11. CASE ServerDies
    <2>1. /\ hook'.phase = hook.phase /\ hook'.base = hook.base
          /\ hook'.offset = hook.offset /\ (hook'.well <=> hook.well)
      BY <1>11, DisturbedFields DEF ServerDies
    <2>2. ~torn' => ~torn /\ \A q \in Requests : put[q].stage # "written"
      BY <1>11 DEF ServerDies
    <2>3. \A q \in Requests : put'[q].stage \in {"found", "written", "ok"} => put'[q] = put[q]
      BY <1>11 DEF ServerDies, Interrupted, Underway
    <2>4. UNCHANGED <<local, file, row, outlived>>
      BY <1>11 DEF ServerDies
    <2> QED BY <2>1, <2>2, <2>3, <2>4
  <1>12. ASSUME NEW r \in Requests, SendChunk(r) PROVE Honest'
    BY <1>12 DEF SendChunk, NoPut
  <1>13. ASSUME NEW r \in Requests, Find(r) PROVE Honest'
    BY <1>13 DEF Find
  <1>14. ASSUME NEW r \in Requests, Write(r) PROVE Honest'
    <2>1. CASE AcceptsOffset(r)
      <3>1. Len(file') = put[r].upto /\ put' = [put EXCEPT ![r].stage = "written"]
        BY <1>14, <2>1, KeptInOrder DEF Write
      <3>2. /\ put[r].stage = "found" /\ UNCHANGED <<local, row, hook, outlived, torn>>
            /\ \A q \in Requests \ {r} : put'[q] = put[q]
            /\ put'[r].stage = "written" /\ put'[r].seen = put[r].seen /\ put'[r].upto = put[r].upto
        BY <1>14, <3>1 DEF Write, Put
      <3> QED BY <3>1, <3>2
    <2>2. CASE ~AcceptsOffset(r)
      <3>1. file' = file /\ put' = [put EXCEPT ![r].stage = "refused"]
        BY <1>14, <2>2 DEF Write
      <3> QED BY <1>14, <3>1 DEF Write
    <2> QED BY <2>1, <2>2
  <1>15. ASSUME NEW r \in Requests, Commit(r) PROVE Honest'
    BY <1>15 DEF Commit, NewSize
  <1>16. ASSUME NEW r \in Requests, Drop(r) PROVE Honest'
    BY <1>16 DEF Drop, NoPut
  <1>17. ASSUME NEW r \in Requests, DiesWriting(r) PROVE Honest'
    BY <1>17, KeptInOrder DEF DiesWriting, Disturbed, Interrupted
  <1>18. CASE UNCHANGED vars
    BY <1>18 DEF vars
  <1> QED BY <1>1, <1>2, <1>3, <1>4, <1>5, <1>6, <1>7, <1>8, <1>9, <1>10, <1>11, <1>12, <1>13, <1>14, <1>15, <1>16, <1>17, <1>18 DEF Next, DeviceStep

-----------------------------------------------------------------------------
(* The inductive invariant.                                                *)
UploadInv == TypeOK /\ Waits /\ Ordered /\ Alone /\ Repairing /\ Honest

LEMMA InitUpload == Init => UploadInv
  <1> SUFFICES ASSUME Init PROVE UploadInv
    OBVIOUS
  <1>1. TypeOK
    <2>1. hook \in Hook /\ put \in [Requests -> Put]
      BY Records DEF Init
    <2>2. file \in Seq(Sizes)
      BY DEF Init
    <2>3. local \in Sizes /\ row = NoRow
      BY DEF Init, Sizes
    <2>4. outlived \in BOOLEAN /\ torn \in BOOLEAN
      BY Zenon DEF Init
    <2> QED BY <2>1, <2>2, <2>3, <2>4 DEF TypeOK
  <1> USE DEF Init, Resting
  <1>2. Waits /\ Alone
    BY DEF Waits, Alone, NoPut
  <1>3. Ordered
    <2>1. Pieces(0, 0) = <<>>
      BY DEF Pieces
    <2> QED BY <2>1 DEF Ordered, StoredInOrder, NoPut
  <1>4. Repairing /\ Honest
    BY DEF Repairing, Honest, NoPut
  <1> QED BY <1>1, <1>2, <1>3, <1>4 DEF UploadInv

THEOREM UploadInvariant == Spec => []UploadInv
  <1>1. UploadInv /\ [Next]_vars => UploadInv'
    BY TypeStep, WaitStep, OrderStep, AloneStep, RepairStep, HonestStep DEF UploadInv
  <1> QED BY <1>1, InitUpload, PTL DEF Spec

\* Every variable keeps its type, for any chunk size and any number of requests.
THEOREM UploadTypeCorrect == Spec => []TypeOK
  <1>1. UploadInv => TypeOK
    BY DEF UploadInv
  <1> QED BY <1>1, UploadInvariant, PTL

\* The stored file is a prefix of the transcript, through lost answers, late
\* requests, retries and crashes (StorageRepository.append).
THEOREM StoreIsAPrefix == Spec => []StoredInOrder
  <1>1. UploadInv => StoredInOrder
    BY DEF UploadInv, Ordered
  <1> QED BY <1>1, UploadInvariant, PTL

\* One push without trouble repairs whatever was left behind (push_transcript).
THEOREM OnePushRepairs == Spec => []PushRepairs
  <1>1. UploadInv => PushRepairs
    BY DEF UploadInv, Repairing, PushRepairs
  <1> QED BY <1>1, UploadInvariant, PTL

\* Unless a crash tore the row from the file or a request came late, a push
\* that ends well has stored all it read (push_transcript, IngestService.append).
THEOREM WellPushedIsHeld == Spec => []WellMeansHeld
  <1>1. UploadInv => WellMeansHeld
    BY DEF UploadInv, Honest, WellMeansHeld
  <1> QED BY <1>1, UploadInvariant, PTL

\* What is stored, what a push leaves and what it believes all agree.
THEOREM PushesAlwaysHold == Spec => []PushesHold
  BY UploadTypeCorrect, StoreIsAPrefix, OnePushRepairs, WellPushedIsHeld, PTL DEF PushesHold

-----------------------------------------------------------------------------
\* Import: the importer beside the hook.

SenderRecord == [phase: {"off", "ask", "send", "post"}, said: Nat, upto: Nat, base: Nat, offset: Nat,
                 again: BOOLEAN, well: BOOLEAN]
QueuedRecord == [status: {"none", "pending", "claimed", "done"}, announced: Nat, active: BOOLEAN, read: Nat,
                 crossed: BOOLEAN]

ImportTypeOK ==
    /\ spoken \in Nat /\ held \in Seq(Nat)
    /\ queued \in QueuedRecord /\ written \in [from: Nat, crossed: BOOLEAN]
    /\ stop \in SenderRecord /\ import \in SenderRecord
    /\ stops \in Nat /\ imports \in Nat
    /\ failed \in BOOLEAN /\ beyond \in BOOLEAN /\ mixed \in BOOLEAN

\* Who sends has n pieces at most to send, and does not send what is sent.
Sends(c, n) ==
    /\ c.said <= n /\ c.upto <= n /\ c.offset <= c.upto
    /\ c.phase \in {"ask", "send"} => ~c.well
    /\ c.phase = "ask" => c.said > 0
    /\ c.phase = "send" => c.said <= c.upto

\* No call failed, and no importer ran beside a hook or announced more than the
\* server held.
Untroubled == ~failed /\ ~beyond /\ ~mixed

\* Then the hook sends what the server lacks, and has sent what it announces;
\* but for while an importer is at work the server has what was announced, and
\* what a worker reads is all of it.
Orderly ==
    Untroubled =>
        /\ stop.phase = "off" \/ import.phase = "off"
        /\ stop.phase = "send" => stop.offset = Len(held)
        /\ stop.phase = "post" => stop.said <= Len(held)
        /\ import.phase = "off" => queued.announced <= Len(held)
        /\ queued.status = "claimed" /\ ~queued.crossed /\ ~queued.active => queued.read >= queued.announced
        /\ queued.status = "done" /\ ~written.crossed => written.from >= queued.announced

ImportInv ==
    /\ ImportTypeOK /\ HeldInOrder /\ Len(held) <= spoken
    /\ Sends(stop, spoken) /\ Sends(import, spoken) /\ Orderly

-----------------------------------------------------------------------------
LEMMA PiecesFromTheStart ==
  ASSUME NEW n \in Nat
  PROVE  PiecesOf(0, n) \in Seq(Nat) /\ Len(PiecesOf(0, n)) = n
  BY DEF PiecesOf

LEMMA PiecesAdded ==
  ASSUME NEW a \in Nat, NEW b \in Nat, a <= b
  PROVE  PiecesOf(0, a) \o PiecesOf(a, b) = PiecesOf(0, b)
  <1>1. PiecesOf(a, b) \in Seq(Nat) /\ Len(PiecesOf(a, b)) = b - a
    BY DEF PiecesOf
  <1> QED BY <1>1, PiecesFromTheStart DEF PiecesOf

LEMMA MinOfTwo ==
  ASSUME NEW a \in Nat, NEW b \in Nat
  PROVE  Min({a, b}) \in {a, b} /\ Min({a, b}) <= a /\ Min({a, b}) <= b
  <1>1. \E x \in {a, b} : \A y \in {a, b} : x <= y
    BY SMT
  <1> QED BY <1>1 DEF Min

\* What is stored is the beginning of the transcript again.
LEMMA BlockInOrder ==
  ASSUME held \in Seq(Nat), HeldInOrder, NEW offset \in Nat, NEW upto \in Nat, Places(offset), offset <= upto
  PROVE  Stored(offset, upto) = PiecesOf(0, upto)
  <1>1. CASE offset = 0
    <2>1. Stored(offset, upto) = <<>> \o PiecesOf(0, upto)
      BY <1>1 DEF Stored
    <2> QED BY <2>1, PiecesFromTheStart
  <1>2. CASE offset # 0
    <2>1. Stored(offset, upto) = held \o PiecesOf(offset, upto) /\ held = PiecesOf(0, offset)
      BY <1>2 DEF Stored, Places, HeldInOrder
    <2> QED BY <2>1, PiecesAdded
  <1> QED BY <1>1, <1>2

LEMMA RestRecord == AtRest \in SenderRecord /\ AtRest.phase = "off" /\ \A n \in Nat : Sends(AtRest, n)
  BY DEF AtRest, SenderRecord, Sends

LEMMA SenderFields ==
  ASSUME NEW c \in SenderRecord
  PROVE  /\ c.phase \in {"off", "ask", "send", "post"} /\ c.said \in Nat /\ c.upto \in Nat
         /\ c.base \in Nat /\ c.offset \in Nat /\ c.again \in BOOLEAN /\ c.well \in BOOLEAN
  BY DEF SenderRecord

LEMMA AdvancedFields ==
  ASSUME NEW c \in SenderRecord, NEW n \in Nat, Sends(c, n), c.phase = "send"
  PROVE  /\ Through(c) \in Nat /\ c.offset <= Through(c) /\ Through(c) <= c.upto
         /\ Advanced(c) \in SenderRecord /\ Sends(Advanced(c), n)
         /\ Advanced(c).said = c.said /\ Advanced(c).offset = Through(c)
         /\ Advanced(c).phase \in {"send", "post"}
         /\ Advanced(c).phase = "post" => Through(c) = c.upto
  <1>1. /\ c.said \in Nat /\ c.upto \in Nat /\ c.offset \in Nat /\ Block \in Nat
        /\ c.said <= n /\ c.upto <= n /\ c.offset <= c.upto /\ c.said <= c.upto /\ ~c.well
    BY SenderFields, ImportAssumption DEF Sends
  <1>2. Through(c) \in {c.offset + Block, c.upto} /\ Through(c) <= c.upto /\ Through(c) <= c.offset + Block
    BY <1>1, MinOfTwo DEF Through
  <1>3. Through(c) \in Nat /\ c.offset <= Through(c) /\ Through(c) <= c.upto
    BY <1>1, <1>2
  <1> HIDE DEF Through
  <1>4. CASE Through(c) = c.upto
    <2> DEFINE u == [c EXCEPT !.phase = "post", !.offset = Through(c), !.well = TRUE]
    <2>1. Advanced(c) = u
      BY <1>4 DEF Advanced
    <2>2. /\ u \in SenderRecord /\ u.phase = "post" /\ u.offset = Through(c) /\ u.upto = c.upto /\ u.said = c.said
      BY <1>3 DEF SenderRecord
    <2> HIDE DEF u
    <2>3. Sends(u, n)
      BY <1>1, <1>3, <2>2 DEF Sends
    <2> QED BY <1>3, <1>4, <2>1, <2>2, <2>3
  <1>5. CASE Through(c) # c.upto
    <2> DEFINE u == [c EXCEPT !.offset = Through(c)]
    <2>1. Advanced(c) = u
      BY <1>5 DEF Advanced
    <2>2. /\ u \in SenderRecord /\ u.phase = "send" /\ u.offset = Through(c) /\ u.upto = c.upto /\ u.said = c.said
          /\ u.well = c.well
      BY <1>3 DEF SenderRecord
    <2> HIDE DEF u
    <2>3. Sends(u, n)
      BY <1>1, <1>3, <2>2 DEF Sends
    <2> QED BY <1>3, <1>5, <2>1, <2>2, <2>3
  <1> QED BY <1>4, <1>5

LEMMA ResendsFields ==
  ASSUME NEW c \in SenderRecord, NEW n \in Nat, Sends(c, n), c.phase = "send"
  PROVE  /\ Resends(c) \in SenderRecord /\ Sends(Resends(c), n) /\ Resends(c).phase \in {"send", "post"}
         /\ ~Resends(c).well
  <1>1. /\ c.said \in Nat /\ c.upto \in Nat /\ c.offset \in Nat
        /\ c.said <= n /\ c.upto <= n /\ c.offset <= c.upto /\ c.said <= c.upto /\ ~c.well
    BY SenderFields DEF Sends
  <1>2. CASE c.base # 0 /\ ~c.again
    <2> DEFINE u == [c EXCEPT !.offset = 0, !.again = TRUE]
    <2>1. Resends(c) = u
      BY <1>2 DEF Resends
    <2>2. /\ u \in SenderRecord /\ u.phase = "send" /\ u.offset = 0 /\ u.upto = c.upto /\ u.said = c.said
          /\ u.well = c.well
      BY DEF SenderRecord
    <2> HIDE DEF u
    <2>3. Sends(u, n)
      BY <1>1, <2>2 DEF Sends
    <2> QED BY <1>1, <2>1, <2>2, <2>3
  <1>3. CASE ~(c.base # 0 /\ ~c.again)
    <2> DEFINE u == [c EXCEPT !.phase = "post"]
    <2>1. Resends(c) = u
      BY <1>3 DEF Resends
    <2>2. /\ u \in SenderRecord /\ u.phase = "post" /\ u.offset = c.offset /\ u.upto = c.upto /\ u.said = c.said
          /\ u.well = c.well
      BY DEF SenderRecord
    <2> HIDE DEF u
    <2>3. Sends(u, n)
      BY <1>1, <2>2 DEF Sends
    <2> QED BY <1>1, <2>1, <2>2, <2>3
  <1> QED BY <1>2, <1>3

LEMMA SkipsFields ==
  ASSUME NEW c \in SenderRecord, NEW n \in Nat, Sends(c, n), c.phase = "send"
  PROVE  Skips(c) \in SenderRecord /\ Sends(Skips(c), n) /\ Skips(c).phase = "post"
  <1> DEFINE u == [c EXCEPT !.phase = "post"]
  <1>1. Skips(c) = u
    BY DEF Skips
  <1>2. u \in SenderRecord /\ u.phase = "post" /\ u.offset = c.offset /\ u.upto = c.upto /\ u.said = c.said
    BY DEF SenderRecord
  <1> HIDE DEF u
  <1>3. Sends(u, n)
    BY <1>2 DEF Sends
  <1> QED BY <1>1, <1>2, <1>3

\* What a request announces is what the job has, and it is pending or done again.
LEMMA EnqueuedFields ==
  ASSUME queued \in QueuedRecord, NEW said \in Nat
  PROVE  /\ Enqueued(said) \in QueuedRecord /\ Enqueued(said).announced \in {said, queued.announced}
         /\ queued.status # "none" => Enqueued(said).announced = said
         /\ Enqueued(said).announced = said \/ queued.status = "none"
         /\ Enqueued(said) = queued \/ (/\ Enqueued(said).announced = said /\ Enqueued(said).active
                                        /\ Enqueued(said).status \in {"pending", "claimed"})
  <1>1. CASE queued.status # "none" /\ queued.announced = said
    BY <1>1 DEF Enqueued
  <1>2. CASE ~(queued.status # "none" /\ queued.announced = said)
    <2> DEFINE u == [queued EXCEPT !.announced = said, !.active = TRUE,
                                   !.status = IF @ = "claimed" THEN "claimed" ELSE "pending"]
    <2>1. Enqueued(said) = u
      BY <1>2 DEF Enqueued
    <2>2. u \in QueuedRecord /\ u.announced = said /\ u.active = TRUE /\ u.status \in {"pending", "claimed"}
      BY DEF QueuedRecord
    <2> HIDE DEF u
    <2> QED BY <2>1, <2>2
  <1> QED BY <1>1, <1>2

LEMMA QueuedFields ==
  ASSUME queued \in QueuedRecord
  PROVE  /\ queued.status \in {"none", "pending", "claimed", "done"} /\ queued.announced \in Nat
         /\ queued.active \in BOOLEAN /\ queued.read \in Nat /\ queued.crossed \in BOOLEAN
  BY DEF QueuedRecord

-----------------------------------------------------------------------------
LEMMA ImportInitially == ImportInit => ImportInv
  <1> SUFFICES ASSUME ImportInit PROVE ImportInv
    OBVIOUS
  <1>1. held = <<>> /\ spoken = 0 /\ stop = AtRest /\ import = AtRest
    BY DEF ImportInit
  <1>2. ImportTypeOK
    <2>1. queued \in QueuedRecord /\ written \in [from: Nat, crossed: BOOLEAN]
      BY DEF ImportInit, QueuedRecord
    <2>2. held \in Seq(Nat) /\ spoken \in Nat /\ stop \in SenderRecord /\ import \in SenderRecord
      BY <1>1, RestRecord
    <2>3. stops = 0 /\ imports = 0 /\ failed = FALSE /\ beyond = FALSE /\ mixed = FALSE
      BY DEF ImportInit
    <2> QED BY <2>1, <2>2, <2>3 DEF ImportTypeOK
  <1>3. HeldInOrder
    BY <1>1 DEF HeldInOrder, PiecesOf
  <1>4. Orderly
    BY <1>1, RestRecord DEF ImportInit, Orderly
  <1> QED BY <1>1, <1>2, <1>3, <1>4, RestRecord DEF ImportInv

\* A block of the hook or of the importer arrives.
LEMMA BlockArrives ==
  ASSUME ImportInv, NEW c \in SenderRecord, Sends(c, spoken), c.phase = "send", Places(c.offset),
         held' = Stored(c.offset, Through(c))
  PROVE  /\ held' \in Seq(Nat) /\ HeldInOrder' /\ Len(held') = Through(c) /\ Len(held') <= spoken
  <1>1. spoken \in Nat /\ held \in Seq(Nat) /\ HeldInOrder
    BY DEF ImportInv, ImportTypeOK
  <1>2. Through(c) \in Nat /\ c.offset <= Through(c) /\ Through(c) <= c.upto /\ c.upto <= spoken
    BY <1>1, AdvancedFields DEF Sends
  <1>3. c.offset \in Nat /\ c.upto \in Nat
    BY SenderFields
  <1>4. held' = PiecesOf(0, Through(c))
    BY <1>1, <1>2, <1>3, BlockInOrder
  <1>5. held' \in Seq(Nat) /\ Len(held') = Through(c)
    BY <1>2, <1>4, PiecesFromTheStart
  <1> QED BY <1>1, <1>2, <1>3, <1>4, <1>5 DEF HeldInOrder

LEMMA HookKeeps ==
  ASSUME ImportInv, StopRuns \/ AskHeld \/ StopSends \/ StopSendFails \/ StopPosts
  PROVE  ImportInv'
  <1>1. ImportTypeOK /\ HeldInOrder /\ Len(held) <= spoken /\ Sends(stop, spoken) /\ Sends(import, spoken) /\ Orderly
    BY DEF ImportInv
  <1>2. /\ spoken \in Nat /\ held \in Seq(Nat) /\ Len(held) \in Nat /\ stop \in SenderRecord /\ import \in SenderRecord
        /\ queued \in QueuedRecord
    BY <1>1 DEF ImportTypeOK
  <1>3. CASE StopRuns
    <2> DEFINE u == [AtRest EXCEPT !.phase = "ask", !.said = spoken]
    <2>1. /\ u \in SenderRecord /\ u.phase = "ask" /\ u.said = spoken /\ u.upto = 0 /\ u.offset = 0 /\ u.well = FALSE
      BY <1>2 DEF AtRest, SenderRecord
    <2>2. /\ stop' = u /\ spoken > 0 /\ mixed' = (mixed \/ import.phase # "off") /\ stops' = stops + 1
          /\ UNCHANGED <<spoken, held, queued, written, import, imports, failed, beyond>>
      BY <1>3 DEF StopRuns
    <2> HIDE DEF u
    <2>3. Sends(u, spoken)
      BY <1>2, <2>1, <2>2 DEF Sends
    <2>4. ImportTypeOK'
      BY <1>1, <2>1, <2>2 DEF ImportTypeOK
    <2>5. Orderly'
      BY <1>1, <2>1, <2>2 DEF Orderly, Untroubled
    <2> QED BY <1>1, <2>2, <2>3, <2>4, <2>5 DEF ImportInv, HeldInOrder
  <1>4. CASE AskHeld
    <2>1. PICK found \in {Len(held), 0} :
             /\ stop' = IF found = spoken THEN [stop EXCEPT !.phase = "post", !.well = TRUE]
                        ELSE [stop EXCEPT !.phase = "send", !.base = found, !.upto = spoken,
                                          !.offset = IF found <= spoken THEN found ELSE 0]
             /\ failed' = (failed \/ found # Len(held))
      BY <1>4 DEF AskHeld
    <2>2. /\ stop.phase = "ask" /\ UNCHANGED <<spoken, held, queued, written, import, stops, imports, beyond, mixed>>
      BY <1>4 DEF AskHeld
    <2>3. found \in Nat /\ found <= spoken
      BY <1>1, <1>2
    <2>4. stop.said \in Nat /\ stop.said <= spoken /\ stop.upto <= spoken /\ stop.offset <= stop.upto /\ stop.well = FALSE
      BY <1>1, <1>2, <2>2, SenderFields DEF Sends
    <2>5. /\ stop' \in SenderRecord /\ Sends(stop', spoken) /\ stop'.said = stop.said /\ stop'.phase \in {"send", "post"}
          /\ stop'.phase = "post" => found = spoken
          /\ stop'.phase = "send" => stop'.offset = found
      <3>1. CASE found = spoken
        <4> DEFINE u == [stop EXCEPT !.phase = "post", !.well = TRUE]
        <4>1. stop' = u
          BY <2>1, <3>1
        <4>2. /\ u \in SenderRecord /\ u.phase = "post" /\ u.said = stop.said /\ u.upto = stop.upto /\ u.offset = stop.offset
          BY <1>2 DEF SenderRecord
        <4> HIDE DEF u
        <4>3. Sends(u, spoken)
          BY <2>4, <4>2 DEF Sends
        <4> QED BY <3>1, <4>1, <4>2, <4>3
      <3>2. CASE found # spoken
        <4> DEFINE u == [stop EXCEPT !.phase = "send", !.base = found, !.upto = spoken, !.offset = found]
        <4>1. stop' = u
          BY <2>1, <2>3, <3>2
        <4>2. /\ u \in SenderRecord /\ u.phase = "send" /\ u.said = stop.said /\ u.upto = spoken /\ u.offset = found
              /\ u.well = stop.well
          BY <1>2, <2>3 DEF SenderRecord
        <4> HIDE DEF u
        <4>3. Sends(u, spoken)
          BY <1>2, <2>3, <2>4, <4>2 DEF Sends
        <4> QED BY <3>2, <4>1, <4>2, <4>3
      <3> QED BY <3>1, <3>2
    <2>6. ImportTypeOK'
      BY <1>1, <2>1, <2>2, <2>5 DEF ImportTypeOK
    <2>7. Orderly'
      <3>1. ASSUME Untroubled' PROVE Untroubled /\ found = Len(held)
        BY <2>1, <2>2, <3>1 DEF Untroubled
      <3> QED BY <1>1, <1>2, <2>2, <2>4, <2>5, <3>1 DEF Orderly
    <2> QED BY <1>1, <2>2, <2>5, <2>6, <2>7 DEF ImportInv, HeldInOrder
  <1>5. CASE StopSends
    <2>1. stop.phase = "send" /\ UNCHANGED <<spoken, queued, written, import, stops, imports, failed, beyond, mixed>>
      BY <1>5 DEF StopSends
    <2>2. stop.said <= stop.upto /\ stop.said \in Nat /\ stop.upto \in Nat /\ stop.offset \in Nat
      BY <1>1, <1>2, <2>1, SenderFields DEF Sends
    <2>3. CASE Places(stop.offset)
      <3>1. held' = Stored(stop.offset, Through(stop)) /\ stop' = Advanced(stop)
        BY <1>5, <2>3 DEF StopSends
      <3>2. held' \in Seq(Nat) /\ HeldInOrder' /\ Len(held') = Through(stop) /\ Len(held') <= spoken
        BY <1>1, <1>2, <2>1, <2>3, <3>1, BlockArrives
      <3>3. /\ Through(stop) \in Nat /\ stop.offset <= Through(stop) /\ Through(stop) <= stop.upto
            /\ stop' \in SenderRecord /\ Sends(stop', spoken)
            /\ stop'.said = stop.said /\ stop'.offset = Through(stop)
            /\ stop'.phase \in {"send", "post"}
            /\ stop'.phase = "post" => Through(stop) = stop.upto
        BY <1>1, <1>2, <2>1, <3>1, AdvancedFields
      <3>4. ImportTypeOK'
        BY <1>1, <2>1, <3>2, <3>3 DEF ImportTypeOK
      <3>5. ASSUME Untroubled
            PROVE  import.phase = "off" /\ queued.announced <= Len(held')
        <4>1. import.phase = "off" /\ stop.offset = Len(held) /\ queued.announced <= Len(held)
          BY <1>1, <2>1, <3>5 DEF Orderly
        <4> QED BY <1>2, <3>2, <3>3, <4>1, QueuedFields
      <3>6. stop'.phase = "post" => stop'.said <= Len(held')
        BY <2>2, <3>2, <3>3
      <3>7. Untroubled' <=> Untroubled
        BY <2>1 DEF Untroubled
      <3>8. Orderly'
        BY <1>1, <2>1, <3>2, <3>3, <3>5, <3>6, <3>7 DEF Orderly
      <3> QED BY <1>1, <2>1, <3>2, <3>3, <3>4, <3>8 DEF ImportInv
    <2>4. CASE ~Places(stop.offset)
      <3>1. UNCHANGED held /\ stop' = Resends(stop)
        BY <1>5, <2>4 DEF StopSends
      <3>2. stop' \in SenderRecord /\ Sends(stop', spoken)
        BY <1>1, <1>2, <2>1, <3>1, ResendsFields
      <3>3. ~Untroubled
        BY <1>1, <2>1, <2>4 DEF Orderly, Places
      <3>4. Orderly'
        BY <2>1, <3>3 DEF Orderly, Untroubled
      <3>5. ImportTypeOK'
        BY <1>1, <2>1, <3>1, <3>2 DEF ImportTypeOK
      <3> QED BY <1>1, <2>1, <3>1, <3>2, <3>4, <3>5 DEF ImportInv, HeldInOrder
    <2> QED BY <2>3, <2>4
  <1>6. CASE StopSendFails
    <2>1. /\ stop.phase = "send" /\ UNCHANGED <<spoken, queued, written, import, stops, imports, beyond, mixed>>
          /\ failed' = TRUE /\ stop' = Resends(stop)
          /\ UNCHANGED held \/ (Places(stop.offset) /\ held' = Stored(stop.offset, Through(stop)))
      BY <1>6 DEF StopSendFails
    <2>2. stop' \in SenderRecord /\ Sends(stop', spoken)
      BY <1>1, <1>2, <2>1, ResendsFields
    <2>3. held' \in Seq(Nat) /\ HeldInOrder' /\ Len(held') <= spoken
      <3>1. CASE UNCHANGED held
        BY <1>1, <1>2, <3>1 DEF HeldInOrder
      <3> QED BY <1>1, <1>2, <2>1, <3>1, BlockArrives
    <2>4. ImportTypeOK'
      BY <1>1, <2>1, <2>2, <2>3 DEF ImportTypeOK
    <2>5. Orderly'
      BY <2>1 DEF Orderly, Untroubled
    <2> QED BY <1>1, <2>1, <2>2, <2>3, <2>4, <2>5 DEF ImportInv
  <1>7. CASE StopPosts
    <2>1. /\ stop.phase = "post" /\ stop' = AtRest
          /\ UNCHANGED <<spoken, held, written, import, stops, imports, beyond, mixed>>
          /\ \/ queued' = Enqueued(stop.said) /\ UNCHANGED failed
             \/ UNCHANGED queued /\ failed' = TRUE
      BY <1>7 DEF StopPosts
    <2>2. stop' \in SenderRecord /\ Sends(stop', spoken) /\ stop'.phase = "off"
      BY <1>2, <2>1, RestRecord
    <2>3. CASE queued' = Enqueued(stop.said) /\ UNCHANGED failed
      <3>1. stop.said \in Nat
        BY <1>2, SenderFields
      <3>2. /\ queued' \in QueuedRecord
            /\ queued' = queued \/ (/\ queued'.announced = stop.said /\ queued'.active
                                    /\ queued'.status \in {"pending", "claimed"})
        BY <1>2, <2>3, <3>1, EnqueuedFields
      <3>3. Untroubled' <=> Untroubled
        BY <2>1, <2>3 DEF Untroubled
      <3>4. Orderly'
        <4>1. CASE queued' = queued
          BY <1>1, <2>1, <2>2, <3>3, <4>1 DEF Orderly
        <4>2. CASE queued'.announced = stop.said /\ queued'.active /\ queued'.status \in {"pending", "claimed"}
          BY <1>1, <2>1, <2>2, <3>3, <4>2 DEF Orderly
        <4> QED BY <3>2, <4>1, <4>2
      <3>5. ImportTypeOK'
        BY <1>1, <2>1, <2>2, <2>3, <3>2 DEF ImportTypeOK
      <3> QED BY <1>1, <2>1, <2>2, <3>4, <3>5 DEF ImportInv, HeldInOrder
    <2>4. CASE UNCHANGED queued /\ failed' = TRUE
      <3>1. ImportTypeOK'
        BY <1>1, <2>1, <2>2, <2>4 DEF ImportTypeOK
      <3>2. Orderly'
        BY <2>4 DEF Orderly, Untroubled
      <3> QED BY <1>1, <2>1, <2>2, <3>1, <3>2 DEF ImportInv, HeldInOrder
    <2> QED BY <2>1, <2>3, <2>4
  <1> QED BY <1>3, <1>4, <1>5, <1>6, <1>7

LEMMA ImporterKeeps ==
  ASSUME ImportInv,
         \/ \E copy \in 1..spoken, raw \in BOOLEAN : ImportRuns(copy, raw)
         \/ ImportSends \/ ImportSendFails \/ ImportPosts
  PROVE  ImportInv'
  <1>1. ImportTypeOK /\ HeldInOrder /\ Len(held) <= spoken /\ Sends(stop, spoken) /\ Sends(import, spoken) /\ Orderly
    BY DEF ImportInv
  <1>2. /\ spoken \in Nat /\ held \in Seq(Nat) /\ Len(held) \in Nat /\ stop \in SenderRecord /\ import \in SenderRecord
        /\ queued \in QueuedRecord
    BY <1>1 DEF ImportTypeOK
  <1>3. ASSUME NEW copy \in 1..spoken, NEW raw \in BOOLEAN, ImportRuns(copy, raw) PROVE ImportInv'
    <2> DEFINE at == IF raw THEN "send" ELSE "post"
               u  == [AtRest EXCEPT !.phase = at, !.said = copy, !.upto = copy]
    <2>1. at \in {"send", "post"} /\ copy \in Nat /\ copy <= spoken
      BY <1>2
    <2>2. /\ import' = u /\ mixed' = (mixed \/ stop.phase # "off") /\ imports' = imports + 1
          /\ UNCHANGED <<spoken, held, queued, written, stop, stops, failed, beyond>>
      BY <1>3 DEF ImportRuns
    <2> HIDE DEF at
    <2>3. /\ u \in SenderRecord /\ u.phase = at /\ u.said = copy /\ u.upto = copy /\ u.offset = 0 /\ u.well = FALSE
      BY <2>1 DEF AtRest, SenderRecord
    <2> HIDE DEF u
    <2>4. Sends(u, spoken)
      BY <1>2, <2>1, <2>3 DEF Sends
    <2>5. ImportTypeOK'
      BY <1>1, <2>2, <2>3 DEF ImportTypeOK
    <2>6. Orderly'
      <3>1. import'.phase # "off"
        BY <2>1, <2>2, <2>3
      <3> QED BY <1>1, <2>2, <3>1 DEF Orderly, Untroubled
    <2> QED BY <1>1, <2>2, <2>4, <2>5, <2>6 DEF ImportInv, HeldInOrder
  <1>4. CASE ImportSends
    <2>1. import.phase = "send" /\ UNCHANGED <<spoken, queued, written, stop, stops, imports, failed, beyond, mixed>>
      BY <1>4 DEF ImportSends
    <2>2. /\ held' \in Seq(Nat) /\ HeldInOrder' /\ Len(held') <= spoken
          /\ import' \in SenderRecord /\ Sends(import', spoken) /\ import'.phase # "off"
      <3>1. CASE Places(import.offset)
        <4>1. held' = Stored(import.offset, Through(import)) /\ import' = Advanced(import)
          BY <1>4, <3>1 DEF ImportSends
        <4>2. import' \in SenderRecord /\ Sends(import', spoken) /\ import'.phase \in {"send", "post"}
          BY <1>1, <1>2, <2>1, <4>1, AdvancedFields
        <4> QED BY <1>1, <1>2, <2>1, <3>1, <4>1, <4>2, BlockArrives
      <3>2. CASE ~Places(import.offset)
        <4>1. UNCHANGED held /\ import' = Skips(import)
          BY <1>4, <3>2 DEF ImportSends
        <4> QED BY <1>1, <1>2, <2>1, <4>1, SkipsFields DEF HeldInOrder
      <3> QED BY <3>1, <3>2
    <2>3. ImportTypeOK'
      BY <1>1, <2>1, <2>2 DEF ImportTypeOK
    <2>4. Orderly'
      <3>1. ASSUME Untroubled' PROVE Untroubled /\ stop.phase = "off"
        BY <1>1, <2>1, <3>1 DEF Orderly, Untroubled
      <3> QED BY <1>1, <2>1, <2>2, <3>1 DEF Orderly
    <2> QED BY <1>1, <2>1, <2>2, <2>3, <2>4 DEF ImportInv
  <1>5. CASE ImportSendFails
    <2>1. /\ import.phase = "send" /\ UNCHANGED <<spoken, queued, written, stop, stops, imports, beyond, mixed>>
          /\ failed' = TRUE /\ import' = Skips(import)
          /\ UNCHANGED held \/ (Places(import.offset) /\ held' = Stored(import.offset, Through(import)))
      BY <1>5 DEF ImportSendFails
    <2>2. import' \in SenderRecord /\ Sends(import', spoken)
      BY <1>1, <1>2, <2>1, SkipsFields
    <2>3. held' \in Seq(Nat) /\ HeldInOrder' /\ Len(held') <= spoken
      <3>1. CASE UNCHANGED held
        BY <1>1, <1>2, <3>1 DEF HeldInOrder
      <3> QED BY <1>1, <1>2, <2>1, <3>1, BlockArrives
    <2>4. ImportTypeOK'
      BY <1>1, <2>1, <2>2, <2>3 DEF ImportTypeOK
    <2>5. Orderly'
      BY <2>1 DEF Orderly, Untroubled
    <2> QED BY <1>1, <2>1, <2>2, <2>3, <2>4, <2>5 DEF ImportInv
  <1>6. CASE ImportPosts
    <2>1. /\ import.phase = "post" /\ import' = AtRest
          /\ UNCHANGED <<spoken, held, written, stop, stops, imports, mixed>>
          /\ \/ \E said \in {import.said, spoken} :
                   queued' = Enqueued(said) /\ beyond' = (beyond \/ said > Len(held)) /\ UNCHANGED failed
             \/ UNCHANGED <<queued, beyond>> /\ failed' = TRUE
      BY <1>6 DEF ImportPosts
    <2>2. import' \in SenderRecord /\ Sends(import', spoken) /\ import'.phase = "off"
      BY <1>2, <2>1, RestRecord
    <2>3. ASSUME NEW said \in {import.said, spoken}, queued' = Enqueued(said),
                 beyond' = (beyond \/ said > Len(held)), UNCHANGED failed
          PROVE  ImportInv'
      <3>1. said \in Nat
        BY <1>2, SenderFields
      <3>2. /\ queued' \in QueuedRecord
            /\ queued.status # "none" => queued'.announced = said
            /\ queued'.announced = said \/ queued.status = "none"
            /\ queued' = queued \/ (/\ queued'.announced = said /\ queued'.active
                                    /\ queued'.status \in {"pending", "claimed"})
        BY <1>2, <2>3, <3>1, EnqueuedFields
      <3>3. queued'.announced = said
        BY <2>3, <3>1, <3>2 DEF Enqueued, QueuedRecord
      <3>4. ASSUME Untroubled' PROVE Untroubled /\ said <= Len(held)
        <4>1. ~failed /\ ~mixed /\ ~beyond /\ ~(said > Len(held))
          BY <2>1, <2>3, <3>4 DEF Untroubled
        <4>2. said <= Len(held)
          BY <1>2, <3>1, <4>1
        <4> QED BY <4>1, <4>2 DEF Untroubled
      <3>5. Orderly'
        <4>1. CASE queued' = queued
          BY <1>1, <2>1, <2>2, <3>3, <3>4, <4>1 DEF Orderly
        <4>2. CASE queued'.announced = said /\ queued'.active /\ queued'.status \in {"pending", "claimed"}
          BY <1>1, <2>1, <2>2, <3>4, <4>2 DEF Orderly
        <4> QED BY <3>2, <4>1, <4>2
      <3>6. ImportTypeOK'
        <4>1. beyond' \in BOOLEAN
          BY <2>3
        <4> QED BY <1>1, <2>1, <2>2, <2>3, <3>2, <4>1 DEF ImportTypeOK
      <3> QED BY <1>1, <2>1, <2>2, <3>5, <3>6 DEF ImportInv, HeldInOrder
    <2>4. CASE UNCHANGED <<queued, beyond>> /\ failed' = TRUE
      <3>1. ImportTypeOK'
        BY <1>1, <2>1, <2>2, <2>4 DEF ImportTypeOK
      <3>2. Orderly'
        BY <2>4 DEF Orderly, Untroubled
      <3> QED BY <1>1, <2>1, <2>2, <3>1, <3>2 DEF ImportInv, HeldInOrder
    <2> QED BY <2>1, <2>3, <2>4
  <1> QED BY <1>3, <1>4, <1>5, <1>6

LEMMA ImportKept == ImportInv /\ [ImportNext]_importVars => ImportInv'
  <1> SUFFICES ASSUME ImportInv, [ImportNext]_importVars PROVE ImportInv'
    OBVIOUS
  <1>1. ImportTypeOK /\ HeldInOrder /\ Len(held) <= spoken /\ Sends(stop, spoken) /\ Sends(import, spoken) /\ Orderly
    BY DEF ImportInv
  <1>2. /\ spoken \in Nat /\ held \in Seq(Nat) /\ Len(held) \in Nat /\ stop \in SenderRecord /\ import \in SenderRecord
        /\ queued \in QueuedRecord
    BY <1>1 DEF ImportTypeOK
  <1>3. CASE Say
    <2>1. spoken' = spoken + 1 /\ UNCHANGED <<held, queued, written, stop, import, stops, imports, failed, beyond, mixed>>
      BY <1>3 DEF Say
    <2>2. Sends(stop, spoken') /\ Sends(import, spoken') /\ Len(held) <= spoken'
      BY <1>1, <1>2, <2>1, SenderFields DEF Sends
    <2>3. ImportTypeOK' /\ Orderly' /\ HeldInOrder'
      BY <1>1, <1>2, <2>1 DEF ImportTypeOK, Orderly, Untroubled, HeldInOrder
    <2> QED BY <2>1, <2>2, <2>3 DEF ImportInv
  <1>4. CASE ClaimSession
    <2> DEFINE found == IF held = <<>> THEN queued.announced ELSE Len(held)
               cross == import.phase # "off"
               u == [queued EXCEPT !.status = "claimed", !.active = FALSE, !.read = found, !.crossed = cross]
    <2>1. queued' = u /\ UNCHANGED <<spoken, held, written, stop, import, stops, imports, failed, beyond, mixed>>
      BY <1>4 DEF ClaimSession
    <2>2. found \in Nat /\ cross \in BOOLEAN /\ (queued.announced <= Len(held) => found >= queued.announced)
      BY <1>2, QueuedFields
    <2> HIDE DEF found
    <2>3. /\ u \in QueuedRecord /\ u.status = "claimed" /\ u.read = found /\ u.announced = queued.announced
          /\ u.crossed = cross
      BY <1>2, <2>2 DEF QueuedRecord
    <2> HIDE DEF u
    <2>4. ImportTypeOK'
      BY <1>1, <2>1, <2>3 DEF ImportTypeOK
    <2>5. Orderly'
      BY <1>1, <2>1, <2>2, <2>3 DEF Orderly, Untroubled
    <2> QED BY <1>1, <2>1, <2>4, <2>5 DEF ImportInv, HeldInOrder
  <1>5. CASE SessionDone
    <2> DEFINE u == [queued EXCEPT !.status = StatusWritten(queued.active)]
    <2>1. /\ queued.status = "claimed" /\ queued' = u /\ written' = [from |-> queued.read, crossed |-> queued.crossed]
          /\ UNCHANGED <<spoken, held, stop, import, stops, imports, failed, beyond, mixed>>
      BY <1>5 DEF SessionDone
    <2>2. StatusWritten(queued.active) \in {"pending", "done"} /\ (StatusWritten(queued.active) = "done" => ~queued.active)
      BY DEF StatusWritten
    <2>3. /\ u \in QueuedRecord /\ u.status = StatusWritten(queued.active) /\ u.announced = queued.announced
      BY <1>2, <2>2 DEF QueuedRecord
    <2> HIDE DEF u
    <2>4. /\ written' \in [from: Nat, crossed: BOOLEAN] /\ written'.from = queued.read /\ written'.crossed = queued.crossed
      BY <1>2, <2>1, QueuedFields
    <2>5. ImportTypeOK'
      BY <1>1, <2>1, <2>3, <2>4 DEF ImportTypeOK
    <2>6. Orderly'
      BY <1>1, <2>1, <2>2, <2>3, <2>4 DEF Orderly, Untroubled
    <2> QED BY <1>1, <2>1, <2>5, <2>6 DEF ImportInv, HeldInOrder
  <1>6. CASE UNCHANGED importVars
    <2>1. UNCHANGED <<spoken, held, queued, written, stop, import, stops, imports, failed, beyond, mixed>>
      BY <1>6 DEF importVars
    <2>2. ImportTypeOK' /\ Orderly' /\ HeldInOrder'
      BY <1>1, <2>1 DEF ImportTypeOK, Orderly, Untroubled, HeldInOrder
    <2> QED BY <1>1, <2>1, <2>2 DEF ImportInv
  <1> QED BY <1>3, <1>4, <1>5, <1>6, HookKeeps, ImporterKeeps DEF ImportNext

\* The inductive invariant: the server holds the session from its start, and
\* while nothing troubled the pushes whoever announces has sent what it says.
THEOREM ImportInvariant == ImportSpec => []ImportInv
  BY ImportInitially, ImportKept, PTL DEF ImportSpec

\* Only an answer that has it all, and the block that completes it, end a push
\* well.
LEMMA PushEndsWell ==
  ASSUME ImportInv, ImportNext, stop.phase \in {"ask", "send"}, stop'.phase = "post", stop'.well
  PROVE  Len(held') >= stop.said
  <1>1. ImportTypeOK /\ HeldInOrder /\ Len(held) <= spoken /\ Sends(stop, spoken)
    BY DEF ImportInv
  <1>2. /\ spoken \in Nat /\ held \in Seq(Nat) /\ Len(held) \in Nat /\ stop \in SenderRecord
        /\ stop.said \in Nat /\ stop.upto \in Nat
    BY <1>1, SenderFields DEF ImportTypeOK
  <1>3. ASSUME stop' = stop PROVE FALSE
    BY <1>3
  <1>4. CASE AskHeld
    <2>1. PICK found \in {Len(held), 0} :
             stop' = IF found = spoken THEN [stop EXCEPT !.phase = "post", !.well = TRUE]
                     ELSE [stop EXCEPT !.phase = "send", !.base = found, !.upto = spoken,
                                       !.offset = IF found <= spoken THEN found ELSE 0]
      BY <1>4 DEF AskHeld
    <2>2. stop.phase = "ask" /\ UNCHANGED held
      BY <1>4 DEF AskHeld
    <2>3. found = spoken
      BY <1>2, <2>1 DEF SenderRecord
    <2>4. stop.said > 0 /\ stop.said <= spoken
      BY <1>1, <2>2 DEF Sends
    <2>5. Len(held) = spoken
      BY <1>2, <2>3, <2>4
    <2> QED BY <1>2, <2>2, <2>4, <2>5
  <1>5. CASE StopSends
    <2>1. stop.phase = "send" /\ stop.said <= stop.upto
      BY <1>1, <1>5 DEF StopSends, Sends
    <2>2. Places(stop.offset)
      BY <1>1, <1>2, <1>5, <2>1, ResendsFields DEF StopSends
    <2>3. held' = Stored(stop.offset, Through(stop)) /\ stop' = Advanced(stop)
      BY <1>5, <2>2 DEF StopSends
    <2>4. Through(stop) = stop.upto
      BY <1>1, <1>2, <2>1, <2>3, AdvancedFields
    <2>5. Len(held') = Through(stop)
      BY <1>1, <1>2, <2>1, <2>2, <2>3, BlockArrives
    <2> QED BY <1>2, <2>1, <2>4, <2>5
  <1>6. CASE StopSendFails
    <2>1. stop.phase = "send" /\ stop' = Resends(stop)
      BY <1>6 DEF StopSendFails
    <2> QED BY <1>1, <1>2, <2>1, ResendsFields
  <1>7. CASE StopRuns \/ StopPosts
    BY <1>7 DEF StopRuns, StopPosts
  <1>8. CASE Say \/ ImportSends \/ ImportSendFails \/ ImportPosts \/ ClaimSession \/ SessionDone
    BY <1>3, <1>8 DEF Say, ImportSends, ImportSendFails, ImportPosts, ClaimSession, SessionDone
  <1>9. ASSUME NEW copy \in 1..spoken, NEW raw \in BOOLEAN, ImportRuns(copy, raw) PROVE FALSE
    BY <1>3, <1>9 DEF ImportRuns
  <1> QED BY <1>4, <1>5, <1>6, <1>7, <1>8, <1>9 DEF ImportNext

\* An importer of another copy of the session beside the hook leaves the stored
\* session in order, a push of the hook that ends well leaves it all there, and a
\* note that was written without trouble was written from all that was announced
\* (push_transcript, import_raw, import_sessions).
THEOREM ImporterAndHook == ImportSpec => ImportBesideHook
  <1>1. ImportInv => HeldInOrder /\ NoteHoldsAnnounced
    <2>1. ASSUME ImportInv PROVE NoteHoldsAnnounced
      BY <2>1 DEF ImportInv, Orderly, Untroubled, NoteHoldsAnnounced
    <2> QED BY <2>1 DEF ImportInv
  <1>2. ImportInv /\ [ImportNext]_importVars =>
           [stop.phase \in {"ask", "send"} /\ stop'.phase = "post" /\ stop'.well => Len(held') >= stop.said]_importVars
    BY PushEndsWell
  <1>3. ImportSpec => PushedMeansHeld
    BY ImportInvariant, <1>2, PTL DEF ImportSpec, PushedMeansHeld
  <1> QED BY ImportInvariant, <1>1, <1>3, PTL DEF ImportBesideHook
=============================================================================
