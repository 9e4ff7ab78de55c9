------------------------- MODULE MCTranscriptUpload -------------------------
(* Instances of TranscriptUpload for TLC.  Requests are interchangeable.   *)
EXTENDS TranscriptUpload, TLC

CONSTANTS r1, r2

MCRequests == {r1, r2}

Interchangeable == Permutations(MCRequests)
=============================================================================
