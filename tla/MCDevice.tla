------------------------------ MODULE MCDevice ------------------------------
(* What a device exchanges with the server: transcripts (TranscriptUpload), *)
(* large files (LargeFiles), memory files (MemorySync) and git history      *)
(* (GitNetworks).  They share no state, so TLC explores one at a time:      *)
(* focus says which.                                                        *)
EXTENDS MCTranscriptUpload, LargeFiles, MemorySync, GitNetworks

CONSTANTS d1, d2, h, k1, k2, t1, t2

\* d1 cuts in two, d2 does not cut; d2 stays with content 1.
MCDevices  == {d1, d2}
MCCut      == d1 :> <<<<"1a", "1b">>, <<"1a", "2b">>>> @@ d2 :> <<<<"1">>, <<"2">>>>
MCDigests  == {"1a", "1b", "2b", "1", "2"}
MCLast     == d1 :> 2 @@ d2 :> 1
MCStops    == d1 :> 2 @@ d2 :> 1

\* The hooks r1 and r2 are of sessions of d1, h is of one of d2; memory 2 is not edited.
MCHooks    == {r1, r2, h}
MCHome     == r1 :> d1 @@ r2 :> d1 @@ h :> d2
MCRestored == 1 :> 1 @@ 2 :> 1
MCEdits    == 1 :> 2 @@ 2 :> 0
MCStarts   == {<<Absent, Absent>>, <<Absent, 1>>, <<1, 1>>}

\* Commit 2 merges 1 and 3, both roots.  r1 and r2 push k1, h pushes k2.
MCAncestors == 1 :> {1} @@ 2 :> {1, 2, 3} @@ 3 :> {3}
MCCloneOf   == r1 :> k1 @@ r2 :> k1 @@ h :> k2
MCWork      == k1 :> 2 @@ k2 :> 1
MCPushes    == r1 :> 1 @@ r2 :> 1 @@ h :> 1

\* Requests are interchangeable, and so are the trees of a working copy.
DeviceSymmetry == Permutations(MCRequests) \cup Permutations(Trees)

VARIABLE focus

DeviceInit ==
    /\ Init /\ LargeInit /\ SyncInit /\ GitInit
    /\ focus \in {"transcript", "files", "memories", "git"}
    /\ focus # "memories" => kept = Nothing

\* Bound: a chunk goes bad, or d1 stops twice and edits its file.
RotOrWork == rots' = 0 \/ (stops'[d1] < 2 /\ content'[d1] = 1)

DeviceNext ==
    /\ \/ focus = "transcript" /\ Next      /\ UNCHANGED <<largeVars, syncVars, gitVars>>
       \/ focus = "files"      /\ LargeNext /\ RotOrWork /\ UNCHANGED <<vars, syncVars, gitVars>>
       \/ focus = "memories"   /\ SyncNext  /\ UNCHANGED <<vars, largeVars, gitVars>>
       \/ focus = "git"        /\ GitNext   /\ UNCHANGED <<vars, largeVars, syncVars>>
    /\ UNCHANGED focus

DeviceSpec == DeviceInit /\ [][DeviceNext]_<<vars, largeVars, syncVars, gitVars, focus>>
=============================================================================
