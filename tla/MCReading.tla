------------------------------ MODULE MCReading ------------------------------
(* What is read, and what is made of it: a transcript that goes on            *)
(* (Extraction), the parts in which a model reads what is too long (Folding),  *)
(* the talk in which it looks things up (ToolRounds), and the links between    *)
(* projects that come of such talks (ProjectLinks).  They share no state, so   *)
(* TLC explores one at a time: part says which.                              *)
EXTENDS MCProjectLinks, Extraction, Folding, ToolRounds

CONSTANTS e1, r1, r2, w1, q1, k1, k2

MCTool == (e1 :> "edit") @@ (r1 :> "run") @@ (r2 :> "run") @@ (w1 :> "word") @@ (q1 :> "ask")
MCSize == (k1 :> 3) @@ (k2 :> 9)

VARIABLE part

ReadingInit ==
    /\ LinksInit /\ ExtractionInit /\ FoldInit /\ RoundsInit
    /\ part \in {"links", "transcript", "fold", "rounds"}
    /\ part # "transcript" => agent = "claude"
    /\ part # "fold"       => messages = <<>>
    /\ part # "rounds"     => how = "rounds" /\ Used = 2 /\ thinking

\* Bound: at most one line comes before the first request, in a file that is
\* one line shorter than the others.  Of r1 and r2, which are alike, r1 is called
\* first.
RequestOpens ==
    /\ Last(file') = Called(r2) => Called(r1) \in Range(file)
    /\ Len(file') > 1 => reader'.segments # <<>>
    /\ Len(file') = MaxLines => file[1].kind \in {"request", "active"}

\* All but the links end.
ReadingNext ==
    /\ \/ /\ part = "links" /\ LinksNext
          /\ UNCHANGED <<extractionVars, foldVars, roundsVars>>
       \/ /\ part = "transcript" /\ ExtractionNext /\ RequestOpens
          /\ UNCHANGED <<vars, focus, foldVars, roundsVars>>
       \/ /\ part = "fold" /\ FoldNext
          /\ UNCHANGED <<vars, focus, extractionVars, roundsVars>>
       \/ /\ part = "rounds" /\ RoundsNext
          /\ UNCHANGED <<vars, focus, extractionVars, foldVars>>
       \/ part # "links" /\ UNCHANGED <<vars, focus, extractionVars, foldVars, roundsVars>>
    /\ UNCHANGED part

ReadingSpec == ReadingInit /\ [][ReadingNext]_<<vars, focus, extractionVars, foldVars, roundsVars, part>>
=============================================================================
