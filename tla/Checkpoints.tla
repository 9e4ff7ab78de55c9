---------------------------- MODULE Checkpoints ----------------------------
(***************************************************************************)
(* How a session is summarized request by request, and resumed             *)
(* (summarizers/session.py, produce_session and Progress in cli/worker.py). *)
(* The plan a worker is given has one segment per request; it works on     *)
(* groups of them, reports what it has after each group, and goes on with   *)
(* the next provider when one fails.  A run that crashes or loses its claim *)
(* is resumed from its last report, by then perhaps for a session that went *)
(* on or with other prompts.                                               *)
(***************************************************************************)
EXTENDS Integers, Sequences, SequencesExt

CONSTANTS
    Makers,         \* providers
    Weakness,       \* their priority: a greater one is weaker
    Runs,           \* bound: workers that may be at the job, with a claim or without
    MaxSegments,    \* bound: requests of the session
    MaxLength,      \* bound: a segment's length, which grows with what is said
    GroupLength,    \* CHUNK_CHARS
    MaxStages,      \* bound: versions of the prompts in RESUMABLE_STAGES
    MaxRuns,        \* bound: claims
    NoCheckpoint

ASSUME CheckpointBounds == /\ \A b \in {MaxSegments, MaxLength, MaxStages} : b \in Nat \ {0}
                           /\ GroupLength \in Nat /\ MaxRuns \in Nat
ASSUME WeaknessAssumption == Weakness \in [Makers -> Nat]

Numbers == 1..MaxSegments
Lengths == 1..MaxLength
Stages  == 1..MaxStages

\* SessionCheckpoint: the prompts it was made with, and of the segments done the
\* items, each with what it was written from, the hashes and the makers.
Partial(V) == UNION {[S -> V] : S \in SUBSET Numbers}
Item       == [of: Lengths, with: Stages, by: Makers]
Saves      == [digest: Stages, items: Partial(Item), hashes: Partial(Lengths), credit: Partial(Makers)]

ASSUME NoCheckpointAssumption == NoCheckpoint \notin Runs \cup Saves

VARIABLES
    segments,       \* the session's requests as the transcript has them; a text is its length
    stages,         \* the version of the prompts in use
    jobRow,         \* the job's row
    run,            \* what each worker does
    claims

checkpointVars == <<segments, stages, jobRow, run, claims>>

Nothing == [n \in {} |-> NoCheckpoint]

\* A job's row.  saved: the checkpoint, or NoCheckpoint; note, plan, with: what
\* the note was made of; moved: the session went on since the claim; credited:
\* its summarizer.
NewSession == [status |-> "pending", holder |-> NoCheckpoint, moved |-> FALSE, saved |-> NoCheckpoint,
               note |-> Nothing, plan |-> <<>>, with |-> 0, credited |-> NoCheckpoint]

\* What a worker does: at stage off, group or report, with the provider maker
\* when those in failed were tried; found: items, each written by a maker from
\* a text with some version of the prompts; credit: the makers known so far.
Off == [stage |-> "off", maker |-> NoCheckpoint, failed |-> {}, group |-> 0, plan |-> <<>>, with |-> 0,
        found |-> Nothing, credit |-> Nothing]

CheckpointInit ==
    /\ segments = <<1>>
    /\ stages   = 1
    /\ jobRow   = NewSession
    /\ run      = [w \in Runs |-> Off]
    /\ claims   = 0

-----------------------------------------------------------------------------
(* The algorithms.                                                         *)

Length(texts, group) == FoldLeft(LAMBDA sum, n : sum + texts[n], 0, group)

\* A segment goes to the last group when it fits there.
Joining(texts, groups, n) ==
    IF groups # <<>> /\ Length(texts, Last(groups)) + texts[n] <= GroupLength
    THEN Append(Front(groups), Append(Last(groups), n))
    ELSE Append(groups, <<n>>)

\* grouped: greedily and in order.
Grouped(texts) ==
    LET upTo[n \in Nat] == IF n = 0 THEN <<>> ELSE Joining(texts, upTo[n - 1], n)
    IN upTo[Len(texts)]

With(f, g) == [n \in DOMAIN f \cup DOMAIN g |-> IF n \in DOMAIN f THEN f[n] ELSE g[n]]
Kept(f, S) == [n \in DOMAIN f \cap S |-> f[n]]

\* Mutant: the texts are not compared.
UsableByNumber(saved, texts, with) ==
    IF saved = NoCheckpoint THEN {}
    ELSE {n \in DOMAIN saved.items : saved.digest = with /\ n <= Len(texts)}

\* SessionCheckpoint.resumed
Usable(saved, texts, with) ==
    IF saved = NoCheckpoint THEN {}
    ELSE {n \in DOMAIN saved.items : saved.digest = with /\ n <= Len(texts) /\ saved.hashes[n] = texts[n]}

\* SessionCheckpoint.credit: what has no maker yet was this provider's.
Credited(w, found) == With(run[w].credit, [n \in DOMAIN found |-> run[w].maker])

\* SessionCheckpoint.saved; hashes is its "segments", credit its "makers".
SavedOf(w, found) == [digest |-> run[w].with, items |-> found,
                      hashes |-> [n \in DOMAIN found |-> run[w].plan[n]], credit |-> Credited(w, found)]

\* Mutant: only the items of the last group are saved.
SaveLast(w) == SavedOf(w, Kept(run[w].found, ToSet(Grouped(run[w].plan)[run[w].group])))

Save(w) == SavedOf(w, run[w].found)

\* SessionCheckpoint.credited: the weakest one.
Weakest(names) == CHOOSE m \in names : \A o \in names : Weakness[o] <= Weakness[m]

CreditFor(w) == Weakest({run[w].credit[n] : n \in DOMAIN run[w].credit} \cup {run[w].maker})

Unwritten(w) == ToSet(Grouped(run[w].plan)[run[w].group]) \ DOMAIN run[w].found

WrittenNow(w, S) == [n \in S |-> [of |-> run[w].plan[n], with |-> run[w].with, by |-> run[w].maker]]

-----------------------------------------------------------------------------
(* The session and the prompts.                                            *)

GoesOn(new) ==
    /\ segments' = new
    /\ jobRow' = [jobRow EXCEPT !.moved  = (jobRow.status = "claimed"),
                          !.status = IF @ \in {"done", "failed"} THEN "pending" ELSE @]
    /\ UNCHANGED <<stages, run, claims>>

SayMore    == Last(segments) < MaxLength /\ GoesOn(Append(Front(segments), Last(segments) + 1))
AskAnother == Len(segments) < MaxSegments /\ GoesOn(Append(segments, 1))

ChangePrompts ==
    /\ stages < MaxStages
    /\ stages' = stages + 1
    /\ UNCHANGED <<segments, jobRow, run, claims>>

-----------------------------------------------------------------------------
(* The worker.                                                             *)

\* The claim's answer carries the plan, the prompts and the checkpoint.
ClaimRun(w, m) ==
    /\ run[w] = Off /\ jobRow.status = "pending" /\ claims < MaxRuns
    /\ jobRow' = [jobRow EXCEPT !.status = "claimed", !.holder = w, !.moved = FALSE]
    /\ LET usable == Usable(jobRow.saved, segments, stages)
       IN run' = [run EXCEPT ![w] = [Off EXCEPT !.stage = "group", !.maker = m, !.group = 1, !.plan = segments, !.with = stages,
                     !.found  = IF usable = {} THEN Nothing ELSE Kept(jobRow.saved.items, usable),
                     !.credit = IF usable = {} THEN Nothing ELSE Kept(jobRow.saved.credit, usable)]]
    /\ claims' = claims + 1
    /\ UNCHANGED <<segments, stages>>

\* The group together, then one by one what is missing of it; still some may be.
Summarize(w) ==
    /\ run[w].stage = "group" /\ run[w].group <= Len(Grouped(run[w].plan))
    /\ \/ Unwritten(w) = {} /\ run' = [run EXCEPT ![w].group = @ + 1]
       \/ /\ Unwritten(w) # {}
          /\ \E S \in SUBSET Unwritten(w) :
                run' = [run EXCEPT ![w].found = With(@, WrittenNow(w, S)), ![w].stage = "report"]
    /\ UNCHANGED <<segments, stages, jobRow, claims>>

Reported(w) == [run EXCEPT ![w].stage = "group", ![w].group = @ + 1, ![w].credit = Credited(w, run[w].found)]

\* A report that finds the claim gone ends the run; one that fails does not.
Report(w) ==
    /\ run[w].stage = "report"
    /\ IF jobRow.holder = w
       THEN jobRow' = [jobRow EXCEPT !.saved = Save(w)] /\ run' = Reported(w)
       ELSE run' = [run EXCEPT ![w] = Off] /\ UNCHANGED jobRow
    /\ UNCHANGED <<segments, stages, claims>>

LoseReport(w) ==
    /\ run[w].stage = "report"
    /\ run' = Reported(w)
    /\ UNCHANGED <<segments, stages, jobRow, claims>>

Returned(status) == [jobRow EXCEPT !.status = status, !.holder = NoCheckpoint]

\* Mutant: the provider that fails gets no credit for what it wrote.
NotCredited(w, found) == run[w].credit

CreditedOnFailure(w, found) == Credited(w, found)

\* The provider fails, perhaps with some of the group written; the next one goes
\* on, and when there is none the job is handed back or fails.  A failure after
\* the last group, when the claims are verified and the header is written, is
\* left out: every item is written by then.
MakerFails(w) ==
    /\ run[w].stage = "group" /\ run[w].group <= Len(Grouped(run[w].plan))
    /\ \E S \in SUBSET Unwritten(w) :
          LET tried == run[w].failed \cup {run[w].maker}
              partly == With(run[w].found, WrittenNow(w, S))
          IN IF tried # Makers
             THEN \E m \in Makers \ tried :
                     /\ run' = [run EXCEPT ![w] = [@ EXCEPT !.maker = m, !.failed = tried, !.group = 1,
                                                            !.found = partly, !.credit = CreditedOnFailure(w, partly)]]
                     /\ UNCHANGED jobRow
             ELSE /\ run' = [run EXCEPT ![w] = Off]
                  /\ jobRow' \in IF jobRow.holder = w THEN {Returned("pending"), Returned("failed")} ELSE {jobRow}
    /\ UNCHANGED <<segments, stages, claims>>

\* complete_session and written, or a submit whose claim is gone.
SubmitNote(w) ==
    /\ run[w].stage = "group" /\ run[w].group > Len(Grouped(run[w].plan))
    /\ IF jobRow.holder = w
       THEN jobRow' = [Returned(IF jobRow.moved THEN "pending" ELSE "done") EXCEPT
                      !.saved = IF jobRow.moved THEN @ ELSE NoCheckpoint,
                      !.note = run[w].found, !.plan = run[w].plan, !.with = run[w].with, !.credited = CreditFor(w)]
       ELSE UNCHANGED jobRow
    /\ run' = [run EXCEPT ![w] = Off]
    /\ UNCHANGED <<segments, stages, claims>>

Crash(w) ==
    /\ run[w] # Off
    /\ run' = [run EXCEPT ![w] = Off]
    /\ UNCHANGED <<segments, stages, jobRow, claims>>

-----------------------------------------------------------------------------
(* The janitor and the owner.                                              *)

ReclaimRun ==
    /\ jobRow.status = "claimed"
    /\ jobRow' = Returned("pending")
    /\ UNCHANGED <<segments, stages, run, claims>>

RetryFailed ==
    /\ jobRow.status = "failed"
    /\ jobRow' = Returned("pending")
    /\ UNCHANGED <<segments, stages, run, claims>>

\* requeue and rebuild start over; purge_transcripts drops the checkpoint of a
\* job that has rested long enough.
StartOver ==
    /\ jobRow.status \in {"done", "failed"}
    /\ \/ jobRow' = [Returned("pending") EXCEPT !.saved = NoCheckpoint]
       \/ jobRow.saved # NoCheckpoint /\ jobRow' = [jobRow EXCEPT !.saved = NoCheckpoint]
    /\ UNCHANGED <<segments, stages, run, claims>>

CheckpointNext ==
    \/ SayMore \/ AskAnother \/ ChangePrompts
    \/ ReclaimRun \/ RetryFailed \/ StartOver
    \/ \E w \in Runs :
          \/ \E m \in Makers : ClaimRun(w, m)
          \/ Summarize(w) \/ Report(w) \/ LoseReport(w) \/ MakerFails(w) \/ SubmitNote(w) \/ Crash(w)

CheckpointSpec == CheckpointInit /\ [][CheckpointNext]_checkpointVars

-----------------------------------------------------------------------------
(* Properties.                                                             *)

\* What a note says of a request was written from that request as the plan of
\* the claim had it, with the prompts of the claim, whoever wrote it and however
\* often the run was resumed (resumed: the digest, the segment hashes).
NoteIsOfItsPlan ==
    \A n \in DOMAIN jobRow.note :
       n <= Len(jobRow.plan) /\ jobRow.note[n].of = jobRow.plan[n] /\ jobRow.note[n].with = jobRow.with

\* The summarizer of a job is no better than any provider that wrote a part of
\* its note, so a better one still gets to refine it (credit, credited).
CreditIsWeakest ==
    \A n \in DOMAIN jobRow.note : Weakness[jobRow.note[n].by] <= Weakness[jobRow.credited]

\* What was reported and is still of use stays in the checkpoint while the job is
\* unfinished: later reports, lost claims and other providers do not drop it.
DoneStaysDone ==
    [][LET usable == Usable(jobRow.saved, segments, stages)
           foreign == \E w \in Runs : run[w] # Off /\ run[w].with # stages
       IN jobRow.status \in {"pending", "claimed"} /\ jobRow'.status \in {"pending", "claimed"} /\ ~foreign /\ segments' = segments
          => usable \subseteq Usable(jobRow'.saved, segments, stages)]_<<segments, jobRow, run>>

\* A run that was resumed, however often and by whomever, ends in a note of its
\* plan and says who wrote it, and what was reported on the way is not done again.
RunsResume == [](NoteIsOfItsPlan /\ CreditIsWeakest) /\ DoneStaysDone
=============================================================================
