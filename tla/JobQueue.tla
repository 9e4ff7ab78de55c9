------------------------------ MODULE JobQueue ------------------------------
(***************************************************************************)
(* The queue of session summaries: the `job` table, the HTTP handlers of   *)
(* backend/routes/jobs.py over it, the janitor's passes, the owner's       *)
(* commands, and the devices and workers that call them.                   *)
(*                                                                         *)
(* A step is what runs between two commits of one request, which is what   *)
(* the row lock of claim_held and find_by_session(lock) makes atomic.      *)
(* Where the code commits half way, or saves a row it read without a lock, *)
(* the step is split and the window is named in Gaps.                      *)
(*                                                                         *)
(* Data: a conversation is the number of its last turn (its version), a    *)
(* note is the version it was written from.  Time: a timestamp column is   *)
(* kept as the comparisons the code makes with it (age, due, fresh,        *)
(* expired), and the passing of time is an action per comparison.          *)
(***************************************************************************)
EXTENDS Integers, FiniteSets

CONSTANTS
    Sessions,     \* the (agent, device, session_id) keys
    Providers,    \* LLM provider names
    Rank,         \* LLMProvider.priority: a smaller number is a better provider
    Background,   \* the providers with background_jobs set
    Removable,    \* the providers the owner may delete
    Tokens,       \* claim tokens; a uuid nobody holds any more may come back
    MaxVersion,   \* bound: turns of a session
    Trivial,      \* conversations up to this version ask for nothing worth a note
    MaxAttempts,  \* runtime.job_max_attempts
    BatchSize,    \* runtime.background_batch_size
    Gaps,         \* which unlocked windows of the code are open
    NoToken, NoOne, Janitor

Windows == {"absorb", "sweep"}

ASSUME RankAssumption    == Rank \in [Providers -> Nat]
ASSUME ProviderAssumption == Background \subseteq Providers /\ Removable \subseteq Providers
ASSUME BoundAssumption   == /\ MaxVersion \in Nat /\ Trivial \in Nat
                            /\ MaxAttempts \in Nat \ {0} /\ BatchSize \in Nat
ASSUME NameAssumption    == NoToken \notin Tokens /\ NoOne \notin Providers /\ Janitor \notin Providers
ASSUME GapAssumption     == Gaps \subseteq Windows

VARIABLES
    raw,        \* version of the stored raw transcript, which the device appends to
    post,       \* the POST /api/jobs each device has in flight
    job,        \* the job rows
    hidden,     \* sessions with a note_decision
    note,       \* version of the session's note on disk, 0 without one
    forgot,     \* version the owner threw away with the note
    active,     \* rows of llm_provider
    work,       \* the claims live workers are working on
    finishing,  \* completions between the commit of absorb and that of written
    listed,     \* rows a sweep has read and not saved yet
    seen        \* what settle_trivial knows of each session it has read

vars == <<raw, post, job, hidden, note, forgot, active, work, finishing, listed, seen>>

-----------------------------------------------------------------------------
Statuses == {"ABSENT", "PENDING", "CLAIMED", "DONE", "FAILED"}
Versions == 0..MaxVersion

(* 0 active, 1 quiet for job_idle_seconds, 2 past the retention.           *)
Ages == 0..2

JobRow == [status: Statuses, digest: Versions, text: BOOLEAN,
           background: BOOLEAN, refined: BOOLEAN, attempts: Nat, due: BOOLEAN,
           age: Ages, fresh: BOOLEAN, expired: BOOLEAN,
           token: Tokens \cup {NoToken}, by: Providers \cup {NoOne, Janitor},
           completed: BOOLEAN, path: BOOLEAN]

Claims   == [session: Sessions, token: Tokens, version: Versions, choices: SUBSET Providers]
Posts    == [version: Versions, crossed: BOOLEAN]
Kinds    == {"rebuild", "requeue", "refine"}

NoPost == [version |-> 0, crossed |-> FALSE]

NoJob == [status |-> "ABSENT", digest |-> 0, text |-> FALSE,
          background |-> FALSE, refined |-> FALSE, attempts |-> 0, due |-> TRUE,
          age |-> 0, fresh |-> FALSE, expired |-> FALSE,
          token |-> NoToken, by |-> NoOne, completed |-> FALSE, path |-> FALSE]

Init ==
    /\ raw       = [s \in Sessions |-> 0]
    /\ post      = [s \in Sessions |-> NoPost]
    /\ job       = [s \in Sessions |-> NoJob]
    /\ hidden    = [s \in Sessions |-> FALSE]
    /\ note      = [s \in Sessions |-> 0]
    /\ forgot    = [s \in Sessions |-> 0]
    /\ active    = Providers
    /\ work      = {}
    /\ finishing = {}
    /\ listed    = {}
    /\ seen      = [s \in Sessions |-> "no"]

SetRow(s, row) == job' = [job EXCEPT ![s] = row]

(* What ends a claim: claimed_at, claimed_by and claim_token go.           *)
Unclaimed(row, status) ==
    [row EXCEPT !.status = status, !.token = NoToken, !.fresh = FALSE, !.expired = FALSE]

(* An ORM save writes the columns whose value differs from the one loaded; *)
(* the others keep what another transaction may have committed meanwhile.  *)
Column(now, loaded, wanted) == IF wanted = loaded THEN now ELSE wanted

(* What a request remembers of the row it loaded: the columns it may write. *)
Loaded(row) == [row EXCEPT !.digest = 0, !.text = FALSE, !.age = 0, !.expired = FALSE, !.path = FALSE]

Flush(now, loaded, wanted) ==
    [status     |-> Column(now.status, loaded.status, wanted.status),
     digest     |-> now.digest,
     text       |-> now.text,
     background |-> Column(now.background, loaded.background, wanted.background),
     refined    |-> Column(now.refined, loaded.refined, wanted.refined),
     attempts   |-> Column(now.attempts, loaded.attempts, wanted.attempts),
     due        |-> Column(now.due, loaded.due, wanted.due),
     age        |-> now.age,
     fresh      |-> FALSE,
     expired    |-> FALSE,
     token      |-> Column(now.token, loaded.token, wanted.token),
     by         |-> Column(now.by, loaded.by, wanted.by),
     completed  |-> Column(now.completed, loaded.completed, wanted.completed),
     path       |-> now.path]

-----------------------------------------------------------------------------
(* The device.  Stop appends to the raw transcript, then posts the job;    *)
(* the post can be lost.  The hook is synchronous: one post at a time.     *)

Stop(s) ==
    /\ post[s] = NoPost
    /\ \E v \in {raw[s], raw[s] + 1} :
        /\ v \in 1..MaxVersion
        /\ raw'  = [raw EXCEPT ![s] = v]
        /\ post' = [post EXCEPT ![s] = [version |-> v, crossed |-> FALSE]]
    /\ UNCHANGED <<job, hidden, note, forgot, active, work, finishing, listed, seen>>

LosePost(s) ==
    /\ post[s] # NoPost
    /\ post' = [post EXCEPT ![s] = NoPost]
    /\ UNCHANGED <<raw, job, hidden, note, forgot, active, work, finishing, listed, seen>>

NewJobOneTooFar(v) == [NoJob EXCEPT !.status = "PENDING", !.digest = v + 1, !.text = TRUE]

NewJob(v) == [NoJob EXCEPT !.status = "PENDING", !.digest = v, !.text = TRUE]

ContinuedStaysSettled(row, v, early) ==
    [row EXCEPT !.digest = v, !.text = TRUE, !.age = 0, !.background = FALSE, !.refined = FALSE,
                !.fresh = row.status = "CLAIMED" /\ ~early]

(* `now` is taken before the row lock: a claim that committed in between   *)
(* leaves last_activity_at older than claimed_at.                          *)
Continued(row, v, early) ==
    [row EXCEPT !.digest = v, !.text = TRUE, !.age = 0, !.background = FALSE, !.refined = FALSE,
                !.fresh    = row.status = "CLAIMED" /\ ~early,
                !.status   = IF row.status \in {"DONE", "FAILED"} THEN "PENDING" ELSE @,
                !.attempts = IF row.status \in {"DONE", "FAILED"} THEN 0 ELSE @,
                !.due      = IF row.status \in {"DONE", "FAILED"} THEN TRUE ELSE @]

Enqueue(s) ==
    LET v == post[s].version IN
    /\ post[s] # NoPost
    /\ post' = [post EXCEPT ![s] = NoPost]
    /\ \/ /\ ~hidden[s] /\ job[s].status = "ABSENT"
          /\ SetRow(s, NewJob(v))
          /\ UNCHANGED seen
       \/ /\ ~hidden[s] /\ job[s].status # "ABSENT" /\ job[s].digest # v
          /\ \E early \in {FALSE, post[s].crossed} : SetRow(s, Continued(job[s], v, early))
          /\ seen' = [seen EXCEPT ![s] = IF @ = "same" THEN "moved" ELSE @]
       \/ /\ hidden[s] \/ (job[s].status # "ABSENT" /\ job[s].digest = v)
          /\ UNCHANGED <<job, seen>>
    /\ UNCHANGED <<raw, hidden, note, forgot, active, work, finishing, listed>>

-----------------------------------------------------------------------------
(* The workers.                                                            *)

Worse(p) == {q \in active : Rank[q] > Rank[p]}

NobodyDecided(s) == TRUE

Undecided(s) == ~hidden[s]

ClaimableTwice(s, p) ==
    /\ job[s].status \in {"PENDING", "CLAIMED"}
    /\ job[s].age > 0
    /\ job[s].due
    /\ job[s].background => p \in Background
    /\ job[s].refined => job[s].by \in Worse(p)
    /\ Undecided(s)

Claimable(s, p) ==
    /\ job[s].status = "PENDING"
    /\ job[s].age > 0
    /\ job[s].due
    /\ job[s].background => p \in Background
    /\ job[s].refined => job[s].by \in Worse(p)
    /\ Undecided(s)

UsedTokens == {w.token : w \in work} \cup {job[s].token : s \in Sessions}

FallbacksToAnyone(row, p) == {q \in active : row.background => q \in Background} \cup {p}

(* fallback_order: who may end up producing what provider p claimed.       *)
Fallbacks(row, p) ==
    LET order == {q \in active : row.background => q \in Background} IN
    IF ~row.refined THEN order \cup {p}
    ELSE {q \in order : Rank[q] < Rank[row.by]} \cup {p}

(* Which claimable row comes first is left open: the query orders by       *)
(* priority and age but passes over rows another request has locked.  The  *)
(* raw transcript is read right after the claim commits; reading it in the *)
(* same step takes the oldest one the worker can be handed.                *)
ClaimNext(s, p) ==
    /\ p \in active
    /\ Claimable(s, p)
    /\ \E t \in Tokens \ UsedTokens :
        /\ SetRow(s, [job[s] EXCEPT !.status = "CLAIMED", !.token = t,
                                    !.fresh = FALSE, !.expired = FALSE])
        /\ work' = work \cup {[session |-> s, token |-> t, version |-> raw[s],
                               choices |-> Fallbacks(job[s], p)]}
    /\ post' = [post EXCEPT ![s].crossed = post[s] # NoPost]
    /\ UNCHANGED <<raw, hidden, note, forgot, active, finishing, listed, seen>>

VerifyStatusOnly(w) == job[w.session].status = "CLAIMED"

VerifyClaim(w) == job[w.session].status = "CLAIMED" /\ job[w.session].token = w.token

Heartbeat(w) ==
    /\ VerifyClaim(w)
    /\ SetRow(w.session, [job[w.session] EXCEPT !.expired = FALSE])
    /\ UNCHANGED <<raw, post, hidden, note, forgot, active, work, finishing, listed, seen>>

Release(w) ==
    /\ VerifyClaim(w)
    /\ \E later \in BOOLEAN :
        SetRow(w.session, [Unclaimed(job[w.session], "PENDING") EXCEPT !.due = ~later])
    /\ work' = work \ {w}
    /\ UNCHANGED <<raw, post, hidden, note, forgot, active, finishing, listed, seen>>

Failed(row) ==
    LET attempts == row.attempts + 1
        settled  == row.refined /\ row.completed
    IN  IF attempts < MaxAttempts
        THEN [Unclaimed(row, "PENDING") EXCEPT !.attempts = attempts, !.due = FALSE]
        ELSE [Unclaimed(row, IF settled THEN "DONE" ELSE "FAILED") EXCEPT
                !.attempts = attempts, !.due = TRUE]

Fail(w) ==
    /\ VerifyClaim(w)
    /\ SetRow(w.session, Failed(job[w.session]))
    /\ work' = work \ {w}
    /\ UNCHANGED <<raw, post, hidden, note, forgot, active, finishing, listed, seen>>

WrittenAlwaysDone(row, q) == [Unclaimed(row, "DONE") EXCEPT !.by = q, !.completed = TRUE]

Written(row, q) ==
    [Unclaimed(row, IF row.fresh THEN "PENDING" ELSE "DONE") EXCEPT
        !.by = q, !.completed = TRUE]

(* The note names no project link that is new: one commit does it all.     *)
Complete(w) ==
    /\ VerifyClaim(w)
    /\ note' = [note EXCEPT ![w.session] = w.version]
    /\ \E q \in w.choices :
        SetRow(w.session, Written([job[w.session] EXCEPT !.path = TRUE], q))
    /\ work' = work \ {w}
    /\ UNCHANGED <<raw, post, hidden, forgot, active, finishing, listed, seen>>

(* The note names a new link: absorb commits it, and the row lock and the  *)
(* note_path with it, before written() decides what becomes of the job.    *)
CompleteWithLinks(w) ==
    /\ "absorb" \in Gaps
    /\ \A f \in finishing : f.session # w.session    \* bound: one unfinished completion a session
    /\ VerifyClaim(w)
    /\ note' = [note EXCEPT ![w.session] = w.version]
    /\ LET row == [job[w.session] EXCEPT !.path = TRUE] IN
        /\ SetRow(w.session, row)
        /\ \E q \in w.choices :
            finishing' = finishing \cup {[session |-> w.session, row |-> Loaded(row), by |-> q]}
    /\ work' = work \ {w}
    /\ UNCHANGED <<raw, post, hidden, forgot, active, listed, seen>>

FinishWritten(f) ==
    /\ SetRow(f.session, Flush(job[f.session], f.row, Written(f.row, f.by)))
    /\ finishing' = finishing \ {f}
    /\ UNCHANGED <<raw, post, hidden, note, forgot, active, work, listed, seen>>

(* A late answer, report or heartbeat gets 409 and the worker lets go.     *)
Abandon(w) ==
    /\ ~VerifyClaim(w)
    /\ work' = work \ {w}
    /\ UNCHANGED <<raw, post, job, hidden, note, forgot, active, finishing, listed, seen>>

(* The worker crashes, or never got the answer to its claim.               *)
WorkerDies(w) ==
    /\ work' = work \ {w}
    /\ UNCHANGED <<raw, post, job, hidden, note, forgot, active, finishing, listed, seen>>

-----------------------------------------------------------------------------
(* The janitor.                                                            *)

ReclaimStale ==
    LET stale == {s \in Sessions : job[s].status = "CLAIMED" /\ job[s].expired} IN
    /\ stale # {}
    /\ job' = [s \in Sessions |-> IF s \in stale THEN Unclaimed(job[s], "PENDING") ELSE job[s]]
    /\ UNCHANGED <<raw, post, hidden, note, forgot, active, work, finishing, listed, seen>>

PurgeTranscripts ==
    LET old == {s \in Sessions : /\ job[s].status \in {"DONE", "FAILED"}
                                 /\ job[s].age = 2 /\ job[s].text} IN
    /\ old # {}
    /\ job' = [s \in Sessions |-> IF s \in old THEN [job[s] EXCEPT !.text = FALSE] ELSE job[s]]
    /\ UNCHANGED <<raw, post, hidden, note, forgot, active, work, finishing, listed, seen>>

DecidedFirstTime == {s \in Sessions : job[s].status = "PENDING" /\ ~Undecided(s) /\ ~job[s].completed}

Decided == {s \in Sessions : job[s].status = "PENDING" /\ ~Undecided(s)}

SettleDecided ==
    /\ Decided # {}
    /\ job' = [s \in Sessions |->
                IF s \in Decided
                THEN [Unclaimed(job[s], "DONE") EXCEPT !.completed = TRUE, !.text = FALSE]
                ELSE job[s]]
    /\ UNCHANGED <<raw, post, hidden, note, forgot, active, work, finishing, listed, seen>>

(* settle_trivial lists a quiet session, reads its transcript, and settles *)
(* it by an UPDATE that checks the row is still the one it listed.         *)
ScanTrivial(s) ==
    /\ seen[s] = "no"
    /\ job[s].status = "PENDING" /\ ~job[s].background /\ ~job[s].path
    /\ job[s].due /\ job[s].age > 0
    /\ raw[s] \in 1..Trivial
    /\ seen' = [seen EXCEPT ![s] = "same"]
    /\ UNCHANGED <<raw, post, job, hidden, note, forgot, active, work, finishing, listed>>

StillAsSeen(s) ==
    /\ seen[s] = "same"
    /\ job[s].status = "PENDING" /\ ~job[s].background /\ ~job[s].path

SettleWithoutNote(s) ==
    /\ seen[s] # "no"
    /\ seen' = [seen EXCEPT ![s] = "no"]
    /\ IF StillAsSeen(s)
       THEN SetRow(s, [job[s] EXCEPT !.status = "DONE", !.completed = TRUE,
                                     !.text = FALSE, !.by = Janitor])
       ELSE UNCHANGED job
    /\ UNCHANGED <<raw, post, hidden, note, forgot, active, work, finishing, listed>>

Room == BatchSize - Cardinality({s \in Sessions : job[s].status = "PENDING" /\ job[s].background})

BestRank(p) == p \in active \cap Background /\ \A q \in active \cap Background : Rank[p] <= Rank[q]

(* What each read-then-save pass selects: the owner's POST /raw/rebuild,   *)
(* sweep_rebuilds and sweep_refinements.                                   *)
Selected(s, kind) ==
    /\ Undecided(s)
    /\ CASE kind = "rebuild" -> raw[s] > 0 /\ job[s].status \notin {"PENDING", "CLAIMED"}
         [] kind = "requeue" -> Room > 0 /\ job[s].status = "DONE" /\ job[s].completed
         [] kind = "refine"  -> /\ Room > 0
                                /\ job[s].status = "DONE" /\ job[s].text /\ ~job[s].refined
                                /\ job[s].path
                                /\ \E p \in active : BestRank(p) /\ job[s].by \in Worse(p)

(* ... and what it then writes to the row it read.                         *)
Reopened(row, kind) ==
    CASE kind = "rebuild" -> [Unclaimed(row, "PENDING") EXCEPT
                                !.background = FALSE, !.refined = FALSE, !.attempts = 0, !.due = TRUE]
      [] kind = "requeue" -> [Unclaimed(row, "PENDING") EXCEPT
                                !.background = TRUE, !.refined = FALSE, !.attempts = 0, !.due = TRUE]
      [] kind = "refine"  -> [row EXCEPT !.status = "PENDING",
                                !.background = TRUE, !.refined = TRUE, !.attempts = 0, !.due = TRUE]

Reopen(s, kind) ==
    /\ Selected(s, kind)
    /\ SetRow(s, Reopened(job[s], kind))
    /\ seen' = [seen EXCEPT ![s] = IF @ = "same" /\ kind = "rebuild" THEN "moved" ELSE @]
    /\ UNCHANGED <<raw, post, hidden, note, forgot, active, work, finishing, listed>>

ListRow(s, kind) ==
    /\ "sweep" \in Gaps
    /\ \A l \in listed : l.session # s               \* bound: one row read and not saved a session
    /\ Selected(s, kind)
    /\ listed' = listed \cup {[session |-> s, kind |-> kind, row |-> Loaded(job[s])]}
    /\ UNCHANGED <<raw, post, job, hidden, note, forgot, active, work, finishing, seen>>

(* Inserting a row that an enqueue inserted meanwhile breaks the unique    *)
(* constraint and leaves everything as it was.                             *)
SaveListed(l) ==
    /\ IF l.row.status = "ABSENT" /\ job[l.session].status # "ABSENT"
       THEN UNCHANGED job
       ELSE SetRow(l.session, Flush(job[l.session], l.row, Reopened(l.row, l.kind)))
    /\ listed' = listed \ {l}
    /\ seen' = [seen EXCEPT ![l.session] = IF @ = "same" /\ l.kind = "rebuild" THEN "moved" ELSE @]
    /\ UNCHANGED <<raw, post, hidden, note, forgot, active, work, finishing>>

-----------------------------------------------------------------------------
(* The owner.                                                              *)

Retry(s) ==
    /\ job[s].status = "FAILED"
    /\ SetRow(s, [Unclaimed(job[s], "PENDING") EXCEPT !.attempts = 0, !.due = TRUE])
    /\ UNCHANGED <<raw, post, hidden, note, forgot, active, work, finishing, listed, seen>>

(* Deleting a session's note with verdict HIDE: the decision and the job   *)
(* are committed together, then the files go: one step here, two in         *)
(* NoteFiling.                                                             *)
Forget(s) ==
    /\ note[s] > 0
    /\ hidden' = [hidden EXCEPT ![s] = TRUE]
    /\ forgot' = [forgot EXCEPT ![s] = job[s].digest]
    /\ note'   = [note EXCEPT ![s] = 0]
    /\ LET row == [job[s] EXCEPT !.path = FALSE, !.text = FALSE] IN
        SetRow(s, IF row.status \in {"PENDING", "CLAIMED"}
                  THEN [Unclaimed(row, "DONE") EXCEPT !.completed = TRUE]
                  ELSE row)
    /\ UNCHANGED <<raw, post, active, work, finishing, listed, seen>>

Allow(s) ==
    /\ hidden[s]
    /\ hidden' = [hidden EXCEPT ![s] = FALSE]
    /\ UNCHANGED <<raw, post, job, note, forgot, active, work, finishing, listed, seen>>

RemoveProvider(p) ==
    /\ p \in Removable \cap active
    /\ active' = active \ {p}
    /\ UNCHANGED <<raw, post, job, hidden, note, forgot, work, finishing, listed, seen>>

-----------------------------------------------------------------------------
(* Time.                                                                   *)

GrowOlder(s) ==
    /\ job[s].status # "ABSENT" /\ job[s].age < 2
    /\ SetRow(s, [job[s] EXCEPT !.age = @ + 1])
    /\ UNCHANGED <<raw, post, hidden, note, forgot, active, work, finishing, listed, seen>>

BackoffEnds(s) ==
    /\ ~job[s].due
    /\ SetRow(s, [job[s] EXCEPT !.due = TRUE])
    /\ UNCHANGED <<raw, post, hidden, note, forgot, active, work, finishing, listed, seen>>

ClaimExpires(s) ==
    /\ job[s].status = "CLAIMED" /\ ~job[s].expired
    /\ SetRow(s, [job[s] EXCEPT !.expired = TRUE])
    /\ UNCHANGED <<raw, post, hidden, note, forgot, active, work, finishing, listed, seen>>

(* The api process restarts: every request and the janitor pass in flight   *)
(* end where they were, the sessions of the database roll back.            *)
ServerRestarts ==
    /\ post' = [s \in Sessions |-> NoPost]
    /\ finishing' = {} /\ listed' = {}
    /\ seen' = [s \in Sessions |-> "no"]
    /\ UNCHANGED <<raw, job, hidden, note, forgot, active, work>>

-----------------------------------------------------------------------------
Device(s) == Stop(s) \/ LosePost(s) \/ Enqueue(s)

Worker(w) ==
    \/ Heartbeat(w) \/ Release(w) \/ Fail(w) \/ Complete(w) \/ CompleteWithLinks(w)
    \/ Abandon(w) \/ WorkerDies(w)

JanitorPass ==
    \/ ReclaimStale \/ PurgeTranscripts \/ SettleDecided
    \/ \E s \in Sessions : ScanTrivial(s) \/ SettleWithoutNote(s)
    \/ \E s \in Sessions, kind \in Kinds : Reopen(s, kind) \/ ListRow(s, kind)
    \/ \E l \in listed : SaveListed(l)

OwnerCommand ==
    \/ \E s \in Sessions : Retry(s) \/ Forget(s) \/ Allow(s)
    \/ \E p \in Providers : RemoveProvider(p)

Time(s) == GrowOlder(s) \/ BackoffEnds(s) \/ ClaimExpires(s)

Next ==
    \/ \E s \in Sessions : Device(s) \/ Time(s)
    \/ \E s \in Sessions, p \in Providers : ClaimNext(s, p)
    \/ \E w \in work : Worker(w)
    \/ \E f \in finishing : FinishWritten(f)
    \/ JanitorPass
    \/ ServerRestarts
    \/ OwnerCommand

Spec == Init /\ [][Next]_vars

(* Fairness.  Time passes, requests that were accepted finish, the janitor *)
(* runs every maintenance interval.  Every provider's slot keeps polling,  *)
(* so a job that is claimable again and again is claimed in the end, and   *)
(* not every attempt ends in a crash or a hand-back: one of them comes to  *)
(* an answer or to a failure.                                              *)
Answers(s) == \E w \in work : w.session = s /\ (Complete(w) \/ CompleteWithLinks(w) \/ Fail(w))

Fairness ==
    /\ WF_vars(ReclaimStale) /\ WF_vars(SettleDecided)
    /\ WF_vars(\E w \in work : Abandon(w))
    /\ WF_vars(\E f \in finishing : FinishWritten(f))
    /\ WF_vars(\E l \in listed : SaveListed(l))
    /\ \A s \in Sessions :
        /\ WF_vars(GrowOlder(s)) /\ WF_vars(BackoffEnds(s)) /\ WF_vars(ClaimExpires(s))
        /\ WF_vars(SettleWithoutNote(s))
        /\ SF_vars(\E p \in Providers : ClaimNext(s, p))
        /\ SF_vars(Answers(s))

FairSpec == Spec /\ Fairness

-----------------------------------------------------------------------------
(* Properties.                                                             *)

(* Every variable has its type (Job, backend/models.py).                   *)
TypeOK ==
    /\ raw    \in [Sessions -> Versions]
    /\ post   \in [Sessions -> Posts]
    /\ job    \in [Sessions -> JobRow]
    /\ hidden \in [Sessions -> BOOLEAN]
    /\ note   \in [Sessions -> Versions]
    /\ forgot \in [Sessions -> Versions]
    /\ active \in SUBSET Providers
    /\ work   \in SUBSET Claims
    /\ finishing \in SUBSET [session: Sessions, row: JobRow, by: Providers]
    /\ listed    \in SUBSET [session: Sessions, kind: Kinds, row: JobRow]
    /\ seen   \in [Sessions -> {"no", "same", "moved"}]

(* Whatever a session was last enqueued with is accounted for by the time  *)
(* its job is DONE: the note on disk was written from it or from something *)
(* newer, or it holds nothing worth a note, or the owner threw it away.    *)
(* This is what written() re-queues a session for (jobs.py:177-181), what  *)
(* settle_without_note compares last_activity_at for and what lets fail()  *)
(* settle a job whose refinement keeps failing.                            *)
Accounted(s) ==
    \/ job[s].digest <= note[s]
    \/ job[s].digest <= forgot[s]
    \/ job[s].digest <= Trivial

NoLostActivity == \A s \in Sessions : job[s].status = "DONE" => Accounted(s)

(* A note is only ever replaced by one written from at least as much of    *)
(* the conversation, whichever of the workers that were ever handed the    *)
(* job answers, and however late: the claim token fences out the others    *)
(* (verify_claim).  Only the owner's verdict takes a note back.            *)
NoteNeverRegresses ==
    [][\A s \in Sessions : note'[s] < note[s] => ~hidden[s] /\ hidden'[s]]_vars

(* A session the owner deleted has no note and no worker, whatever was in  *)
(* flight when it was deleted and whatever reopens its job afterwards: a   *)
(* rebuild, a retry, a late result (undecided() in claim_next,             *)
(* DecisionService.one).                                                   *)
HiddenStaysHidden ==
    \A s \in Sessions : hidden[s] => note[s] = 0 /\ job[s].status # "CLAIMED"

(* Refinement only replaces a summary by one of a better provider: while a *)
(* job that has a note is reopened for refinement, its summarizer only     *)
(* changes to a better one (claim_next's `worse`, fallback_order).         *)
RefineNeverWeakens ==
    [][\A s \in Sessions :
        job[s].refined /\ job[s].path /\ job'[s].by # job[s].by
            => job'[s].by \in Providers /\ Rank[job'[s].by] < Rank[job[s].by]]_vars

(* The queue drains: a session job that waits does not wait for ever       *)
(* (README: "Jobs pile up while the LLM is unreachable and drain when it   *)
(* returns").                                                              *)
PendingDrains ==
    \A s \in Sessions : job[s].status = "PENDING" ~> job[s].status # "PENDING"

(* What a session was enqueued with is in the end summarized, settled as   *)
(* not worth a note, thrown away by the owner, or reported as FAILED.      *)
ActivityIsSettled ==
    \A s \in Sessions, v \in 1..MaxVersion :
        job[s].digest = v
            ~> v <= Trivial \/ v <= note[s] \/ v <= forgot[s] \/ job[s].status = "FAILED"

(* The queue implements the abstract lease: the lease of a session is the  *)
(* token of its row while the row is CLAIMED, whatever stale tokens rows   *)
(* and workers still hold (verify_claim, claim_next, reclaim_stale).       *)
Owner == [s \in Sessions |-> IF job[s].status = "CLAIMED" THEN job[s].token ELSE NoToken]

Lease == INSTANCE SummaryLease WITH owner <- Owner

ImplementsLease == Lease!Spec

(* Both: the queue drains, and nothing it was told gets stuck in it.       *)
QueueSettles == PendingDrains /\ ActivityIsSettled
=============================================================================
