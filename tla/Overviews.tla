------------------------------ MODULE Overviews ------------------------------
(***************************************************************************)
(* The standing page of each project (services/background.py,               *)
(* complete_overview in services/jobs.py, request_overview in                *)
(* services/projects.py): the sweep asks for the pages that are out of date,  *)
(* workers write them, a new page makes the projects it is part of be asked   *)
(* for too, and the job goes round again when what it was written from has    *)
(* changed.  The job is settled after those requests, which commit, so the   *)
(* row is unlocked in between.                                              *)
(***************************************************************************)
EXTENDS Integers, FiniteSets

CONSTANTS
    Topics,         \* projects
    Logs,           \* session notes a project may have
    PartOf,         \* the links of kind part_of that there may be, as <<part, holder>>
    PageTokens,         \* claim tokens
    MinNewLogs,     \* overview_min_new_logs
    MaxChanges,     \* bound: notes written or removed, links made or dropped
    NoPage, Tokenless

ASSUME PartOfAssumption  == PartOf \subseteq Topics \X Topics
ASSUME OverviewBounds    == MinNewLogs \in Nat \ {0} /\ MaxChanges \in Nat /\ Tokenless \notin PageTokens

VARIABLES
    logs,           \* the notes in each project's log directory
    parts,          \* the standing links of kind part_of
    page,           \* overview.md of each project
    row,            \* the row of each project's overview job
    answers,        \* claims whose worker is still at it
    storing,        \* requests in complete_overview, the page written
    owed,           \* <<p, q>>: p's page is newer than the last request for q's, which p is part of
    crossed,        \* projects whose job was claimed anew during such a request
    changes

overviewVars == <<logs, parts, page, row, answers, storing, owed, crossed, changes>>

Payload(p) == [logs |-> logs[p], near |-> {l \in parts : p \in {l[1], l[2]}}]

NoRow == [status |-> "none", token |-> Tokenless]
Holders(p) == {l[2] : l \in {k \in parts : k[1] = p}}

OverviewInit ==
    /\ logs \in [Topics -> SUBSET Logs] /\ parts \in SUBSET PartOf
    /\ page = [p \in Topics |-> NoPage] /\ row = [p \in Topics |-> NoRow]
    /\ answers = {} /\ storing = {} /\ owed = {} /\ crossed = {} /\ changes = 0

-----------------------------------------------------------------------------
(* Sessions and the owner change what the pages are about.                 *)

Change == changes < MaxChanges /\ changes' = changes + 1

KeepLog(p, n) ==
    /\ Change /\ n \notin logs[p]
    /\ logs' = [logs EXCEPT ![p] = @ \cup {n}]
    /\ UNCHANGED <<parts, page, row, answers, storing, owed, crossed>>

ForgetLog(p, n) ==
    /\ Change /\ n \in logs[p]
    /\ logs' = [logs EXCEPT ![p] = @ \ {n}]
    /\ UNCHANGED <<parts, page, row, answers, storing, owed, crossed>>

Relink(l) ==
    /\ Change
    /\ parts' = IF l \in parts THEN parts \ {l} ELSE parts \cup {l}
    /\ UNCHANGED <<logs, page, row, answers, storing, owed, crossed>>

-----------------------------------------------------------------------------
(* Requests.                                                               *)

\* Mutant: a finished job is not asked for again.
RequestedOnce(rows, q) ==
    IF logs[q] = {} THEN [rows EXCEPT ![q] = NoRow]
    ELSE IF rows[q].status # "none" THEN rows
    ELSE [rows EXCEPT ![q] = [status |-> "pending", token |-> Tokenless]]

\* request_overview: without logs the page and the job go, and who works on the
\* job finds it gone; ensure_background leaves an unfinished job as it is.
Requested(rows, q) ==
    IF logs[q] = {} THEN [rows EXCEPT ![q] = NoRow]
    ELSE IF rows[q].status \in {"pending", "claimed"} THEN rows
    ELSE [rows EXCEPT ![q] = [status |-> "pending", token |-> Tokenless]]

Commits(q)          == logs[q] = {} \/ row[q].status \notin {"pending", "claimed"}
Unpaged(pages, q)   == IF logs[q] = {} THEN [pages EXCEPT ![q] = NoPage] ELSE pages
Unheld(claims, q)   == IF logs[q] = {} THEN {a \in claims : a.of # q} ELSE claims
Orphaned(calls, q)  == {IF logs[q] = {} /\ s.of = q THEN [s EXCEPT !.gone = TRUE] ELSE s : s \in calls}
Reminded(q)         == {d \in owed : d[2] # q /\ (logs[q] = {} => d[1] # q)}

\* A request to complete_overview locks the row, until its first commit.
Unlocked(p) == \A s \in storing : s.of = p => ~s.locked

\* The route, a merge and apply ask at any time.
RequestOverview(q) ==
    /\ Unlocked(q)
    /\ row' = Requested(row, q) /\ page' = Unpaged(page, q)
    /\ answers' = Unheld(answers, q) /\ storing' = Orphaned(storing, q)
    /\ owed' = Reminded(q)
    /\ UNCHANGED <<logs, parts, crossed, changes>>

\* stale
StalePage(p) == page[p] # NoPage => page[p].old \/ Cardinality(logs[p]) - page[p].counted >= MinNewLogs

\* sweep_overviews; a failed job's rest is over (tried_lately), and there is room.
SweepOverview(p) ==
    /\ StalePage(p) /\ row[p].status \notin {"pending", "claimed"}
    /\ RequestOverview(p)

\* overview_max_age_days
Age(p) ==
    /\ page[p] # NoPage /\ ~page[p].old /\ changes < MaxChanges
    /\ page' = [page EXCEPT ![p].old = TRUE]
    /\ changes' = changes + 1
    /\ UNCHANGED <<logs, parts, row, answers, storing, owed, crossed>>

-----------------------------------------------------------------------------
(* Workers.                                                                *)

\* claim_next, and claimed with the payload and its fingerprint.
ClaimOverview(p, t) ==
    /\ row[p].status = "pending" /\ \A a \in answers \cup storing : a.of = p => a.token # t
    /\ row' = [row EXCEPT ![p] = [status |-> "claimed", token |-> t]]
    /\ answers' = answers \cup {[of |-> p, token |-> t, saw |-> Payload(p)]}
    /\ crossed' = IF \E s \in storing : s.of = p THEN crossed \cup {p} ELSE crossed \ {p}
    /\ UNCHANGED <<logs, parts, page, storing, owed, changes>>

ReclaimOverview(p) ==
    /\ row[p].status = "claimed" /\ Unlocked(p)
    /\ row' = [row EXCEPT ![p] = [status |-> "pending", token |-> Tokenless]]
    /\ UNCHANGED <<logs, parts, page, answers, storing, owed, crossed, changes>>

\* The worker dies, or its answer finds the claim gone.
DropAnswer(a) ==
    /\ answers' = answers \ {a}
    /\ UNCHANGED <<logs, parts, page, row, storing, owed, crossed, changes>>

\* fail: another attempt, or none is left.
FailOverview(a) ==
    /\ row[a.of] = [status |-> "claimed", token |-> a.token]
    /\ \E status \in {"pending", "failed"} : row' = [row EXCEPT ![a.of] = [status |-> status, token |-> Tokenless]]
    /\ answers' = answers \ {a}
    /\ UNCHANGED <<logs, parts, page, storing, owed, crossed, changes>>

\* Mutant: what changed meanwhile is not looked at.
MovedOnNever(a) == FALSE

\* moved_on
MovedOn(a) == a.saw # Payload(a.of)

\* settle, or release when it moved on; then nothing is left to do for the row.
RowSettled(p, moved) == [status |-> IF moved THEN "pending" ELSE "done", token |-> Tokenless]

\* Mutant: the job is settled before the holders are asked.
SettlesFirst(rows, p, moved) == [rows EXCEPT ![p] = RowSettled(p, moved)]

\* The row stays claimed until the holders have been asked.
WhileAsking(rows, p, moved) == rows

\* complete_overview: the page, with the logs counted now; then the holders are
\* asked one by one.
StoreOverview(a) ==
    /\ row[a.of] = [status |-> "claimed", token |-> a.token]
    /\ page' = [page EXCEPT ![a.of] = [counted |-> Cardinality(logs[a.of]), saw |-> a.saw, had |-> Payload(a.of), old |-> FALSE]]
    /\ row' = IF Holders(a.of) = {} THEN [row EXCEPT ![a.of] = RowSettled(a.of, MovedOn(a))]
              ELSE WhileAsking(row, a.of, MovedOn(a))
    /\ storing' = IF Holders(a.of) = {} THEN storing
                  ELSE storing \cup {[of |-> a.of, token |-> a.token, moved |-> MovedOn(a), todo |-> Holders(a.of), locked |-> TRUE, gone |-> FALSE]}
    /\ answers' = answers \ {a}
    /\ owed' = {d \in owed : d[1] # a.of} \cup {<<a.of, q>> : q \in Holders(a.of)}
    /\ UNCHANGED <<logs, parts, crossed, changes>>

\* cascade: request_overview of one holder.
AskHolder(s, q) ==
    /\ q \in s.todo /\ Unlocked(q)
    /\ row' = Requested(row, q) /\ page' = Unpaged(page, q)
    /\ answers' = Unheld(answers, q)
    /\ storing' = Orphaned((storing \ {s}) \cup {[s EXCEPT !.todo = @ \ {q}, !.locked = @ /\ ~Commits(q)]}, q)
    /\ owed' = Reminded(q)
    /\ UNCHANGED <<logs, parts, crossed, changes>>

\* settle or release saves the row as it was read, whoever claimed it since; a
\* row that is gone makes the save fail.
SettleOverview(s) ==
    /\ s.todo = {} /\ \A o \in storing \ {s} : o.of = s.of => ~o.locked
    /\ row' = IF s.gone THEN row ELSE [row EXCEPT ![s.of] = RowSettled(s.of, s.moved)]
    /\ storing' = storing \ {s}
    /\ UNCHANGED <<logs, parts, page, answers, owed, crossed, changes>>

\* The server dies, or a step of the request fails.
CutShort(s) ==
    /\ storing' = storing \ {s}
    /\ UNCHANGED <<logs, parts, page, row, answers, owed, crossed, changes>>

OverviewNext ==
    \/ \E p \in Topics : RequestOverview(p) \/ SweepOverview(p) \/ Age(p) \/ ReclaimOverview(p)
                         \/ \E n \in Logs : KeepLog(p, n) \/ ForgetLog(p, n)
                         \/ \E t \in PageTokens : ClaimOverview(p, t)
    \/ \E l \in PartOf : Relink(l)
    \/ \E a \in answers : DropAnswer(a) \/ FailOverview(a) \/ StoreOverview(a)
    \/ \E s \in storing : SettleOverview(s) \/ CutShort(s) \/ \E q \in s.todo : AskHolder(s, q)

OverviewSpec == OverviewInit /\ [][OverviewNext]_overviewVars

-----------------------------------------------------------------------------
(* The janitor sweeps and reclaims for ever, a worker claims what waits, a     *)
(* claim ends, a request ends, and a claim that is tried over and over is at  *)
(* last answered.                                                          *)
Answered(p) == \E a \in answers : a.of = p /\ StoreOverview(a)
GivesUp(p)  == \E a \in answers : a.of = p /\ row[p] # [status |-> "claimed", token |-> a.token] /\ DropAnswer(a)

OverviewFairness ==
    \A p \in Topics :
       /\ WF_overviewVars(SweepOverview(p))
       /\ WF_overviewVars(\E t \in PageTokens : ClaimOverview(p, t))
       /\ WF_overviewVars(ReclaimOverview(p))
       /\ WF_overviewVars(GivesUp(p))
       /\ SF_overviewVars(Answered(p))
       /\ WF_overviewVars(\E s \in storing : s.of = p /\ \E q \in s.todo : AskHolder(s, q))
       /\ SF_overviewVars(\E s \in storing : s.of = p /\ SettleOverview(s))

-----------------------------------------------------------------------------
\* A page whose job is done was written from what the project had when it was
\* written: logs that came while a worker wrote send the job round again, also
\* when a request is cut short or a claim was reclaimed (complete_overview,
\* moved_on).  Not where a second claim crossed a request past its first commit.
DoneSawEverything ==
    \A p \in Topics : row[p].status = "done" /\ page[p] # NoPage /\ p \notin crossed => page[p].saw = page[p].had

\* Once the job is done, each project its project is part of was asked for after
\* the page was written, whatever was cut short on the way (cascade before settle).
DoneWasPassedOn ==
    \A p \in Topics : row[p].status = "done" /\ p \notin crossed => \A d \in owed : d[1] = p => d[2] \notin Holders(p)

\* The page of a project that has logs does not stay out of date (sweep_overviews).
PagesCatchUp == \A p \in Topics : []<>(logs[p] = {} \/ ~StalePage(p))

\* A job that is done left nothing undone, of its own page or of the projects above.
DoneIsComplete == DoneSawEverything /\ DoneWasPassedOn
=============================================================================
