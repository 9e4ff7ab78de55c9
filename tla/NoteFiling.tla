----------------------------- MODULE NoteFiling -----------------------------
(***************************************************************************)
(* Where the note of a session is.  A completed summary is cut into one     *)
(* note for each project its requests are filed under (complete_session,    *)
(* backend/services/jobs.py), while the owner pins requests, moves notes,    *)
(* forgets the session (backend/services/decisions.py) and merges projects   *)
(* (backend/services/projects.py).  Files are written at once; rows are      *)
(* read and committed around awaits, where the other requests run.          *)
(*                                                                         *)
(* There is one session, and one command of the owner at a time.            *)
(***************************************************************************)
EXTENDS Integers, FiniteSets

CONSTANTS
    Projects,
    Requests,       \* numbers of the session's requests, from 1
    Copies,         \* bound: files of the session in one project
    MaxCommands,    \* bound: commands of the owner
    NoProject

ASSUME RequestsAssumption  == Requests \subseteq Nat \ {0}
ASSUME CopiesAssumption    == Copies \subseteq Nat /\ 1 \in Copies
ASSUME NoProjectAssumption == NoProject \notin Projects
ASSUME CommandsAssumption  == MaxCommands \in Nat

VARIABLES
    notes,      \* the files of the session
    filedUnder, \* job.project
    notePath,   \* job.note_path
    pins,       \* note_pin: by first_request, 0 for the whole session
    aliasOf,    \* project_alias
    filing,     \* the summary being completed
    command,    \* what the owner asked for
    commands,
    decided,    \* there is a note_decision
    erased,     \* history: a forget went through since
    settled,    \* history: the last summary was completed with nothing in between
    swallowed   \* history: a note was moved over another

projectVars == <<filedUnder, pins, aliasOf>>
filingVars  == <<notes, notePath, projectVars, filing, command, commands, decided, erased, settled, swallowed>>

\* A path: the project, and which of the session's file names there. The
\* first is path_for, the others those that vacant makes.
NoPath == <<NoProject, 0>>

\* A summary is claimed, planned and written; place: the project of each
\* request; home: the session's own; locked: the row lock of claim_held; alone:
\* history, nothing came in between.
NoFiling == [phase |-> "none", place |-> [r \in Requests |-> NoProject], home |-> NoProject, path |-> NoPath,
             locked |-> FALSE, alone |-> TRUE]

\* A command has its next step (relocate, relink, clear, redirect, erase), the
\* projects of a merge or a move, the path to relocate, and the moves so far.
NoCommand == [step |-> "none", from |-> NoProject, to |-> NoProject, old |-> NoPath, moved |-> {}]

Live        == {p \in Projects : aliasOf[p] = NoProject}
Resolved(p) == IF aliasOf[p] = NoProject THEN p ELSE aliasOf[p]
Occupied    == {n.path : n \in notes}
AtRest      == filing.phase = "none" /\ command.step = "none"

FilingInit ==
    /\ notes = {}
    /\ filedUnder \in Projects
    /\ notePath = NoPath
    /\ pins = [r \in Requests \cup {0} |-> NoProject]
    /\ aliasOf = [p \in Projects |-> NoProject]
    /\ filing = NoFiling /\ command = NoCommand /\ commands = 0
    /\ decided = FALSE /\ erased = FALSE /\ settled = TRUE /\ swallowed = FALSE

-----------------------------------------------------------------------------
(* complete_session.                                                       *)

Claim ==
    /\ filing.phase = "none" /\ ~decided
    /\ filing' = [NoFiling EXCEPT !.phase = "claimed", !.alone = command.step = "none"]
    /\ UNCHANGED <<notes, notePath, projectVars, command, commands, decided, erased, settled, swallowed>>

\* Which pin comes first, when several hold a request, is up to the database.
PinsOn(r) == {pins[0], pins[r]} \ {NoProject}

\* Mutant: only the pins of the whole session count.
ObeysWhole(place) == pins[0] # NoProject => \A r \in Requests : place[r] = Resolved(pins[0])

Obeys(place) == \A r \in Requests : PinsOn(r) # {} => place[r] \in {Resolved(p) : p \in PinsOn(r)}

\* The worker named a project for each request; pins come before.
Plan ==
    /\ filing.phase = "claimed"
    /\ \E place \in [Requests -> Live] :
          /\ Obeys(place)
          /\ filing' = [filing EXCEPT !.phase = "planned", !.place = place, !.locked = TRUE,
                           !.home = IF pins[0] # NoProject THEN pins[0] ELSE Resolved(filedUnder)]
    /\ UNCHANGED <<notes, notePath, projectVars, command, commands, decided, erased, settled, swallowed>>

\* Mutant: notes of an earlier summary stay.
BesideOthers(written) == written \cup {n \in notes : \A w \in written : w.path # n.path}

\* forget_others
WithoutOthers(written) == written

\* write_session for each project, then forget_others.  When links are
\* absorbed, their commit ends the row lock.
WriteNotes(absorbs) ==
    LET groups  == {filing.place[r] : r \in Requests}
        path(p) == IF p = filing.home /\ notePath[1] = p THEN notePath ELSE <<p, 1>>
        written == {[path |-> path(p), holds |-> {r \in Requests : filing.place[r] = p}] : p \in groups}
    IN  /\ filing.phase = "planned"
        /\ notes' = WithoutOthers(written)
        /\ \E n \in written :
              /\ filing.home \in groups => n.path = path(filing.home)
              /\ filing' = [filing EXCEPT !.phase = "written", !.path = n.path, !.locked = ~absorbs]
        /\ swallowed' = FALSE
        /\ UNCHANGED <<notePath, projectVars, command, commands, decided, erased, settled>>

\* written saves the job.  Links are absorbed before that, in a commit of their
\* own that leaves note_path alone.
SaveJob ==
    /\ filing.phase = "written"
    /\ notePath' = filing.path
    /\ settled' = filing.alone
    /\ filing' = NoFiling
    /\ UNCHANGED <<notes, projectVars, command, commands, decided, erased, swallowed>>

-----------------------------------------------------------------------------
(* The owner.                                                              *)

\* A step of a command.
Does(step, next) ==
    /\ command.step = step /\ command' = next
    /\ filing' = [filing EXCEPT !.alone = filing.phase = "none"]
    /\ UNCHANGED settled

Orders(next) == Does("none", next) /\ commands < MaxCommands /\ commands' = commands + 1

\* Mutant: a project that was merged into another may be named.
AnyProject(project) == TRUE

Nameable(project) == project \in Live

\* move for one request: only the pin.
PinRequest(r, project) ==
    /\ Orders(NoCommand)
    /\ r # 0 /\ Nameable(project)
    /\ pins' = [pins EXCEPT ![r] = project]
    /\ UNCHANGED <<notes, notePath, filedUnder, aliasOf, decided, erased, swallowed>>

\* unpin.
Unpin(r) ==
    /\ Orders(NoCommand)
    /\ pins[r] # NoProject /\ pins' = [pins EXCEPT ![r] = NoProject]
    /\ UNCHANGED <<notes, notePath, filedUnder, aliasOf, decided, erased, swallowed>>

\* move for a note: the pin of the whole session, then the file, then the row.
MoveNote(n, project) ==
    /\ Nameable(project)
    /\ pins' = [pins EXCEPT ![0] = project]
    /\ Orders(IF n.path[1] = project THEN NoCommand
              ELSE [NoCommand EXCEPT !.step = "relocate", !.to = project, !.old = n.path])
    /\ UNCHANGED <<notes, notePath, filedUnder, aliasOf, decided, erased, swallowed>>

\* relocate writes over whatever has the wanted name.
Relocate ==
    LET old    == command.old
        wanted == <<command.to, old[2]>>
        moving == {n \in notes : n.path = old}
    IN  /\ notes' = {n \in notes : n.path \notin {old} \cup (IF moving = {} THEN {} ELSE {wanted})}
                    \cup {[n EXCEPT !.path = wanted] : n \in moving}
        /\ swallowed' = (swallowed \/ (moving # {} /\ wanted \in Occupied))
        /\ Does("relocate", IF moving = {} THEN NoCommand
                            ELSE [command EXCEPT !.step = "relink", !.moved = {<<old, wanted>>}])
        /\ UNCHANGED <<notePath, projectVars, commands, decided, erased>>

\* Mutant: the job keeps the path that it names.
NotRenamed(path) == path

Renamed(path) == IF \E m \in command.moved : m[1] = path
                 THEN (CHOOSE m \in command.moved : m[1] = path)[2] ELSE path

\* The update of the job's row waits for its lock.
Relink ==
    /\ ~filing.locked
    /\ notePath' = Renamed(notePath)
    /\ Does("relink", NoCommand)
    /\ UNCHANGED <<notes, projectVars, commands, decided, erased, swallowed>>

\* merge: a name that stands for another project is that project, but when it
\* stands for the source it is the target itself: a merge back.
MergesInto(source, target) ==
    source \in Live /\ source # target /\ (target \in Live \/ aliasOf[target] = source)

\* _absorb: the files move to the target, each under its name or, when that
\* is taken, the next vacant one.
MergeProjects(source, target) ==
    LET leaving == {n \in notes : n.path[1] = source}
    IN  /\ MergesInto(source, target)
        /\ \E copy \in [leaving -> Copies] :
              LET new(n) == <<target, copy[n]>>
                  moved  == {<<n.path, new(n)>> : n \in leaving}
              IN  /\ \A n \in leaving : /\ new(n) \notin Occupied
                                        /\ <<target, n.path[2]>> \notin Occupied => copy[n] = n.path[2]
                  /\ \A m, n \in leaving : m # n => copy[m] # copy[n]
                  /\ notes' = (notes \ leaving) \cup {[n EXCEPT !.path = new(n)] : n \in leaving}
                  /\ Orders([NoCommand EXCEPT !.step = "clear", !.from = source, !.to = target, !.moved = moved])
        /\ UNCHANGED <<notePath, projectVars, decided, erased, swallowed>>

\* The source directory is removed with what was written there since.
ClearSource ==
    /\ notes' = {n \in notes : n.path[1] # command.from}
    /\ Does("clear", [command EXCEPT !.step = "redirect"])
    /\ UNCHANGED <<notePath, projectVars, commands, decided, erased, swallowed>>

\* redirect, carry and rename_project: the target is a project's name from now
\* on, the source and what stood for it stand for the target.  The aliases are
\* committed before the row's update waits for its lock: together here.
RedirectAliases ==
    LET from == command.from
        to   == command.to
    IN  /\ ~filing.locked
        /\ aliasOf' = [p \in Projects |-> IF p = to THEN NoProject
                                          ELSE IF p = from \/ aliasOf[p] = from THEN to ELSE aliasOf[p]]
        /\ pins' = [r \in DOMAIN pins |-> IF pins[r] = from THEN to ELSE pins[r]]
        /\ filedUnder' = IF filedUnder = from THEN to ELSE filedUnder
        /\ Does("redirect", [command EXCEPT !.step = "relink"])
        /\ UNCHANGED <<notes, notePath, commands, decided, erased, swallowed>>

\* Mutant: the claim stays with the worker.
ClaimKept == [filing EXCEPT !.alone = filing.phase = "none"]

ClaimBack == IF filing.phase = "claimed" THEN NoFiling ELSE [filing EXCEPT !.alone = filing.phase = "none"]

\* forget: the decision is committed with a claim taken back, unless a summary
\* is already being completed; then the files go.
Forget ==
    /\ notes # {} /\ ~filing.locked
    /\ command.step = "none" /\ commands < MaxCommands /\ commands' = commands + 1
    /\ command' = [NoCommand EXCEPT !.step = "erase"]
    /\ filing' = ClaimBack
    /\ decided' = TRUE /\ notePath' = NoPath
    /\ UNCHANGED <<notes, projectVars, erased, settled, swallowed>>

Erase ==
    /\ notes' = {} /\ erased' = TRUE
    /\ Does("erase", NoCommand)
    /\ UNCHANGED <<notePath, projectVars, commands, decided, swallowed>>

Allow ==
    /\ decided /\ decided' = FALSE /\ erased' = FALSE
    /\ Orders(NoCommand)
    /\ UNCHANGED <<notes, notePath, projectVars, swallowed>>

\* The process stops: neither a summary nor a command goes on.
Restart ==
    /\ ~AtRest
    /\ filing' = NoFiling /\ command' = NoCommand /\ settled' = FALSE
    /\ UNCHANGED <<notes, notePath, projectVars, commands, decided, erased, swallowed>>

FilingNext ==
    \/ Claim \/ Plan \/ SaveJob \/ \E absorbs \in BOOLEAN : WriteNotes(absorbs)
    \/ \E r \in DOMAIN pins : Unpin(r) \/ \E p \in Projects : PinRequest(r, p)
    \/ \E n \in notes, p \in Projects : MoveNote(n, p)
    \/ \E p, q \in Projects : MergeProjects(p, q)
    \/ Relocate \/ Relink \/ ClearSource \/ RedirectAliases \/ Forget \/ Erase \/ Allow \/ Restart

FilingSpec == FilingInit /\ [][FilingNext]_filingVars

-----------------------------------------------------------------------------
(* Properties.                                                             *)

\* Once a summary was completed with nothing in between, and until another is
\* disturbed, every request is in one note and one only, however the files
\* were left before and whatever is merged or moved after, except when a move
\* wrote over another note (complete_session, forget_others, vacant).
EachRequestOnce ==
    settled /\ AtRest /\ notes # {} /\ ~swallowed =>
        \A r \in Requests : Cardinality({n \in notes : r \in n.holds}) = 1

\* Then also the job names one of its notes (relink, forget_others), and
NamedNoteIsThere == settled /\ AtRest /\ ~decided => notePath \in Occupied \cup {NoPath}

\* no note is in a project that was merged into another (_absorb, redirect).
NotesInLiveProjects == settled /\ AtRest => \A n \in notes : n.path[1] \in Live

\* A forgotten session has no note, whatever was going on (forget).
ForgottenIsGone == erased => notes = {}

\* A summary completed with nothing in between obeys the pins (repinned).
PinsObeyed ==
    [][settled' /\ filing.phase = "written" /\ filing'.phase = "none" =>
          \A r \in Requests : PinsOn(r) # {} =>
              \E n \in notes : r \in n.holds /\ n.path[1] \in {Resolved(p) : p \in PinsOn(r)}]_filingVars

\* Together: where the owner and the summaries leave the notes of a session.
NotesInPlace ==
    /\ [](EachRequestOnce /\ NamedNoteIsThere /\ NotesInLiveProjects /\ ForgottenIsGone)
    /\ PinsObeyed
=============================================================================
