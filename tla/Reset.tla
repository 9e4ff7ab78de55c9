-------------------------------- MODULE Reset --------------------------------
(***************************************************************************)
(* kb reset (cli/reset.py): the jobs go first, then what was written from    *)
(* the transcripts, then projects kept inside others move to the top, and    *)
(* projects with nothing left go.  The command may be killed between any two *)
(* steps and is then run again.                                            *)
(***************************************************************************)
EXTENDS Integers, Sequences, FiniteSets, SequencesExt

CONSTANTS
    Shelves,        \* directories there are at first, as paths of project names
    Titles,         \* file names
    Memories,       \* the option of that name
    FirstFiles,     \* bound: the sets of places with a file at first
    MaxKills        \* bound: runs that are killed


VARIABLES
    held,           \* the files, each with what it says
    kinds,          \* the kinds of the rows in job
    step,           \* how far the run is
    nest,           \* nested directories it has still to move
    kills,
    first           \* the files there were at first

resetVars == <<held, kinds, step, nest, kills, first>>

\* A title is followed by what it was renamed with; archive is like memory.
Derived == {"log", "overview"}
Parts   == Derived \cup {"memory", "loose"}
Place   == [dir: Shelves, part: Parts, title: {<<t>> : t \in Titles}]

\* What paths and titles are made of.
Labels == Titles \cup UNION {Range(d) : d \in Shelves}

ASSUME ResetAssumption ==
    /\ Memories \in BOOLEAN /\ MaxKills \in Nat
    /\ \A d \in Shelves : d \in Seq(Labels) /\ d # <<>>
    /\ \A S \in FirstFiles : IsFiniteSet(S) /\ S \subseteq Place

ResetInit ==
    /\ \E S \in FirstFiles : held = {[at |-> p, what |-> p] : p \in S}
    /\ kinds = {"session", "memory_merge"} /\ step = "idle" /\ nest = {} /\ kills = 0 /\ first = held

Cleared == Derived \cup IF Memories THEN {"memory"} ELSE {}
Nested  == {h.at.dir : h \in {g \in held : Len(g.at.dir) > 1}}

-----------------------------------------------------------------------------
\* wipe
WipeJobs ==
    /\ step = "idle" /\ step' = "remove"
    /\ kinds' = IF Memories THEN {} ELSE kinds \cap {"memory_merge"}
    /\ UNCHANGED <<held, nest, kills, first>>

\* derived, its first loop.
RemoveOne ==
    /\ step = "remove"
    /\ \E h \in held : h.at.part \in Cleared /\ held' = held \ {h}
    /\ UNCHANGED <<kinds, step, nest, kills, first>>

\* nested, with the directories that lead to a nested one.
StartMoving ==
    /\ step = "remove" /\ \A h \in held : h.at.part \notin Cleared
    /\ step' = "move"
    /\ nest' = UNION {{SubSeq(d, 1, n) : n \in 2..Len(d)} : d \in Nested}
    /\ UNCHANGED <<held, kinds, kills, first>>

\* Mutant: directories are moved in any order.
AnyFirst(d) == TRUE

\* nested lists what is inside a directory before the directory.
InnerFirst(d) == \A e \in nest : e # d => ~IsPrefix(d, e)

Inside(d) == {h \in held : IsPrefix(d, h.at.dir)}
Filled(p)  == \E h \in held : h.at = p

\* Where a file of d goes: to the top, under a name that is not taken there.
Wanted(d, p) == [p EXCEPT !.dir = <<Last(d)>> \o SubSeq(p.dir, Len(d) + 1, Len(p.dir))]
Tagged(d, p, n) == [p EXCEPT !.title = @ \o [i \in 1..n |-> d[Len(d) - 1]]]

\* Mutant: the new name is not looked for.
VacantOnce(d, p) == IF Filled(p) THEN Tagged(d, p, 1) ELSE p

Vacant(d, p) == LET n == CHOOSE k \in 0..Cardinality(held) : /\ ~Filled(Tagged(d, p, k))
                                                             /\ \A j \in 0..(k - 1) : Filled(Tagged(d, p, j))
                IN Tagged(d, p, n)

\* merged_into, file by file; the emptied directory goes with the last.
MoveOneUp ==
    /\ step = "move"
    /\ \E d \in nest :
          /\ InnerFirst(d)
          /\ IF Inside(d) = {} THEN nest' = nest \ {d} /\ UNCHANGED held
             ELSE \E h \in Inside(d) :
                     LET to == Vacant(d, Wanted(d, h.at))
                     IN held' = {g \in held : g # h /\ g.at # to} \cup {[h EXCEPT !.at = to]} /\ UNCHANGED nest
    /\ UNCHANGED <<kinds, step, kills, first>>

\* The last loop, for projects without files.
FinishReset ==
    /\ step = "move" /\ nest = {}
    /\ step' = "done"
    /\ UNCHANGED <<held, kinds, nest, kills, first>>

KillReset ==
    /\ step \notin {"idle", "done"} /\ kills < MaxKills
    /\ step' = "idle" /\ nest' = {} /\ kills' = kills + 1
    /\ UNCHANGED <<held, kinds, first>>

ResetNext == WipeJobs \/ RemoveOne \/ StartMoving \/ MoveOneUp \/ FinishReset \/ KillReset

ResetSpec == ResetInit /\ [][ResetNext]_resetVars

-----------------------------------------------------------------------------
\* What no transcript can write again is never lost, under whatever name it ends
\* and wherever the run is killed (merged_into, derived).
MemoriesKept ==
    ~Memories => \A h \in first : h.at.part \notin Derived => \E g \in held : g.what = h.what

\* A run that ends leaves no derived file and no project inside another, also when
\* an earlier one was killed half way.
EndsFlat == step = "done" => \A h \in held : h.at.part \notin Cleared /\ Len(h.at.dir) = 1

\* A reset takes what can be made again and nothing else.
ResetIsSafe == MemoriesKept /\ EndsFlat
=============================================================================
