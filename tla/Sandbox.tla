------------------------------ MODULE Sandbox ------------------------------
(***************************************************************************)
(* The file runner (backend/sandbox.py, repositories/sandbox.py): a server  *)
(* on a socket that runs one shell command at a time for the api, each      *)
(* under time limits, and that clears what the command left before the      *)
(* next one may start.  A command may start processes that leave its        *)
(* process group.  The clearing does what it can: it goes once over the     *)
(* processes that there are, so one that is forked meanwhile may outlive it, *)
(* and it passes over what it cannot remove.  It runs as process 1 of its    *)
(* container.  Time goes in ticks, and no limit is passed by a tick.        *)
(***************************************************************************)
EXTENDS Integers, FiniteSets

CONSTANTS
    Scripts,        \* requests of the api, one call each
    Elsewhere,      \* those that write what no clearing removes: directories that rmtree must not enter, /dev/shm,
                    \* the directory of the socket
    MaxCalls,       \* bound: how often a request is made
    WaitTicks,      \* WAIT_SECONDS
    CommandTicks,   \* COMMAND_SECONDS
    ReapTicks,      \* REAP_SECONDS
    ClearTicks,     \* what rmtree and the sweep take when the disk is not slow
    SlowTicks,      \* bound: what they take when it is
    RequestTicks,   \* REQUEST_SECONDS, of the caller
    WatchTicks      \* WATCH_SECONDS

ASSUME SandboxAssumption ==
    /\ MaxCalls \in Nat /\ Elsewhere \subseteq Scripts
    /\ \A t \in {WaitTicks, CommandTicks, ReapTicks, ClearTicks, SlowTicks, RequestTicks, WatchTicks} : t \in Nat

VARIABLES
    script,         \* the requests
    processes,      \* the scripts of which a process may be left (that one ends by itself is left out)
    files,          \* the scripts of which files are left
    slipped,        \* a process outlived the last killing, so files may have stayed as well
    calls,
    socket,         \* 0, or for how long no caller has reached the server
    slow            \* history: a clearing took longer than ClearTicks

leftVars    == <<processes, files, slipped>>
sandboxVars == <<script, leftVars, calls, socket, slow>>

\* stage: none, waiting, running, reaping, clearing or sweeping; for: ticks in it, in
\* the last two together; age: ticks since the caller connected; caller: none, waiting or gave up.
NoScript == [stage |-> "none", for |-> 0, age |-> 0, caller |-> "none"]

HasLock == {s \in Scripts : script[s].stage \in {"running", "reaping", "clearing", "sweeping"}}
Locked  == HasLock # {}

SandboxInit ==
    /\ script = [s \in Scripts |-> NoScript]
    /\ processes = {} /\ files = {} /\ slipped = FALSE
    /\ calls  = 0
    /\ socket = 0
    /\ slow   = FALSE

Enters(s, stage) == script' = [script EXCEPT ![s] = [@ EXCEPT !.stage = stage, !.for = 0]]

\* The answer is written, whether or not the caller is still there.
Answers(s) == script' = [script EXCEPT ![s] = IF @.caller = "gave up" THEN [@ EXCEPT !.stage = "none", !.for = 0] ELSE NoScript]

-----------------------------------------------------------------------------
Connect(s) ==
    /\ script[s] = NoScript /\ calls < MaxCalls /\ socket = 0
    /\ script' = [script EXCEPT ![s] = [NoScript EXCEPT !.stage = "waiting", !.caller = "waiting"]]
    /\ calls'  = calls + 1
    /\ UNCHANGED <<leftVars, socket, slow>>

\* The lock is taken; the file may not be in storage any more.
StartCommand(s) ==
    /\ script[s].stage = "waiting" /\ ~Locked
    /\ Enters(s, "running")
    /\ processes' = processes \cup {s}
    /\ files'     = files \cup {s}
    /\ UNCHANGED <<slipped, calls, socket, slow>>

NoSuchFile(s) ==
    /\ script[s].stage = "waiting" /\ ~Locked
    /\ Answers(s)
    /\ UNCHANGED <<leftVars, calls, socket, slow>>

\* Mutant: the lock is waited for as long as a command may take.
WaitsForCommand(s) == script[s].for < CommandTicks

MayWait(s) == script[s].for < WaitTicks

StillRunning(s) ==
    /\ script[s].stage = "waiting" /\ Locked /\ ~MayWait(s)
    /\ Answers(s)
    /\ UNCHANGED <<leftVars, calls, socket, slow>>

\* A process writes, as long as nobody has killed it.
WriteFiles(s) ==
    /\ s \in processes
    /\ files' = files \cup {s}
    /\ UNCHANGED <<script, processes, slipped, calls, socket, slow>>

\* It ends, writes more than OUTPUT_BYTES or has had its time; its group is killed.
EndCommand(s) ==
    /\ script[s].stage = "running"
    /\ Enters(s, "reaping")
    /\ processes' \in {processes, processes \ {s}}
    /\ UNCHANGED <<files, slipped, calls, socket, slow>>

Reap(s) ==
    /\ script[s].stage = "reaping"
    /\ Enters(s, "clearing")
    /\ UNCHANGED <<leftVars, calls, socket, slow>>

\* Mutant: nothing is killed but the command's group.
KillNothing(s) ==
    /\ script[s].stage = "clearing"
    /\ script' = [script EXCEPT ![s].stage = "sweeping"]
    /\ UNCHANGED <<leftVars, calls, socket, slow>>

\* sweep: whatever /proc lists is killed; what is forked meanwhile may not be.
KillAll(s) ==
    /\ script[s].stage = "clearing"
    /\ script' = [script EXCEPT ![s].stage = "sweeping"]
    /\ \E forked \in SUBSET processes :
          /\ processes' = forked
          /\ slipped'   = (slipped \/ forked # {})
    /\ UNCHANGED <<files, calls, socket, slow>>

\* What may be left of the files where processes are alive or none is.
MayStay == IF processes = {} THEN files \cap Elsewhere ELSE files

\* rmtree and the rest of sweep take the working directory and everything else
\* there is to list in SCRATCH, and pass over what they fail at.
EmptyScratch(s) ==
    /\ script[s].stage = "sweeping"
    /\ files'   \in SUBSET MayStay
    /\ slipped' = (slipped /\ processes # {})
    /\ Answers(s)
    /\ UNCHANGED <<processes, calls, socket, slow>>

CallerGivesUp(s) ==
    /\ script[s].caller = "waiting" /\ script[s].age >= RequestTicks
    /\ script' = [script EXCEPT ![s].caller = "gave up"]
    /\ UNCHANGED <<leftVars, calls, socket, slow>>

CallerLearns(s) ==
    /\ script[s].stage = "none" /\ script[s].caller = "gave up"
    /\ script' = [script EXCEPT ![s] = NoScript]
    /\ UNCHANGED <<leftVars, calls, socket, slow>>

LoseSocket ==
    /\ socket = 0
    /\ socket' = 1
    /\ UNCHANGED <<script, leftVars, calls, slow>>

\* The process exits and with it the container, which starts again.
Exit ==
    /\ socket > 0
    /\ script' = [s \in Scripts |-> NoScript]
    /\ processes' = {} /\ slipped' = FALSE
    /\ files'  \in SUBSET (files \cap Elsewhere)
    /\ socket' = 0
    /\ UNCHANGED <<calls, slow>>

\* A tick passes no limit: collect, reap, the sweep, the lock, the caller, the watch.
MayLast(s) ==
    /\ script[s].stage = "waiting"  => MayWait(s) /\ Locked
    /\ script[s].stage = "running"  => script[s].for < CommandTicks
    /\ script[s].stage = "reaping"  => script[s].for < ReapTicks
    /\ script[s].stage \in {"clearing", "sweeping"} => script[s].for < SlowTicks
    /\ script[s].caller = "waiting" => script[s].age < RequestTicks

SandboxTick ==
    /\ \E s \in Scripts : script[s].stage # "none"
    /\ \A s \in Scripts : MayLast(s)
    /\ socket <= WatchTicks
    /\ script' = [s \in Scripts |-> IF script[s].stage = "none" THEN script[s]
                                    ELSE [script[s] EXCEPT !.for = @ + 1, !.age = @ + 1]]
    /\ socket' = IF socket = 0 THEN 0 ELSE socket + 1
    /\ slow'   = (slow \/ \E s \in Scripts : script[s].stage \in {"clearing", "sweeping"} /\ script[s].for >= ClearTicks)
    /\ UNCHANGED <<leftVars, calls>>

SandboxNext ==
    \/ \E s \in Scripts :
          \/ Connect(s) \/ StartCommand(s) \/ NoSuchFile(s) \/ StillRunning(s)
          \/ WriteFiles(s) \/ EndCommand(s) \/ Reap(s) \/ KillAll(s)
          \/ EmptyScratch(s) \/ CallerGivesUp(s) \/ CallerLearns(s)
    \/ LoseSocket \/ Exit \/ SandboxTick

SandboxSpec == SandboxInit /\ [][SandboxNext]_sandboxVars

-----------------------------------------------------------------------------
\* Unless a process was forked past the killing before it, a command meets no
\* process of another one, not even of one that left its process group or ran out
\* of time, and no file but such as no clearing removes: what else there is, is of
\* the command that has the lock.  A clearing that no process outlives makes up
\* for those before it (run, sweep).
StartsClean == slipped \/ \A s \in processes \cup (files \ Elsewhere) : HasLock = {s}

\* The limits add up: unless the disk is slow a caller that reached the runner
\* never gives up before the answer, so no command runs on for nobody
\* (WAIT_SECONDS, COMMAND_SECONDS and REAP_SECONDS against REQUEST_SECONDS).
AnsweredInTime == ~slow => \A s \in Scripts : script[s].caller # "gave up"

\* Commands neither meet each other nor outlive the interest in them.
CommandsApart == StartsClean /\ AnsweredInTime
=============================================================================
