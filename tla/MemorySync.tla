----------------------------- MODULE MemorySync -----------------------------
(***************************************************************************)
(* The memory files of one project on several devices                      *)
(* (hooks/kbstore_hook.py).  A session that starts pulls what the server   *)
(* has; a session that stops pushes what changed here.  Each device        *)
(* remembers the contents at its last exchange (synced), and takes a file  *)
(* that differs from them for edited here.  Several sessions of a device   *)
(* run their hooks at once.                                                *)
(*                                                                         *)
(* A digest is written as the content it is the digest of.                 *)
(***************************************************************************)
EXTENDS Integers, FiniteSets

CONSTANTS
    Machines,
    Hooks,          \* a session's hook runs one pull or push at a time
    Home,           \* Home[h]: the device that hook h runs on
    Names,          \* numbered in the order of their names
    Bodies,
    Restored,       \* what comes back of a content: restore_memory after render_memory
    Absent,         \* in place of a content: there is no such file
    Starts,         \* bound: what all devices and the server may hold at first
    MaxEdits,       \* bound: edits and deletions of each file, on all devices
    MaxBusy         \* bound: hooks that run at once

ASSUME HomeAssumption     == Home \in [Hooks -> Machines]
ASSUME NamesAssumption    == Names \subseteq Nat
ASSUME ContentsAssumption == Absent \notin Bodies
ASSUME RestoredAssumption == Restored \in [Bodies -> Bodies]
ASSUME SyncBounds         == /\ Starts \subseteq [Names -> Bodies \cup {Absent}]
                             /\ MaxEdits \in [Names -> Nat] /\ MaxBusy \in Nat

VARIABLES
    disk,       \* the memory directory of each device
    synced,     \* the state file of each device
    kept,       \* the server's files
    syncing,    \* what each hook is doing
    edits,
    held        \* history: every content the server had or gave back, by name

syncVars == <<disk, synced, kept, syncing, edits, held>>

Content == Bodies \cup {Absent}
Files   == [Names -> Content]
Nothing == [n \in Names |-> Absent]

\* remote: the answer to the GET; known, seen: the state file and the
\* directory as read (saving: what the state file will say); meddled:
\* history, the names edited here since.
SyncHook == [phase: {"idle", "asked", "pulling", "putting", "saving"},
             remote: Files, known: Files, seen: Files, meddled: SUBSET Names]

Idle == [phase |-> "idle", remote |-> Nothing, known |-> Nothing, seen |-> Nothing, meddled |-> {}]

Busy == {h \in Hooks : syncing[h].phase # "idle"}

Begins(h) == syncing[h].phase = "idle" /\ Cardinality(Busy) < MaxBusy

Given(files) == [n \in Names |-> IF files[n] = Absent THEN Absent ELSE Restored[files[n]]]

Pairs(files) == {<<n, files[n]>> : n \in {m \in Names : files[m] # Absent}}

SyncInit ==
    /\ kept    \in Starts
    /\ disk    = [d \in Machines |-> kept]
    /\ synced  = [d \in Machines |-> kept]
    /\ syncing = [h \in Hooks |-> Idle]
    /\ edits   = [n \in Names |-> 0]
    /\ held    = Pairs(kept)

-----------------------------------------------------------------------------
(* The agent.                                                              *)

\* A memory file is written, or deleted.
EditMemory(d, n, c) ==
    /\ edits[n] < MaxEdits[n] /\ disk[d][n] # c
    /\ edits' = [edits EXCEPT ![n] = @ + 1]
    /\ disk' = [disk EXCEPT ![d][n] = c]
    /\ syncing' = [h \in Hooks |-> IF Home[h] = d /\ syncing[h].phase = "pulling"
                                   THEN [syncing[h] EXCEPT !.meddled = @ \cup {n}] ELSE syncing[h]]
    /\ UNCHANGED <<synced, kept, held>>

-----------------------------------------------------------------------------
(* pull_memories, on SessionStart.                                         *)

\* An empty answer, as none at all, ends the pull.
AskMemories(h) ==
    /\ Begins(h) /\ kept # Nothing
    /\ syncing' = [syncing EXCEPT ![h].phase = "asked", ![h].remote = Given(kept)]
    /\ held' = held \cup Pairs(Given(kept))
    /\ UNCHANGED <<disk, synced, kept, edits>>

ReadDirectory(h) ==
    /\ syncing[h].phase = "asked"
    /\ syncing' = [syncing EXCEPT ![h].phase = "pulling", ![h].known = synced[Home[h]], ![h].seen = disk[Home[h]]]
    /\ UNCHANGED <<disk, synced, kept, edits, held>>

\* Mutant: a file that the state file does not name is not an edit.
EditedIfKnown(t, n) == t.seen[n] # Absent /\ t.known[n] # Absent /\ t.seen[n] \notin {t.known[n], t.remote[n]}

EditedHere(t, n)  == t.seen[n] # Absent /\ t.seen[n] \notin {t.known[n], t.remote[n]}
DeletedHere(t, n) == t.seen[n] = Absent /\ t.known[n] # Absent

Taken(t)  == {n \in Names : t.remote[n] # Absent /\ ~EditedHere(t, n) /\ ~DeletedHere(t, n)}
\* Deleted elsewhere: the server no longer has what was exchanged.
Doomed(t) == {n \in Names : t.remote[n] = Absent /\ t.seen[n] # Absent /\ t.known[n] = t.seen[n]}

\* A file that went away since makes unlink raise: the pull ends there, with
\* the state file as it was.
WriteFiles(h) ==
    LET t        == syncing[h]
        d        == Home[h]
        missing  == {n \in Doomed(t) : disk[d][n] = Absent}
        unlinked == {n \in Doomed(t) : \A m \in missing : n < m}
        written  == {n \in Taken(t) : t.seen[n] # t.remote[n]}
        exchange == [n \in Names |-> IF n \in Taken(t) THEN t.remote[n]
                                     ELSE IF n \in Doomed(t) THEN Absent ELSE t.known[n]]
    IN  /\ t.phase = "pulling"
        /\ disk' = [disk EXCEPT ![d] = [n \in Names |-> IF n \in written THEN t.remote[n]
                                                          ELSE IF n \in unlinked THEN Absent ELSE @[n]]]
        /\ syncing' = [syncing EXCEPT ![h] = IF missing # {} THEN Idle
                                       ELSE [Idle EXCEPT !.phase = "saving", !.seen = exchange]]
        /\ UNCHANGED <<synced, kept, edits, held>>

-----------------------------------------------------------------------------
(* push_memories, on Stop.                                                 *)

Changed(t)   == {n \in Names : t.seen[n] # Absent /\ t.known[n] # t.seen[n]}

\* Mutant: the state file is saved before the request is sent.
CollectSavingFirst(h) ==
    LET t == [Idle EXCEPT !.phase = "putting", !.known = synced[Home[h]], !.seen = disk[Home[h]]]
    IN  /\ Begins(h)
        /\ Changed(t) # {} \/ \E n \in Names : DeletedHere(t, n)
        /\ syncing' = [syncing EXCEPT ![h] = t]
        /\ synced' = [synced EXCEPT ![Home[h]] = disk[Home[h]]]
        /\ UNCHANGED <<disk, kept, edits, held>>

Collect(h) ==
    LET t == [Idle EXCEPT !.phase = "putting", !.known = synced[Home[h]], !.seen = disk[Home[h]]]
    IN  /\ Begins(h)
        /\ Changed(t) # {} \/ \E n \in Names : DeletedHere(t, n)
        /\ syncing' = [syncing EXCEPT ![h] = t]
        /\ UNCHANGED <<disk, synced, kept, edits, held>>

\* sync_memories: writes and deletes without looking at what was there.
SyncMemories(h) ==
    LET t == syncing[h]
    IN  /\ t.phase = "putting"
        /\ kept' = [n \in Names |-> IF n \in Changed(t) THEN t.seen[n]
                                    ELSE IF DeletedHere(t, n) THEN Absent ELSE kept[n]]
        /\ held' = held \cup Pairs(kept')
        /\ syncing' = [syncing EXCEPT ![h] = [Idle EXCEPT !.phase = "saving", !.seen = t.seen]]
        /\ UNCHANGED <<disk, synced, edits>>

\* save_synced, of a push and of a pull: what another hook saved since is lost.
SaveSynced(h) ==
    /\ syncing[h].phase = "saving"
    /\ synced' = [synced EXCEPT ![Home[h]] = syncing[h].seen]
    /\ syncing' = [syncing EXCEPT ![h] = Idle]
    /\ UNCHANGED <<disk, kept, edits, held>>

-----------------------------------------------------------------------------
(* Failures.                                                               *)

\* No answer, or the hook is killed at its time limit.
GiveUpSync(h) ==
    /\ syncing[h].phase # "idle"
    /\ syncing' = [syncing EXCEPT ![h] = Idle]
    /\ UNCHANGED <<disk, synced, kept, edits, held>>

\* Mutant: a state file that cannot be read is no dictionary.
LoseStateToNone(h) ==
    /\ syncing[h].phase = "saving"
    /\ synced' = [synced EXCEPT ![Home[h]] = Absent]
    /\ syncing' = [syncing EXCEPT ![h] = Idle]
    /\ UNCHANGED <<disk, kept, edits, held>>

\* Killed while it rewrites the state file: what is left cannot be read, and
\* load_synced takes it for an empty one.
LoseState(h) ==
    /\ syncing[h].phase = "saving"
    /\ synced' = [synced EXCEPT ![Home[h]] = Nothing]
    /\ syncing' = [syncing EXCEPT ![h] = Idle]
    /\ UNCHANGED <<disk, kept, edits, held>>

SyncNext ==
    \/ \E d \in Machines, n \in Names, c \in Content : EditMemory(d, n, c)
    \/ \E h \in Hooks : \/ AskMemories(h) \/ ReadDirectory(h) \/ WriteFiles(h)
                        \/ Collect(h) \/ SyncMemories(h) \/ SaveSynced(h)
                        \/ GiveUpSync(h) \/ LoseState(h)

SyncSpec == SyncInit /\ [][SyncNext]_syncVars

-----------------------------------------------------------------------------
(* Properties.                                                             *)

\* Every variable keeps its type.
SyncTypeOK ==
    /\ disk \in [Machines -> Files] /\ synced \in [Machines -> Files] /\ kept \in Files
    /\ syncing \in [Hooks -> SyncHook]
    /\ edits \in [Names -> Nat] /\ held \subseteq Names \X Bodies

\* What a device takes for already exchanged has been on the server: neither
\* a lost answer, nor a lost state file, nor two hooks that save over each
\* other make a device forget to push an edit (push_memories, pull_memories).
SyncedWasHeld == \A d \in Machines : Pairs(synced[d]) \subseteq held

\* A content that a pull overwrites or deletes has been on the server, unless
\* it was written after that pull had read the directory (pull_memories).
PullKeepsEdits ==
    [][\A h \in Hooks, n \in Names :
           LET was == disk[Home[h]][n]
           IN  /\ syncing[h].phase = "pulling" /\ syncing'[h].phase # "pulling"
               /\ disk'[Home[h]][n] # was /\ was # Absent
               => <<n, was>> \in held \/ n \in syncing[h].meddled]_syncVars

\* A device takes no edit for sent that the server never had, and a pull
\* overwrites none that the server never had.  No more is promised: a push writes
\* over what is on the server (SyncMemories), and what it replaced there may
\* then be replaced by pulls on every device.
EditsReachServer == [](SyncTypeOK /\ SyncedWasHeld) /\ PullKeepsEdits
=============================================================================
