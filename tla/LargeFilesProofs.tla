-------------------------- MODULE LargeFilesProofs --------------------------
(***************************************************************************)
(* Theorems about what a device and the server hold of its files.  About   *)
(* LargeFiles, for any devices, contents, ways to cut them and bounds; and *)
(* about MemorySync, for any machines, hooks, files and bodies.            *)
(***************************************************************************)
EXTENDS LargeFiles, MemorySync, TLAPS

\* What settle knows about the entry and the file it works on.  An entry that
\* still bears the time settle read has not been touched by a Stop since, so
\* what that Stop saw is what was printed, or older.
Rounds ==
    \A d \in Devices :
        /\ told[d] <= content[d]
        /\ pending[d] \in {0, stops[d]}
        /\ task[d].phase # "rest" => /\ task[d].printed \in Contents
                                     /\ task[d].printed <= content[d]
                                     /\ task[d].touched \in 1..stops[d]
                                     /\ pending[d] # 0
                                     /\ pending[d] = task[d].touched => told[d] <= task[d].printed
        /\ task[d].phase \in {"closing", "leaving"} => reported[d] = task[d].printed
        /\ task[d].phase = "leaving" => slipped[d] \/ pending[d] = task[d].touched

\* The list that a complete request checked makes up the file.
Checked == \A d \in Devices : checking[d].digest \in Contents => Makes(checking[d].list, checking[d].digest)

\* Nothing is damaged as long as the disk damages nothing, and every chunk a
\* complete blob, or one about to become complete, is made of stays stored.
Undamaged ==
    rots = 0 =>
        /\ damaged = {} /\ doubted = {}
        /\ \A c \in Contents : blob[c].done => ToSet(blob[c].list) \subseteq stored
        /\ \A d \in Devices : checking[d].digest \in Contents => ToSet(checking[d].list) \subseteq stored
        /\ \A d \in Devices : reported[d] # None => blob[reported[d]].done

LargeInv == LargeTypeOK /\ Rounds /\ CompletedIsWhole /\ Checked /\ Undamaged /\ NothingForgotten

-----------------------------------------------------------------------------
LEMMA Records == AtRest \in Task /\ NoBlob \in Blob /\ NoCheck \in Check
  BY DEF AtRest, NoBlob, NoCheck, Task, Blob, Check, Phases, None

LEMMA TaskFields ==
  ASSUME NEW t \in Task
  PROVE  /\ t.phase \in Phases /\ t.touched \in Nat /\ t.printed \in Contents \cup {None}
         /\ t.missing \subseteq Digests /\ t.offset \in Nat
  BY DEF Task

LEMMA TaskChanges ==
  ASSUME NEW t \in Task
  PROVE  /\ \A phase \in Phases : [t EXCEPT !.phase = phase] \in Task
         /\ \A missing \in SUBSET Digests : [t EXCEPT !.missing = missing] \in Task
         /\ \A offset \in Nat : [t EXCEPT !.offset = offset] \in Task
         /\ \A phase \in Phases, missing \in SUBSET Digests :
               [t EXCEPT !.phase = phase, !.missing = missing] \in Task
  BY DEF Task

LEMMA Numbers == ASSUME NEW c \in Contents PROVE c \in Nat \ {0} /\ c # None
  BY ContentAssumption DEF Contents, None

LEMMA PartsType ==
  ASSUME NEW d \in Devices, NEW c \in Contents
  PROVE  Cut[d][c] \in Seq(Digests) /\ ToSet(Cut[d][c]) \subseteq Digests
  <1>1. Cut[d][c] \in Seq(Digests)
    BY CutAssumption
  <1>2. ASSUME NEW s \in Seq(Digests) PROVE ToSet(s) \subseteq Digests
    BY DEF ToSet
  <1> QED BY <1>1, <1>2

LEMMA StaysOpen ==
  ASSUME NEW b \in Blob, NEW n, NEW k
  PROVE  Extended(b, n, k).done = b.done
  BY DEF Extended, Blob

LEMMA GoesOn ==
  ASSUME task \in [Devices -> Task], NEW d \in Devices, NEW phase \in Phases, Goto(d, phase)
  PROVE  task' \in [Devices -> Task]
  BY TaskChanges DEF Goto

LEMMA Waits ==
  ASSUME task \in [Devices -> Task], NEW d \in Devices, TryLater(d)
  PROVE  task' \in [Devices -> Task]
  BY Records DEF TryLater

LEMMA LargeInitially == LargeInit => LargeInv
  <1> SUFFICES ASSUME LargeInit PROVE LargeInv
    OBVIOUS
  <1>1. LargeTypeOK
    <2>1. 0 \in 0..MaxRots
      BY BoundAssumption
    <2>2. \A c \in Contents : blob[c].list = <<>>
      BY DEF LargeInit, NoBlob
    <2> QED BY <2>1, <2>2, Records, ContentAssumption DEF LargeInit, LargeTypeOK, Contents
  <1>2. Rounds
    BY ContentAssumption DEF LargeInit, Rounds, AtRest, None, Contents
  <1>3. CompletedIsWhole
    BY DEF LargeInit, CompletedIsWhole, NoBlob
  <1>4. Checked
    BY Numbers DEF LargeInit, Checked, NoCheck
  <1>5. Undamaged
    BY Numbers DEF LargeInit, Undamaged, NoBlob, NoCheck
  <1>6. NothingForgotten
    BY DEF LargeInit, NothingForgotten, None
  <1> QED BY <1>1, <1>2, <1>3, <1>4, <1>5, <1>6 DEF LargeInv

\* Only settle's own steps and a restart of the server change a task.
LEMMA TasksKept == ASSUME LargeInv, [LargeNext]_largeVars PROVE task' \in [Devices -> Task]
  <1>0. LargeTypeOK /\ Rounds /\ task \in [Devices -> Task]
    BY DEF LargeInv, LargeTypeOK
  <1> USE <1>0
  <1>1. ASSUME NEW d \in Devices, Edit(d) \/ QueueLargeFiles(d) PROVE task' \in [Devices -> Task]
    BY <1>1 DEF Edit, QueueLargeFiles
  <1>2. ASSUME NEW d \in Devices, Settle(d) PROVE task' \in [Devices -> Task]
    <2>1. [AtRest EXCEPT !.phase = "hashing", !.touched = pending[d], !.printed = content[d]] \in Task
      BY Records DEF LargeTypeOK, Task, Phases
    <2> QED BY <1>2, <2>1 DEF Settle
  <1>3. ASSUME NEW d \in Devices, Fingerprint(d) \/ AskBlob(d) \/ EndOfParts(d) \/ EndOfManifest(d)
                                  \/ GiveUp(d) \/ Close(d) \/ Unlink(d) \/ Report(d)
        PROVE  task' \in [Devices -> Task]
    <2>1. \/ TryLater(d)
          \/ \E phase \in Phases : Goto(d, phase)
      BY <1>3 DEF Phases, Fingerprint, AskBlob, EndOfParts, EndOfManifest, GiveUp, Close, Unlink, Report
    <2> QED BY <2>1, GoesOn, Waits
  <1>4. ASSUME NEW d \in Devices, AskMissing(d) PROVE task' \in [Devices -> Task]
    <2>1. task[d].printed \in Contents
      BY <1>4 DEF Rounds, AskMissing
    <2>2. ToSet(Parts(d)) \ stored \in SUBSET Digests
      BY <2>1, PartsType DEF Parts
    <2>3. [task[d] EXCEPT !.phase = "sending", !.missing = ToSet(Parts(d)) \ stored] \in Task
      BY <2>2, TaskChanges DEF Phases
    <2> QED BY <1>4, <2>3 DEF AskMissing
  <1>5. ASSUME NEW d \in Devices, SendPart(d) PROVE task' \in [Devices -> Task]
    <2>1. \/ TryLater(d)
          \/ \E m \in SUBSET Digests : task' = [task EXCEPT ![d] = [task[d] EXCEPT !.missing = m]]
      <3>1. ASSUME NEW k PROVE task[d].missing \ {k} \in SUBSET Digests
        BY TaskFields
      <3> QED BY <1>5, <3>1 DEF SendPart
    <2>2. ASSUME NEW m \in SUBSET Digests PROVE [task[d] EXCEPT !.missing = m] \in Task
      BY TaskChanges
    <2> QED BY <2>1, <2>2, Waits
  <1>6. ASSUME NEW d \in Devices, AddManifest(d) PROVE task' \in [Devices -> Task]
    <2>1. \/ TryLater(d)
          \/ task' = [task EXCEPT ![d].offset = task[d].offset + 1]
      BY <1>6 DEF AddManifest
    <2>2. task[d].offset + 1 \in Nat
      BY TaskFields
    <2>3. [task[d] EXCEPT !.offset = task[d].offset + 1] \in Task
      BY <2>2, TaskChanges
    <2> QED BY <2>1, <2>3, Waits
  <1>7. ASSUME NEW d \in Devices, Complete(d) \/ Lock(d) PROVE task' \in [Devices -> Task]
    <2>1. \/ TryLater(d) \/ UNCHANGED task
          \/ \E phase \in Phases : Goto(d, phase)
      BY <1>7 DEF Phases, Complete, Lock
    <2> QED BY <2>1, GoesOn, Waits
  <1>8. ASSUME (\E k \in Digests : Rot(k)) \/ (\E c \in Contents : Inspect(c) \/ Reopen(c)) \/ UNCHANGED largeVars
        PROVE  task' \in [Devices -> Task]
    BY <1>8 DEF Rot, Inspect, Reopen, largeVars
  <1>9. CASE RestartServer
    BY <1>9, Records DEF RestartServer
  <1> QED BY <1>1, <1>2, <1>3, <1>4, <1>5, <1>6, <1>7, <1>8, <1>9 DEF LargeNext

\* What the device's own steps leave alone, and the few that change it.
LEMMA TypesKept == ASSUME LargeInv, [LargeNext]_largeVars PROVE LargeTypeOK'
  <1>1. LargeTypeOK /\ Rounds
    BY DEF LargeInv
  <1>2. task' \in [Devices -> Task]
    BY TasksKept
  <1> USE <1>1, <1>2
  <1>3. ASSUME UNCHANGED <<deviceVars, chunkVars, serverVars>> PROVE LargeTypeOK'
    BY <1>3 DEF LargeTypeOK, deviceVars, chunkVars, serverVars
  <1>4. ASSUME NEW d \in Devices, Settle(d) \/ Fingerprint(d) \/ AskBlob(d) \/ AskMissing(d) \/ EndOfParts(d)
                                  \/ EndOfManifest(d) \/ GiveUp(d) \/ Close(d)
        PROVE  LargeTypeOK'
    BY <1>3, <1>4 DEF Settle, Fingerprint, AskBlob, AskMissing, EndOfParts, EndOfManifest, GiveUp, Close
  <1>5. ASSUME NEW d \in Devices, Edit(d) PROVE LargeTypeOK'
    <2>1. content[d] \in 1..MaxContent /\ LastContent[d] \in 1..MaxContent
      BY BoundAssumption DEF LargeTypeOK, Contents
    <2>2. content[d] + 1 \in Contents
      BY <1>5, <2>1, ContentAssumption DEF Edit, Contents
    <2> QED BY <1>5, <2>2 DEF LargeTypeOK, Edit, chunkVars, serverVars
  <1>6. ASSUME NEW d \in Devices, QueueLargeFiles(d) PROVE LargeTypeOK'
    BY <1>6 DEF LargeTypeOK, QueueLargeFiles, chunkVars, serverVars
  <1>7. ASSUME NEW d \in Devices, Unlink(d) PROVE LargeTypeOK'
    BY <1>7 DEF LargeTypeOK, Unlink, chunkVars, serverVars
  <1>8. ASSUME NEW d \in Devices, SendPart(d) PROVE LargeTypeOK'
    <2>1. task[d].printed \in Contents
      BY <1>8 DEF Rounds, SendPart
    <2>2. \A n \in DOMAIN Parts(d) : Parts(d)[n] \in Digests
      BY <2>1, PartsType DEF Parts
    <2> QED BY <1>8, <2>2 DEF LargeTypeOK, SendPart, deviceVars, serverVars
  <1>9. ASSUME NEW d \in Devices, AddManifest(d) PROVE LargeTypeOK'
    <2> DEFINE c == task[d].printed
               n == task[d].offset
    <2>1. c \in Contents /\ n \in Nat /\ n < Len(Cut[d][c]) /\ Cut[d][c][n + 1] \in Digests
      <3>1. c \in Contents /\ n < Len(Cut[d][c])
        BY <1>9 DEF Rounds, AddManifest, Parts
      <3>2. Cut[d][c] \in Seq(Digests)
        BY <3>1, PartsType
      <3>3. n \in Nat
        BY TaskFields DEF LargeTypeOK
      <3> QED BY <3>1, <3>2, <3>3
    <2>2. CASE UNCHANGED blob
      BY <1>9, <2>2 DEF LargeTypeOK, AddManifest, deviceVars, chunkVars
    <2>3. CASE Fits(blob[c], n) /\ blob' = [blob EXCEPT ![c] = Extended(blob[c], n, Cut[d][c][n + 1])]
      <3> DEFINE b == Extended(blob[c], n, Cut[d][c][n + 1])
      <3>1. blob[c].list \in Seq(Digests) /\ blob[c] \in Blob
        BY <2>1 DEF LargeTypeOK, Blob
      <3>2. b \in Blob /\ Len(b.list) = n + 1
        <4> DEFINE before == IF n = 0 THEN <<>> ELSE blob[c].list
        <4>1. before \in Seq(Digests) /\ Len(before) = n
          BY <2>1, <2>3, <3>1 DEF Fits
        <4>2. Append(before, Cut[d][c][n + 1]) \in Seq(Digests) /\ Len(Append(before, Cut[d][c][n + 1])) = n + 1
          BY <2>1, <4>1
        <4>3. b = [blob[c] EXCEPT !.list = Append(before, Cut[d][c][n + 1])]
          BY DEF Extended
        <4> QED BY <3>1, <4>2, <4>3 DEF Blob
      <3>3. blob' \in [Contents -> Blob]
        BY <2>3, <3>2 DEF LargeTypeOK
      <3>4. blob'[c] = b /\ \A x \in Contents \ {c} : blob'[x] = blob[x]
        BY <2>1, <2>3 DEF LargeTypeOK
      <3>5. Len(blob'[c].list) <= Len(Cut[d][c])
        BY <2>1, <3>2, <3>4, PartsType
      <3>6. \A x \in Contents : blob'[x].list = <<>> \/ \E e \in Devices : Len(blob'[x].list) <= Len(Cut[e][x])
        BY <3>4, <3>5 DEF LargeTypeOK
      <3> QED BY <1>9, <3>3, <3>6 DEF LargeTypeOK, AddManifest, deviceVars, chunkVars
    <2> QED BY <1>9, <2>2, <2>3 DEF AddManifest, Parts
  <1>10. ASSUME NEW d \in Devices, Complete(d) PROVE LargeTypeOK'
    <2>1. task[d].printed \in Contents
      BY <1>10 DEF Rounds, Complete
    <2>2. blob[task[d].printed].list \in Seq(Digests)
      BY <2>1 DEF LargeTypeOK, Blob
    <2>3. checking' \in [Devices -> Check]
      <3>1. [digest |-> task[d].printed, list |-> blob[task[d].printed].list] \in Check
        BY <2>1, <2>2 DEF Check
      <3> QED BY <1>10, <3>1 DEF LargeTypeOK, Complete
    <2>4. stored' \subseteq Digests /\ damaged' \subseteq stored'
      BY <1>10 DEF LargeTypeOK, Complete, DropDamaged
    <2> QED BY <1>10, <2>3, <2>4 DEF LargeTypeOK, Complete, deviceVars
  <1>11. ASSUME NEW d \in Devices, Lock(d) PROVE LargeTypeOK'
    <2>1. checking' \in [Devices -> Check]
      BY <1>11, Records DEF LargeTypeOK, Lock
    <2>2. blob' \in [Contents -> Blob] /\ \A c \in Contents : blob'[c].list = blob[c].list
      BY <1>11 DEF LargeTypeOK, Lock, Blob, SameList
    <2> QED BY <1>11, <2>1, <2>2 DEF LargeTypeOK, Lock, deviceVars, chunkVars
  <1>12. ASSUME NEW d \in Devices, Report(d) PROVE LargeTypeOK'
    BY <1>12, TaskFields DEF LargeTypeOK, Report, deviceVars, chunkVars
  <1>13. ASSUME NEW k \in Digests, Rot(k) PROVE LargeTypeOK'
    BY <1>13, BoundAssumption DEF LargeTypeOK, Rot, deviceVars, serverVars
  <1>14. ASSUME NEW c \in Contents, Inspect(c) PROVE LargeTypeOK'
    BY <1>14 DEF LargeTypeOK, Inspect, DropDamaged, deviceVars
  <1>15. ASSUME NEW c \in Contents, Reopen(c) PROVE LargeTypeOK'
    <2>1. blob' \in [Contents -> Blob] /\ \A x \in Contents : blob'[x].list = blob[x].list
      BY <1>15 DEF LargeTypeOK, Reopen, Blob
    <2> QED BY <1>15, <2>1 DEF LargeTypeOK, Reopen, deviceVars, chunkVars
  <1>16. CASE RestartServer
    BY <1>16, Records DEF LargeTypeOK, RestartServer, deviceVars, chunkVars
  <1>17. CASE UNCHANGED largeVars
    BY <1>3, <1>17 DEF largeVars
  <1> QED
    BY <1>4, <1>5, <1>6, <1>7, <1>8, <1>9, <1>10, <1>11, <1>12, <1>13, <1>14, <1>15, <1>16, <1>17 DEF LargeNext

\* A round of settle and the Stops around it.
LEMMA RoundsKept == ASSUME LargeInv, [LargeNext]_largeVars PROVE Rounds' /\ NothingForgotten'
  <1>1. LargeTypeOK /\ Rounds /\ NothingForgotten /\ LargeTypeOK'
    BY TypesKept DEF LargeInv
  <1>2. ASSUME NEW e \in Devices
        PROVE  /\ stops[e] \in Nat /\ content[e] \in Nat \ {0} /\ told[e] \in Nat /\ pending[e] \in Nat
               /\ task[e].touched \in Nat /\ task[e].printed \in Nat /\ reported[e] \in Nat
               /\ task[e].phase \in Phases
    BY <1>1, TaskFields, Numbers DEF LargeTypeOK, None
  <1> USE <1>1, <1>2
  <1>3. ASSUME NEW d \in Devices, Edit(d) PROVE Rounds' /\ NothingForgotten'
    <2>1. \A e \in Devices : content[e] <= content'[e]
      BY <1>3 DEF Edit, LargeTypeOK
    <2> QED BY <1>3, <2>1 DEF Rounds, NothingForgotten, Edit, serverVars, LargeTypeOK
  <1>4. ASSUME NEW d \in Devices, QueueLargeFiles(d) PROVE Rounds' /\ NothingForgotten'
    <2>1. /\ stops'[d] = stops[d] + 1 /\ told'[d] = content[d] /\ pending'[d] = stops[d] + 1
          /\ task[d].phase = "leaving" => slipped'[d]
          /\ \A e \in Devices \ {d} : /\ stops'[e] = stops[e] /\ told'[e] = told[e]
                                       /\ pending'[e] = pending[e] /\ slipped'[e] = slipped[e]
          /\ UNCHANGED <<content, task, reported>>
      BY <1>4 DEF QueueLargeFiles, serverVars, LargeTypeOK
    <2>2. NothingForgotten'
      BY <2>1 DEF NothingForgotten
    <2>3. task[d].phase # "rest" => /\ task[d].printed \in Contents /\ task[d].printed <= content[d]
                                    /\ task[d].touched \in 1..stops[d]
      BY DEF Rounds
    <2>4. ASSUME NEW e \in Devices
          PROVE  /\ told'[e] <= content'[e]
                 /\ pending'[e] \in {0, stops'[e]}
                 /\ task'[e].phase # "rest" => /\ task'[e].printed \in Contents
                                               /\ task'[e].printed <= content'[e]
                                               /\ task'[e].touched \in 1..stops'[e]
                                               /\ pending'[e] # 0
                                               /\ pending'[e] = task'[e].touched => told'[e] <= task'[e].printed
                 /\ task'[e].phase \in {"closing", "leaving"} => reported'[e] = task'[e].printed
                 /\ task'[e].phase = "leaving" => slipped'[e] \/ pending'[e] = task'[e].touched
      <3>1. CASE e = d
        BY <2>1, <2>3, <3>1 DEF Rounds
      <3>2. CASE e # d
        BY <2>1, <3>2 DEF Rounds
      <3> QED BY <3>1, <3>2
    <2> QED BY <2>2, <2>4 DEF Rounds
  <1>5. ASSUME NEW d \in Devices, Settle(d) PROVE Rounds' /\ NothingForgotten'
    BY <1>5 DEF Rounds, NothingForgotten, Settle, deviceVars, serverVars, LargeTypeOK, AtRest
  <1>6. ASSUME NEW d \in Devices, TryLater(d), UNCHANGED <<deviceVars, reported>> PROVE Rounds' /\ NothingForgotten'
    <2>1. task'[d].phase = "rest" /\ \A e \in Devices \ {d} : task'[e] = task[e]
      BY <1>6 DEF TryLater, LargeTypeOK, AtRest
    <2> QED BY <1>6, <2>1 DEF Rounds, NothingForgotten, deviceVars
  <1>7. ASSUME NEW d \in Devices, task[d].phase # "rest", UNCHANGED <<deviceVars, reported>>,
               task'[d].phase \in Phases \ {"rest", "closing", "leaving"},
               task'[d].touched = task[d].touched, task'[d].printed = task[d].printed,
               \A e \in Devices \ {d} : task'[e] = task[e]
        PROVE  Rounds' /\ NothingForgotten'
    BY <1>7 DEF Rounds, NothingForgotten, deviceVars
  <1>8. ASSUME NEW d \in Devices,
               Fingerprint(d) \/ AskBlob(d) \/ AskMissing(d) \/ SendPart(d) \/ EndOfParts(d) \/ AddManifest(d)
               \/ EndOfManifest(d) \/ Complete(d) \/ Lock(d) \/ GiveUp(d)
        PROVE  Rounds' /\ NothingForgotten'
    <2>1. UNCHANGED <<deviceVars, reported>>
      BY <1>8 DEF Fingerprint, AskBlob, AskMissing, SendPart, EndOfParts, AddManifest, EndOfManifest, Complete,
                  Lock, GiveUp, serverVars
    <2>2. CASE TryLater(d)
      BY <1>6, <2>1, <2>2
    <2>3. CASE UNCHANGED task
      BY <2>1, <2>3 DEF Rounds, NothingForgotten, deviceVars
    <2>4. CASE ~TryLater(d) /\ ~UNCHANGED task
      <3>1. task[d].phase # "rest"
        BY <1>8, <2>4 DEF Fingerprint, AskBlob, AskMissing, SendPart, EndOfParts, AddManifest, EndOfManifest,
                          Complete, Lock, GiveUp
      <3>2. \/ \E p \in Phases \ {"rest", "closing", "leaving"} : Goto(d, p)
            \/ \E m : task' = [task EXCEPT ![d] = [@ EXCEPT !.phase = "sending", !.missing = m]]
            \/ task[d].phase = "sending" /\ \E m : task' = [task EXCEPT ![d].missing = m]
            \/ task[d].phase = "manifest" /\ \E n : task' = [task EXCEPT ![d].offset = n]
        BY <1>8, <2>4 DEF Fingerprint, AskBlob, AskMissing, SendPart, EndOfParts, AddManifest, EndOfManifest,
                          Complete, Lock, GiveUp, Phases
      <3>3. /\ task'[d].phase \in Phases \ {"rest", "closing", "leaving"}
            /\ task'[d].touched = task[d].touched /\ task'[d].printed = task[d].printed
            /\ \A e \in Devices \ {d} : task'[e] = task[e]
        <4> task \in [Devices -> Task] /\ task[d] \in Task
          BY DEF LargeTypeOK
        <4>1. CASE \E p \in Phases \ {"rest", "closing", "leaving"} : Goto(d, p)
          BY <4>1 DEF Goto, Task
        <4>2. CASE \E m : task' = [task EXCEPT ![d] = [@ EXCEPT !.phase = "sending", !.missing = m]]
          BY <4>2 DEF Task, Phases
        <4>3. CASE task[d].phase = "sending" /\ \E m : task' = [task EXCEPT ![d].missing = m]
          BY <4>3 DEF Task, Phases
        <4>4. CASE task[d].phase = "manifest" /\ \E n : task' = [task EXCEPT ![d].offset = n]
          BY <4>4 DEF Task, Phases
        <4> QED BY <3>2, <4>1, <4>2, <4>3, <4>4
      <3> QED BY <1>7, <2>1, <3>1, <3>3
    <2> QED BY <2>2, <2>3, <2>4
  <1>9. ASSUME NEW d \in Devices, Report(d) PROVE Rounds' /\ NothingForgotten'
    <2>1. CASE TryLater(d) /\ UNCHANGED reported
      BY <1>6, <1>9, <2>1 DEF Report
    <2>2. CASE Goto(d, "closing") /\ reported' = [reported EXCEPT ![d] = task[d].printed]
      <3>1. /\ task'[d].phase = "closing" /\ task'[d].touched = task[d].touched
            /\ task'[d].printed = task[d].printed /\ reported'[d] = task[d].printed
            /\ \A e \in Devices \ {d} : task'[e] = task[e] /\ reported'[e] = reported[e]
        BY <2>2 DEF Goto, LargeTypeOK, Task
      <3>2. task[d].phase = "reporting" /\ pending[d] # 0
        BY <1>9 DEF Report, Rounds
      <3> QED BY <1>9, <3>1, <3>2 DEF Rounds, NothingForgotten, Report, deviceVars
    <2> QED BY <1>9, <2>1, <2>2 DEF Report
  <1>10. ASSUME NEW d \in Devices, Close(d) PROVE Rounds' /\ NothingForgotten'
    <2>1. CASE TryLater(d)
      BY <1>6, <1>10, <2>1 DEF Close, serverVars
    <2>2. CASE Forgettable(d) /\ Goto(d, "leaving")
      <3>1. /\ task'[d].phase = "leaving" /\ task'[d].touched = task[d].touched
            /\ task'[d].printed = task[d].printed
            /\ \A e \in Devices \ {d} : task'[e] = task[e]
        BY <2>2 DEF Goto, LargeTypeOK, Task
      <3> QED BY <1>10, <2>2, <3>1 DEF Rounds, NothingForgotten, Close, Forgettable, deviceVars, serverVars
    <2> QED BY <1>10, <2>1, <2>2 DEF Close
  <1>11. ASSUME NEW d \in Devices, Unlink(d) PROVE Rounds' /\ NothingForgotten'
    BY <1>11 DEF Rounds, NothingForgotten, Unlink, TryLater, AtRest, serverVars, LargeTypeOK
  <1>12. ASSUME (\E k \in Digests : Rot(k)) \/ (\E c \in Contents : Inspect(c) \/ Reopen(c)) \/ UNCHANGED largeVars
         PROVE  Rounds' /\ NothingForgotten'
    BY <1>12 DEF Rounds, NothingForgotten, Rot, Inspect, Reopen, largeVars, deviceVars, serverVars
  <1>13. CASE RestartServer
    BY <1>13 DEF Rounds, NothingForgotten, RestartServer, deviceVars, LargeTypeOK, AtRest
  <1> QED
    BY <1>3, <1>4, <1>5, <1>8, <1>9, <1>10, <1>11, <1>12, <1>13 DEF LargeNext

\* Nobody changes the list of a complete blob, and a blob becomes complete with
\* the list that was checked.
LEMMA ListsKept == ASSUME LargeInv, [LargeNext]_largeVars PROVE CompletedIsWhole' /\ Checked'
  <1>1. LargeTypeOK /\ CompletedIsWhole /\ Checked /\ Rounds
    BY DEF LargeInv
  <1> USE <1>1
  <1>2. ASSUME UNCHANGED <<blob, checking>> PROVE CompletedIsWhole' /\ Checked'
    BY <1>2 DEF CompletedIsWhole, Checked
  <1>3. ASSUME NEW d \in Devices,
               Edit(d) \/ QueueLargeFiles(d) \/ Settle(d) \/ Fingerprint(d) \/ AskBlob(d) \/ AskMissing(d)
               \/ SendPart(d) \/ EndOfParts(d) \/ EndOfManifest(d) \/ Report(d) \/ GiveUp(d) \/ Close(d) \/ Unlink(d)
        PROVE  CompletedIsWhole' /\ Checked'
    BY <1>2, <1>3 DEF Edit, QueueLargeFiles, Settle, Fingerprint, AskBlob, AskMissing, SendPart, EndOfParts,
                      EndOfManifest, Report, GiveUp, Close, Unlink, serverVars
  <1>4. ASSUME NEW d \in Devices, AddManifest(d) PROVE CompletedIsWhole' /\ Checked'
    <2> DEFINE c == task[d].printed
    <2>1. checking' = checking
      BY <1>4 DEF AddManifest
    <2>2. CASE UNCHANGED blob
      BY <1>2, <2>1, <2>2
    <2>3. CASE ~UNCHANGED blob
      <3>1. ~blob[c].done /\ \E b : blob' = [blob EXCEPT ![c] = b] /\ b.done = blob[c].done
        <4> DEFINE n == task[d].offset
               b == Extended(blob[c], n, Parts(d)[n + 1])
        <4>1. c \in Contents /\ blob[c] \in Blob
          BY <1>4 DEF AddManifest, LargeTypeOK, Rounds
        <4>2. b.done = blob[c].done
          BY <4>1, StaysOpen
        <4>3. ~blob[c].done /\ blob' = [blob EXCEPT ![c] = b]
          BY <1>4, <2>3 DEF AddManifest
        <4> QED BY <4>2, <4>3
      <3> QED BY <2>1, <3>1 DEF CompletedIsWhole, Checked, LargeTypeOK
    <2> QED BY <2>2, <2>3
  <1>5. ASSUME NEW d \in Devices, Complete(d) PROVE CompletedIsWhole' /\ Checked'
    <2>1. blob' = blob
      BY <1>5 DEF Complete
    <2>2. CASE UNCHANGED checking
      BY <1>2, <2>1, <2>2
    <2>3. CASE ~UNCHANGED checking
      <3>1. /\ Makes(blob[task[d].printed].list, task[d].printed)
            /\ checking' = [checking EXCEPT ![d] = [digest |-> task[d].printed, list |-> blob[task[d].printed].list]]
        BY <1>5, <2>3 DEF Complete, AddsUp
      <3> QED BY <2>1, <3>1 DEF CompletedIsWhole, Checked, LargeTypeOK
    <2> QED BY <2>2, <2>3
  <1>6. ASSUME NEW d \in Devices, Lock(d) PROVE CompletedIsWhole' /\ Checked'
    <2> DEFINE c == checking[d].digest
    <2>1. checking' = [checking EXCEPT ![d] = NoCheck]
      BY <1>6 DEF Lock
    <2>2. Checked'
      BY <2>1, Numbers DEF Checked, LargeTypeOK, NoCheck
    <2>3. ASSUME NEW x \in Contents PROVE /\ blob'[x].list = blob[x].list
                                          /\ blob'[x].done => blob[x].done \/ (x = c /\ SameList(d))
      BY <1>6 DEF Lock, LargeTypeOK, Blob
    <2>4. CompletedIsWhole'
      BY <2>3 DEF CompletedIsWhole, Checked, SameList
    <2> QED BY <2>2, <2>4
  <1>7. ASSUME NEW c \in Contents, Reopen(c) PROVE CompletedIsWhole' /\ Checked'
    <2>1. checking' = checking /\ \A x \in Contents : blob'[x].list = blob[x].list /\ (blob'[x].done => blob[x].done)
      BY <1>7 DEF Reopen, LargeTypeOK, Blob
    <2> QED BY <2>1 DEF CompletedIsWhole, Checked
  <1>8. CASE RestartServer
    BY <1>8, Numbers DEF RestartServer, CompletedIsWhole, Checked, NoCheck
  <1>9. ASSUME (\E k \in Digests : Rot(k)) \/ (\E c \in Contents : Inspect(c)) \/ UNCHANGED largeVars
        PROVE  CompletedIsWhole' /\ Checked'
    BY <1>2, <1>9 DEF Rot, Inspect, largeVars, serverVars
  <1> QED BY <1>3, <1>4, <1>5, <1>6, <1>7, <1>8, <1>9 DEF LargeNext

\* As long as nothing is damaged no chunk is ever dropped, so nothing that was
\* found complete stops being so.
LEMMA UndamagedKept == ASSUME LargeInv, [LargeNext]_largeVars PROVE Undamaged'
  <1>1. LargeTypeOK /\ CompletedIsWhole /\ Undamaged /\ Rounds /\ LargeTypeOK'
    BY TypesKept DEF LargeInv
  <1>2. rots \in Nat /\ rots' \in Nat
    BY <1>1, BoundAssumption DEF LargeTypeOK
  <1>3. rots' = 0 => rots = 0
    <2>1. ASSUME NEW d \in Devices, Edit(d) \/ QueueLargeFiles(d) \/ Settle(d) \/ Fingerprint(d) \/ AskBlob(d)
                                    \/ AskMissing(d) \/ SendPart(d) \/ EndOfParts(d)
          PROVE  rots' = rots
      BY <2>1 DEF Edit, QueueLargeFiles, Settle, Fingerprint, AskBlob, AskMissing, SendPart, EndOfParts, chunkVars
    <2>2. ASSUME NEW d \in Devices, AddManifest(d) \/ EndOfManifest(d) \/ Complete(d) \/ Lock(d) \/ Report(d)
                                    \/ GiveUp(d) \/ Close(d) \/ Unlink(d)
          PROVE  rots' = rots
      BY <2>2 DEF AddManifest, EndOfManifest, Complete, Lock, Report, GiveUp, Close, Unlink, chunkVars
    <2>3. ASSUME NEW k \in Digests, Rot(k) PROVE rots' = rots + 1
      BY <2>3 DEF Rot
    <2>4. ASSUME (\E c \in Contents : Inspect(c) \/ Reopen(c)) \/ RestartServer \/ UNCHANGED largeVars
          PROVE  rots' = rots
      BY <2>4 DEF Inspect, Reopen, RestartServer, largeVars, chunkVars
    <2> QED BY <1>2, <2>1, <2>2, <2>3, <2>4 DEF LargeNext
  <1> SUFFICES ASSUME rots' = 0 PROVE Undamaged'
    BY DEF Undamaged
  <1>4. /\ damaged = {} /\ doubted = {}
        /\ \A c \in Contents : blob[c].done => ToSet(blob[c].list) \subseteq stored
        /\ \A d \in Devices : checking[d].digest \in Contents => ToSet(checking[d].list) \subseteq stored
        /\ \A d \in Devices : reported[d] # None => reported[d] \in Contents /\ blob[reported[d]].done
    BY <1>1, <1>3 DEF Undamaged, LargeTypeOK
  <1> USE <1>1, <1>4
  <1>5. ASSUME UNCHANGED <<damaged, blob, checking, reported, doubted>>, stored \subseteq stored' PROVE Undamaged'
    BY <1>5 DEF Undamaged
  <1>6. ASSUME NEW d \in Devices,
               Edit(d) \/ QueueLargeFiles(d) \/ Settle(d) \/ Fingerprint(d) \/ AskBlob(d) \/ AskMissing(d)
               \/ EndOfParts(d) \/ EndOfManifest(d) \/ GiveUp(d) \/ Close(d) \/ Unlink(d)
        PROVE  Undamaged'
    BY <1>5, <1>6 DEF Edit, QueueLargeFiles, Settle, Fingerprint, AskBlob, AskMissing,
                      EndOfParts, EndOfManifest, GiveUp, Close, Unlink, serverVars, chunkVars
  <1>7. ASSUME NEW d \in Devices, SendPart(d) PROVE Undamaged'
    <2>1. damaged' = {} /\ stored \subseteq stored'
      BY <1>7 DEF SendPart
    <2> QED BY <1>5, <1>7, <2>1 DEF SendPart, serverVars
  <1>8. ASSUME NEW d \in Devices, AddManifest(d) PROVE Undamaged'
    <2>1. \A c \in Contents : /\ blob[c].done => blob'[c] = blob[c]
                              /\ blob'[c].done => blob[c].done
      <3> DEFINE c == task[d].printed
      <3>1. CASE UNCHANGED blob
        BY <3>1
      <3>2. CASE ~UNCHANGED blob
        <4>1. ~blob[c].done /\ \E b : blob' = [blob EXCEPT ![c] = b] /\ b.done = blob[c].done
          <5> DEFINE n == task[d].offset
                 b == Extended(blob[c], n, Parts(d)[n + 1])
          <5>1. c \in Contents /\ blob[c] \in Blob
            BY <1>8 DEF AddManifest, LargeTypeOK, Rounds
          <5>2. b.done = blob[c].done
            BY <5>1, StaysOpen
          <5>3. ~blob[c].done /\ blob' = [blob EXCEPT ![c] = b]
            BY <1>8, <3>2 DEF AddManifest
          <5> QED BY <5>2, <5>3
        <4> QED BY <4>1 DEF LargeTypeOK
      <3> QED BY <3>1, <3>2
    <2>2. UNCHANGED <<stored, damaged, checking, reported, doubted>>
      BY <1>8 DEF AddManifest, chunkVars
    <2> QED BY <2>1, <2>2 DEF Undamaged
  <1>9. ASSUME NEW d \in Devices, Complete(d) PROVE Undamaged'
    <2>1. UNCHANGED <<stored, damaged, blob, reported, doubted>>
      BY <1>9 DEF Complete, DropDamaged
    <2>2. CASE UNCHANGED checking
      BY <1>5, <2>1, <2>2
    <2>3. CASE ~UNCHANGED checking
      <3>1. /\ ToSet(blob[task[d].printed].list) \subseteq stored
            /\ checking' = [checking EXCEPT ![d] = [digest |-> task[d].printed, list |-> blob[task[d].printed].list]]
        BY <1>9, <2>3 DEF Complete, AddsUp
      <3> QED BY <2>1, <3>1 DEF Undamaged, LargeTypeOK
    <2> QED BY <2>2, <2>3
  <1>10. ASSUME NEW d \in Devices, Lock(d) PROVE Undamaged'
    <2>1. /\ checking' = [checking EXCEPT ![d] = NoCheck]
          /\ UNCHANGED <<stored, damaged, reported, doubted>>
      BY <1>10 DEF Lock, chunkVars
    <2>2. \A e \in Devices : checking'[e].digest \in Contents => ToSet(checking'[e].list) \subseteq stored
      BY <2>1, Numbers DEF LargeTypeOK, NoCheck
    <2>3. ASSUME NEW x \in Contents
          PROVE  /\ blob'[x].list = blob[x].list
                 /\ blob[x].done => blob'[x].done
                 /\ blob'[x].done => blob[x].done \/ (x = checking[d].digest /\ blob[x].list = checking[d].list)
      BY <1>10 DEF Lock, LargeTypeOK, Blob, SameList
    <2>4. \A x \in Contents : blob'[x].done => ToSet(blob'[x].list) \subseteq stored
      BY <2>3
    <2> QED BY <2>1, <2>2, <2>3, <2>4 DEF Undamaged
  <1>11. ASSUME NEW d \in Devices, Report(d) PROVE Undamaged'
    BY <1>11 DEF Undamaged, Report, chunkVars, LargeTypeOK
  <1>12. ASSUME NEW k \in Digests, Rot(k) PROVE Undamaged'
    BY <1>2, <1>12 DEF Rot
  <1>13. ASSUME NEW c \in Contents, Inspect(c) PROVE Undamaged'
    BY <1>13 DEF Inspect, AddsUp, CompletedIsWhole
  <1>14. ASSUME NEW c \in Contents, Reopen(c) PROVE Undamaged'
    BY <1>14 DEF Reopen
  <1>15. CASE RestartServer
    BY <1>15, Numbers DEF RestartServer, Undamaged, NoCheck, chunkVars
  <1>16. CASE UNCHANGED largeVars
    BY <1>5, <1>16 DEF largeVars, chunkVars, serverVars
  <1> QED
    BY <1>6, <1>7, <1>8, <1>9, <1>10, <1>11, <1>12, <1>13, <1>14, <1>15, <1>16 DEF LargeNext

-----------------------------------------------------------------------------
\* The inductive invariant.
THEOREM LargeInvariant == LargeSpec => []LargeInv
  <1>1. LargeInv /\ [LargeNext]_largeVars => LargeInv'
    BY TypesKept, RoundsKept, ListsKept, UndamagedKept DEF LargeInv
  <1> QED BY LargeInitially, <1>1, PTL DEF LargeSpec

\* Every variable keeps its type, and no list of chunks outgrows the file.
THEOREM LargeTypeCorrect == LargeSpec => []LargeTypeOK
  <1>1. LargeInv => LargeTypeOK
    BY DEF LargeInv
  <1> QED BY LargeInvariant, <1>1, PTL

\* However many devices write the list of one file at the same time, it becomes
\* complete only as a list that makes up the file (BlobService.complete).
THEOREM CompleteMeansWhole == LargeSpec => []CompletedIsWhole
  <1>1. LargeInv => CompletedIsWhole
    BY DEF LargeInv
  <1> QED BY LargeInvariant, <1>1, PTL

\* What report_files was told of stays readable while the disk is sound.
THEOREM WhatIsReportedIsHeld == LargeSpec => []ReportedIsHeld
  <1>1. LargeInv => ReportedIsHeld
    BY DEF LargeInv, LargeTypeOK, Undamaged, ReportedIsHeld
  <1> QED BY LargeInvariant, <1>1, PTL

\* The pending entry of a repository goes only when the server was told of what
\* the last Stop saw (settle).
THEOREM NoStopIsForgotten == LargeSpec => []NothingForgotten
  <1>1. LargeInv => NothingForgotten
    BY DEF LargeInv
  <1> QED BY LargeInvariant, <1>1, PTL

\* What is complete, and what was reported, can be put together again.
THEOREM LargeFilesStayHeld == LargeSpec => []LargeFilesHeld
  BY LargeTypeCorrect, CompleteMeansWhole, WhatIsReportedIsHeld, PTL DEF LargeFilesHeld

-----------------------------------------------------------------------------
\* MemorySync: what the hooks of a device know of the memory directory.

\* What a hook goes by has been on the server: the answer it was given, the
\* state file it read, and what it is about to write there.
GoesByHeld(t, given) ==
    /\ t.phase \in {"asked", "pulling"}   => Pairs(t.remote) \subseteq given
    /\ t.phase \in {"pulling", "putting"} => Pairs(t.known) \subseteq given
    /\ t.phase = "saving"                 => Pairs(t.seen) \subseteq given

\* A file that is no longer as a pull read it was edited since, was deleted, or
\* is what another pull of the device took from the server.
Accounted(t, files, given) ==
    t.phase = "pulling" =>
        \A n \in Names : files[n] \in {t.seen[n], Absent} \/ <<n, files[n]>> \in given \/ n \in t.meddled

SyncInv ==
    /\ SyncTypeOK /\ SyncedWasHeld
    /\ \A h \in Hooks : GoesByHeld(syncing[h], held) /\ Accounted(syncing[h], disk[Home[h]], held)

LEMMA PairsAre ==
  ASSUME NEW files \in Files, NEW S
  PROVE  Pairs(files) \subseteq S <=> \A n \in Names : files[n] # Absent => <<n, files[n]>> \in S
  BY DEF Pairs

LEMMA PairsType == ASSUME NEW files \in Files PROVE Pairs(files) \subseteq Names \X Bodies
  BY DEF Pairs, Files, Content

LEMMA GivenType == ASSUME NEW files \in Files PROVE Given(files) \in Files
  BY RestoredAssumption DEF Given, Files, Content

LEMMA SyncRecords == Nothing \in Files /\ Idle \in SyncHook
  BY DEF Nothing, Idle, SyncHook, Files, Content

LEMMA HookFields ==
  ASSUME NEW t \in SyncHook
  PROVE  /\ t.phase \in {"idle", "asked", "pulling", "putting", "saving"}
         /\ t.remote \in Files /\ t.known \in Files /\ t.seen \in Files /\ t.meddled \subseteq Names
  BY DEF SyncHook

LEMMA Resting ==
  ASSUME NEW given, NEW files
  PROVE  GoesByHeld(Idle, given) /\ Accounted(Idle, files, given)
  BY DEF GoesByHeld, Accounted, Idle

\* What a hook goes by stays held when more is.
LEMMA HeldGrows ==
  ASSUME NEW t, NEW files, NEW S, NEW T, S \subseteq T
  PROVE  /\ GoesByHeld(t, S) => GoesByHeld(t, T)
         /\ Accounted(t, files, S) => Accounted(t, files, T)
  BY DEF GoesByHeld, Accounted

-----------------------------------------------------------------------------
\* What WriteFiles does to the directory and to the state file.
Exchange(t)  == [n \in Names |-> IF n \in Taken(t) THEN t.remote[n] ELSE IF n \in Doomed(t) THEN Absent ELSE t.known[n]]
GoneSince(t, files) == {n \in Doomed(t) : files[n] = Absent}
Unlinked(t, files)  == {n \in Doomed(t) : \A m \in GoneSince(t, files) : n < m}
Overwritten(t)      == {n \in Taken(t) : t.seen[n] # t.remote[n]}
After(t, files)     == [n \in Names |-> IF n \in Overwritten(t) THEN t.remote[n]
                                        ELSE IF n \in Unlinked(t, files) THEN Absent ELSE files[n]]

LEMMA WritesThat ==
  ASSUME NEW h \in Hooks, WriteFiles(h)
  PROVE  /\ syncing[h].phase = "pulling"
         /\ disk' = [disk EXCEPT ![Home[h]] = After(syncing[h], disk[Home[h]])]
         /\ syncing' = [syncing EXCEPT ![h] = IF GoneSince(syncing[h], disk[Home[h]]) # {} THEN Idle
                                       ELSE [Idle EXCEPT !.phase = "saving", !.seen = Exchange(syncing[h])]]
         /\ UNCHANGED <<synced, kept, edits, held>>
  BY DEF WriteFiles, After, Exchange, GoneSince, Unlinked, Overwritten

LEMMA ExchangeIsHeld ==
  ASSUME NEW t \in SyncHook, NEW given, GoesByHeld(t, given), t.phase = "pulling"
  PROVE  Exchange(t) \in Files /\ Pairs(Exchange(t)) \subseteq given
  <1>1. t.remote \in Files /\ t.known \in Files
    BY HookFields
  <1>2. Exchange(t) \in Files
    BY <1>1 DEF Exchange, Files, Content
  <1>3. \A n \in Names : /\ t.remote[n] # Absent => <<n, t.remote[n]>> \in given
                         /\ t.known[n] # Absent => <<n, t.known[n]>> \in given
    BY <1>1, PairsAre DEF GoesByHeld
  <1>4. \A n \in Names : Exchange(t)[n] # Absent => <<n, Exchange(t)[n]>> \in given
    BY <1>3 DEF Exchange
  <1> QED BY <1>2, <1>4, PairsAre

\* A pull puts there what the server gave it, and takes away or replaces only
\* what has been on the server or was edited since the pull read it.
LEMMA PullReplaces ==
  ASSUME NEW t \in SyncHook, NEW given, NEW files \in Files,
         GoesByHeld(t, given), Accounted(t, files, given), t.phase = "pulling"
  PROVE  /\ After(t, files) \in Files
         /\ \A n \in Names : \/ After(t, files)[n] \in {files[n], Absent}
                             \/ <<n, After(t, files)[n]>> \in given
         /\ \A n \in Names : After(t, files)[n] # files[n] /\ files[n] # Absent
                             => <<n, files[n]>> \in given \/ n \in t.meddled
  <1>1. t.remote \in Files /\ t.known \in Files /\ t.seen \in Files
    BY HookFields
  <1>2. After(t, files) \in Files
    BY <1>1 DEF After, Files, Content
  <1>3. \A n \in Names : /\ t.remote[n] # Absent => <<n, t.remote[n]>> \in given
                         /\ t.known[n] # Absent => <<n, t.known[n]>> \in given
    BY <1>1, PairsAre DEF GoesByHeld
  <1>4. \A n \in Taken(t) : t.remote[n] # Absent /\ t.seen[n] \in {Absent, t.known[n], t.remote[n]}
    BY DEF Taken, EditedHere
  <1>5. \A n \in Doomed(t) : t.known[n] = t.seen[n]
    BY DEF Doomed
  <1>6. ASSUME NEW n \in Names
        PROVE  /\ After(t, files)[n] \in {files[n], Absent} \/ <<n, After(t, files)[n]>> \in given
               /\ After(t, files)[n] # files[n] /\ files[n] # Absent => <<n, files[n]>> \in given \/ n \in t.meddled
    <2>1. After(t, files)[n] = IF n \in Overwritten(t) THEN t.remote[n]
                               ELSE IF n \in Unlinked(t, files) THEN Absent ELSE files[n]
      BY DEF After
    <2>2. \/ n \in Overwritten(t) /\ n \in Taken(t)
          \/ n \in Unlinked(t, files) /\ n \notin Overwritten(t) /\ n \in Doomed(t)
          \/ n \notin Unlinked(t, files) /\ n \notin Overwritten(t)
      BY DEF Overwritten, Unlinked
    <2>3. files[n] \in {t.seen[n], Absent} \/ <<n, files[n]>> \in given \/ n \in t.meddled
      BY DEF Accounted
    <2> QED BY <1>3, <1>4, <1>5, <2>1, <2>2, <2>3
  <1> QED BY <1>2, <1>6

-----------------------------------------------------------------------------
LEMMA SyncInitially == SyncInit => SyncInv
  <1> SUFFICES ASSUME SyncInit PROVE SyncInv
    OBVIOUS
  <1>1. kept \in Files
    BY SyncBounds DEF SyncInit, Files, Content
  <1>2. SyncTypeOK
    BY <1>1, PairsType, SyncRecords DEF SyncInit, SyncTypeOK
  <1>3. SyncedWasHeld
    BY DEF SyncInit, SyncedWasHeld
  <1>4. \A h \in Hooks : syncing[h] = Idle
    BY DEF SyncInit
  <1> QED BY <1>2, <1>3, <1>4, Resting DEF SyncInv

\* How the invariant survives a step of a hook that leaves the directories alone.
LEMMA HookSteps ==
  ASSUME SyncInv, NEW h \in Hooks, NEW t \in SyncHook,
         syncing' = [syncing EXCEPT ![h] = t], held \subseteq held', UNCHANGED <<disk, edits>>,
         kept' \in Files, held' \subseteq Names \X Bodies,
         \/ UNCHANGED synced
         \/ \E files \in Files : Pairs(files) \subseteq held' /\ synced' = [synced EXCEPT ![Home[h]] = files],
         GoesByHeld(t, held'), Accounted(t, disk[Home[h]], held')
  PROVE  SyncInv'
  <1>1. SyncTypeOK /\ SyncedWasHeld /\ Home[h] \in Machines
    BY HomeAssumption DEF SyncInv
  <1>2. /\ syncing \in [Hooks -> SyncHook] /\ disk \in [Machines -> Files]
        /\ synced \in [Machines -> Files] /\ edits \in [Names -> Nat]
    BY <1>1 DEF SyncTypeOK
  <1>3. synced' \in [Machines -> Files] /\ \A d \in Machines : Pairs(synced'[d]) \subseteq held'
    BY <1>1, <1>2 DEF SyncedWasHeld
  <1>4. syncing' \in [Hooks -> SyncHook]
    BY <1>2
  <1>5. SyncTypeOK'
    BY <1>2, <1>3, <1>4 DEF SyncTypeOK
  <1>6. SyncedWasHeld'
    BY <1>3 DEF SyncedWasHeld
  <1>7. ASSUME NEW g \in Hooks
        PROVE  GoesByHeld(syncing'[g], held') /\ Accounted(syncing'[g], disk'[Home[g]], held')
    <2>1. CASE g = h
      BY <1>2, <2>1
    <2>2. CASE g # h
      <3>1. syncing'[g] = syncing[g]
        BY <1>2, <2>2
      <3> QED BY <3>1, HeldGrows DEF SyncInv
    <2> QED BY <2>1, <2>2
  <1> QED BY <1>5, <1>6, <1>7 DEF SyncInv

LEMMA EditKeeps ==
  ASSUME SyncInv, NEW d \in Machines, NEW n \in Names, NEW c \in Content, EditMemory(d, n, c)
  PROVE  SyncInv'
  <1>1. SyncTypeOK /\ SyncedWasHeld
    BY DEF SyncInv
  <1>2. /\ disk \in [Machines -> Files] /\ syncing \in [Hooks -> SyncHook] /\ edits \in [Names -> Nat]
        /\ UNCHANGED <<synced, kept, held>>
    BY <1>1 DEF SyncTypeOK, EditMemory
  <1>3. disk' = [disk EXCEPT ![d][n] = c]
    BY DEF EditMemory
  <1>4. disk' \in [Machines -> Files]
    BY <1>2, <1>3 DEF Files
  <1>5. edits' \in [Names -> Nat]
    BY <1>2 DEF EditMemory
  <1>6. ASSUME NEW g \in Hooks
        PROVE  /\ syncing'[g] \in SyncHook
               /\ GoesByHeld(syncing'[g], held') /\ Accounted(syncing'[g], disk'[Home[g]], held')
    <2> DEFINE t == syncing[g]
               u == [t EXCEPT !.meddled = @ \cup {n}]
    <2>1. t \in SyncHook /\ GoesByHeld(t, held) /\ Accounted(t, disk[Home[g]], held) /\ Home[g] \in Machines
      BY <1>2, HomeAssumption DEF SyncInv
    <2>2. syncing'[g] = IF Home[g] = d /\ t.phase = "pulling" THEN u ELSE t
      BY DEF EditMemory
    <2>3. /\ u \in SyncHook /\ u.phase = t.phase /\ u.remote = t.remote /\ u.known = t.known /\ u.seen = t.seen
          /\ u.meddled = t.meddled \cup {n}
      BY <2>1 DEF SyncHook
    <2> HIDE DEF u
    <2>4. GoesByHeld(u, held)
      BY <2>1, <2>3 DEF GoesByHeld
    <2>5. \A m \in Names : (Home[g] # d \/ m # n) => disk'[Home[g]][m] = disk[Home[g]][m]
      BY <1>2, <1>3, <2>1 DEF Files
    <2>6. CASE Home[g] = d /\ t.phase = "pulling"
      <3>1. Accounted(u, disk'[Home[g]], held)
        BY <2>1, <2>3, <2>5, <2>6 DEF Accounted
      <3> QED BY <1>2, <2>2, <2>3, <2>4, <2>6, <3>1
    <2>7. CASE ~(Home[g] = d /\ t.phase = "pulling")
      <3>1. Accounted(t, disk'[Home[g]], held)
        BY <2>1, <2>5, <2>7 DEF Accounted
      <3> QED BY <1>2, <2>1, <2>2, <2>7, <3>1
    <2> QED BY <2>6, <2>7
  <1>7. syncing' \in [Hooks -> SyncHook]
    <2>1. syncing' = [g \in Hooks |-> IF Home[g] = d /\ syncing[g].phase = "pulling"
                                      THEN [syncing[g] EXCEPT !.meddled = @ \cup {n}] ELSE syncing[g]]
      BY DEF EditMemory
    <2> QED BY <1>6, <2>1
  <1>8. SyncTypeOK'
    BY <1>1, <1>2, <1>4, <1>5, <1>7 DEF SyncTypeOK
  <1>9. SyncedWasHeld'
    BY <1>1, <1>2 DEF SyncedWasHeld
  <1> QED BY <1>6, <1>8, <1>9 DEF SyncInv

LEMMA WriteKeeps ==
  ASSUME SyncInv, NEW h \in Hooks, WriteFiles(h)
  PROVE  SyncInv'
  <1> DEFINE t     == syncing[h]
             files == disk[Home[h]]
             u     == [Idle EXCEPT !.phase = "saving", !.seen = Exchange(t)]
  <1>1. SyncTypeOK /\ SyncedWasHeld /\ Home \in [Hooks -> Machines]
    BY HomeAssumption DEF SyncInv
  <1>2. /\ disk \in [Machines -> Files] /\ syncing \in [Hooks -> SyncHook]
        /\ t \in SyncHook /\ files \in Files /\ GoesByHeld(t, held) /\ Accounted(t, files, held)
    BY <1>1 DEF SyncTypeOK, SyncInv
  <1>3. /\ t.phase = "pulling" /\ disk' = [disk EXCEPT ![Home[h]] = After(t, files)]
        /\ UNCHANGED <<synced, kept, edits, held>>
        /\ syncing' = [syncing EXCEPT ![h] = IF GoneSince(t, files) # {} THEN Idle ELSE u]
    BY WritesThat
  <1>4. Exchange(t) \in Files /\ Pairs(Exchange(t)) \subseteq held
    BY <1>2, <1>3, ExchangeIsHeld
  <1>5. u \in SyncHook /\ u.phase = "saving" /\ u.seen = Exchange(t)
    BY <1>4, SyncRecords DEF Idle, SyncHook
  <1> HIDE DEF u
  <1>6. GoesByHeld(u, held) /\ \A f : Accounted(u, f, held)
    BY <1>4, <1>5 DEF GoesByHeld, Accounted
  <1>7. /\ After(t, files) \in Files
        /\ \A n \in Names : After(t, files)[n] \in {files[n], Absent} \/ <<n, After(t, files)[n]>> \in held
    BY <1>2, <1>3, PullReplaces
  <1> HIDE DEF t, files
  <1>8. disk' \in [Machines -> Files] /\ syncing' \in [Hooks -> SyncHook]
    BY <1>1, <1>2, <1>3, <1>5, <1>7, SyncRecords
  <1>9. SyncTypeOK'
    BY <1>1, <1>3, <1>8 DEF SyncTypeOK
  <1>10. SyncedWasHeld'
    BY <1>1, <1>3 DEF SyncedWasHeld
  <1>11. ASSUME NEW g \in Hooks
         PROVE  GoesByHeld(syncing'[g], held') /\ Accounted(syncing'[g], disk'[Home[g]], held')
    <2>1. CASE g = h
      <3>1. syncing'[g] \in {Idle, u}
        BY <1>2, <1>3, <2>1
      <3> QED BY <1>3, <1>6, <3>1, Resting
    <2>2. CASE g # h
      <3>1. /\ syncing'[g] = syncing[g] /\ GoesByHeld(syncing[g], held)
            /\ Accounted(syncing[g], disk[Home[g]], held)
        BY <1>2, <1>3, <2>2 DEF SyncInv
      <3>2. disk'[Home[g]] = IF Home[g] = Home[h] THEN After(t, files) ELSE disk[Home[g]]
        BY <1>1, <1>2, <1>3
      <3>3. Home[g] = Home[h] => disk[Home[g]] = files
        BY DEF files
      <3>4. Accounted(syncing[g], disk'[Home[g]], held)
        BY <1>7, <3>1, <3>2, <3>3 DEF Accounted
      <3> QED BY <1>3, <3>1, <3>4
    <2> QED BY <2>1, <2>2
  <1> QED BY <1>9, <1>10, <1>11 DEF SyncInv

-----------------------------------------------------------------------------
LEMMA SyncKept == SyncInv /\ [SyncNext]_syncVars => SyncInv'
  <1> SUFFICES ASSUME SyncInv, [SyncNext]_syncVars PROVE SyncInv'
    OBVIOUS
  <1>1. SyncTypeOK /\ SyncedWasHeld /\ Home \in [Hooks -> Machines]
    BY HomeAssumption DEF SyncInv
  <1>2. /\ disk \in [Machines -> Files] /\ synced \in [Machines -> Files] /\ kept \in Files
        /\ syncing \in [Hooks -> SyncHook] /\ held \subseteq Names \X Bodies
    BY <1>1 DEF SyncTypeOK
  <1>3. \A h \in Hooks : /\ syncing[h] \in SyncHook
                         /\ GoesByHeld(syncing[h], held) /\ Accounted(syncing[h], disk[Home[h]], held)
    BY <1>2 DEF SyncInv
  <1>4. \A d \in Machines : Pairs(synced[d]) \subseteq held
    BY <1>1 DEF SyncedWasHeld
  <1>5. ASSUME NEW h \in Hooks, AskMemories(h) PROVE SyncInv'
    <2> DEFINE t == [syncing[h] EXCEPT !.phase = "asked", !.remote = Given(kept)]
    <2>1. Given(kept) \in Files /\ Pairs(Given(kept)) \subseteq Names \X Bodies
      BY <1>2, GivenType, PairsType
    <2>2. t \in SyncHook /\ t.phase = "asked" /\ t.remote = Given(kept)
      BY <1>3, <2>1 DEF SyncHook
    <2>3. syncing' = [syncing EXCEPT ![h] = t]
      BY <1>2, <1>5 DEF AskMemories
    <2> HIDE DEF t
    <2>4. GoesByHeld(t, held') /\ Accounted(t, disk[Home[h]], held')
      BY <1>5, <2>2 DEF AskMemories, GoesByHeld, Accounted
    <2> QED BY <1>2, <1>5, <2>1, <2>2, <2>3, <2>4, HookSteps DEF AskMemories
  <1>6. ASSUME NEW h \in Hooks, ReadDirectory(h) PROVE SyncInv'
    <2> DEFINE t == [syncing[h] EXCEPT !.phase = "pulling", !.known = synced[Home[h]], !.seen = disk[Home[h]]]
    <2>1. synced[Home[h]] \in Files /\ disk[Home[h]] \in Files /\ Pairs(synced[Home[h]]) \subseteq held
      BY <1>1, <1>2, <1>4
    <2>2. /\ t \in SyncHook /\ t.phase = "pulling" /\ t.remote = syncing[h].remote
          /\ t.known = synced[Home[h]] /\ t.seen = disk[Home[h]]
      BY <1>3, <2>1 DEF SyncHook
    <2>3. syncing' = [syncing EXCEPT ![h] = t]
      BY <1>2, <1>6 DEF ReadDirectory
    <2> HIDE DEF t
    <2>4. GoesByHeld(t, held)
      BY <1>3, <1>6, <2>1, <2>2 DEF ReadDirectory, GoesByHeld
    <2>5. Accounted(t, disk[Home[h]], held)
      BY <2>2 DEF Accounted
    <2> QED BY <1>2, <1>6, <2>2, <2>3, <2>4, <2>5, HookSteps DEF ReadDirectory
  <1>7. ASSUME NEW h \in Hooks, Collect(h) PROVE SyncInv'
    <2> DEFINE t == [Idle EXCEPT !.phase = "putting", !.known = synced[Home[h]], !.seen = disk[Home[h]]]
    <2>1. synced[Home[h]] \in Files /\ disk[Home[h]] \in Files /\ Pairs(synced[Home[h]]) \subseteq held
      BY <1>1, <1>2, <1>4
    <2>2. t \in SyncHook /\ t.phase = "putting" /\ t.known = synced[Home[h]]
      BY <2>1, SyncRecords DEF SyncHook, Idle
    <2>3. syncing' = [syncing EXCEPT ![h] = t] /\ UNCHANGED <<disk, synced, kept, edits, held>>
      BY <1>7 DEF Collect
    <2> HIDE DEF t
    <2>4. GoesByHeld(t, held) /\ Accounted(t, disk[Home[h]], held)
      BY <2>1, <2>2 DEF GoesByHeld, Accounted
    <2> QED BY <1>2, <2>2, <2>3, <2>4, HookSteps
  <1>8. ASSUME NEW h \in Hooks, SyncMemories(h) PROVE SyncInv'
    <2> DEFINE t == syncing[h]
               u == [Idle EXCEPT !.phase = "saving", !.seen = t.seen]
    <2>1. t.phase = "putting" /\ t.known \in Files /\ t.seen \in Files /\ Pairs(t.known) \subseteq held
      BY <1>3, <1>8, HookFields DEF SyncMemories, GoesByHeld
    <2>2. u \in SyncHook /\ u.phase = "saving" /\ u.seen = t.seen
      BY <2>1, SyncRecords DEF SyncHook, Idle
    <2>3. /\ syncing' = [syncing EXCEPT ![h] = u] /\ UNCHANGED <<disk, synced, edits>>
          /\ held' = held \cup Pairs(kept')
          /\ kept' = [n \in Names |-> IF n \in Changed(t) THEN t.seen[n]
                                      ELSE IF DeletedHere(t, n) THEN Absent ELSE kept[n]]
      BY <1>8 DEF SyncMemories
    <2> HIDE DEF u, t
    <2>4. kept' \in Files
      BY <1>2, <2>1, <2>3 DEF Files, Content
    <2>5. held' \subseteq Names \X Bodies
      BY <1>2, <2>3, <2>4, PairsType
    <2>6. \A n \in Names : t.seen[n] # Absent => <<n, t.seen[n]>> \in held'
      <3>1. ASSUME NEW n \in Names, t.seen[n] # Absent, t.known[n] = t.seen[n] PROVE <<n, t.seen[n]>> \in held
        BY <2>1, <3>1, PairsAre
      <3>2. ASSUME NEW n \in Names, t.seen[n] # Absent, t.known[n] # t.seen[n] PROVE <<n, t.seen[n]>> \in Pairs(kept')
        <4>1. kept'[n] = t.seen[n]
          BY <2>3, <3>2 DEF Changed
        <4> QED BY <3>2, <4>1 DEF Pairs
      <3> QED BY <2>3, <3>1, <3>2
    <2>7. Pairs(t.seen) \subseteq held'
      BY <2>1, <2>6, PairsAre
    <2>8. GoesByHeld(u, held') /\ Accounted(u, disk[Home[h]], held')
      BY <2>2, <2>7 DEF GoesByHeld, Accounted
    <2> QED BY <2>2, <2>3, <2>4, <2>5, <2>8, HookSteps
  <1>9. ASSUME NEW h \in Hooks, SaveSynced(h) PROVE SyncInv'
    <2>1. syncing[h].seen \in Files /\ Pairs(syncing[h].seen) \subseteq held
      BY <1>3, <1>9, HookFields DEF SaveSynced, GoesByHeld
    <2> QED BY <1>2, <1>9, <2>1, SyncRecords, Resting, HookSteps DEF SaveSynced
  <1>10. ASSUME NEW h \in Hooks, GiveUpSync(h) PROVE SyncInv'
    BY <1>2, <1>10, SyncRecords, Resting, HookSteps DEF GiveUpSync
  <1>11. ASSUME NEW h \in Hooks, LoseState(h) PROVE SyncInv'
    <2>1. Pairs(Nothing) \subseteq held
      BY DEF Pairs, Nothing
    <2> QED BY <1>2, <1>11, <2>1, SyncRecords, Resting, HookSteps DEF LoseState
  <1>12. CASE UNCHANGED syncVars
    BY <1>1, <1>12 DEF SyncInv, SyncTypeOK, SyncedWasHeld, syncVars
  <1> QED BY <1>5, <1>6, <1>7, <1>8, <1>9, <1>10, <1>11, <1>12, EditKeeps, WriteKeeps DEF SyncNext

\* The inductive invariant: what a hook goes by was on the server, and a file
\* that changed under a pull is accounted for.
THEOREM SyncInvariant == SyncSpec => []SyncInv
  BY SyncInitially, SyncKept, PTL DEF SyncSpec

\* Every directory, state file and record of a hook keeps its type.
THEOREM SyncTypeCorrect == SyncSpec => []SyncTypeOK
  <1>1. SyncInv => SyncTypeOK
    BY DEF SyncInv
  <1> QED BY SyncInvariant, <1>1, PTL

PullLoses(h, n) ==
    LET was == disk[Home[h]][n]
    IN  /\ syncing[h].phase = "pulling" /\ syncing'[h].phase # "pulling"
        /\ disk'[Home[h]][n] # was /\ was # Absent
        /\ ~(<<n, was>> \in held \/ n \in syncing[h].meddled)

\* Only the step that writes the files of a pull ends it and changes a directory.
LEMMA NoPullLoses ==
  ASSUME SyncInv, SyncNext, NEW h \in Hooks, NEW n \in Names
  PROVE  ~PullLoses(h, n)
  <1> SUFFICES ASSUME PullLoses(h, n) PROVE FALSE
    OBVIOUS
  <1>1. SyncTypeOK /\ Home[h] \in Machines
    BY HomeAssumption DEF SyncInv
  <1>2. /\ disk \in [Machines -> Files] /\ syncing \in [Hooks -> SyncHook] /\ syncing[h] \in SyncHook
        /\ disk[Home[h]] \in Files /\ GoesByHeld(syncing[h], held) /\ Accounted(syncing[h], disk[Home[h]], held)
    BY <1>1 DEF SyncTypeOK, SyncInv
  <1>3. ASSUME NEW g \in Hooks, WriteFiles(g) PROVE FALSE
    <2>1. g = h
      BY <1>2, <1>3, WritesThat DEF PullLoses
    <2>2. syncing[h].phase = "pulling" /\ disk'[Home[h]] = After(syncing[h], disk[Home[h]])
      BY <1>1, <1>2, <1>3, <2>1, WritesThat
    <2> QED BY <1>2, <2>2, PullReplaces DEF PullLoses
  <1>4. ASSUME NEW d \in Machines, NEW m \in Names, NEW c \in Content, EditMemory(d, m, c) PROVE FALSE
    <2>1. syncing'[h].phase = syncing[h].phase
      BY <1>2, <1>4 DEF EditMemory, SyncHook
    <2> QED BY <2>1 DEF PullLoses
  <1>5. UNCHANGED disk \/ \E g \in Hooks : WriteFiles(g)
    BY <1>4 DEF SyncNext, AskMemories, ReadDirectory, Collect, SyncMemories, SaveSynced, GiveUpSync, LoseState
  <1> QED BY <1>3, <1>5 DEF PullLoses

\* What a state file calls synced was on the server, and a pull only overwrites
\* or deletes a content that was on the server or that was written after the pull
\* had read the directory (push_memories, pull_memories).
THEOREM EditsAlwaysReachServer == SyncSpec => EditsReachServer
  <1>1. SyncInv => SyncTypeOK /\ SyncedWasHeld
    BY DEF SyncInv
  <1>2. SyncInv /\ [SyncNext]_syncVars =>
           [\A h \in Hooks, n \in Names :
               LET was == disk[Home[h]][n]
               IN  /\ syncing[h].phase = "pulling" /\ syncing'[h].phase # "pulling"
                   /\ disk'[Home[h]][n] # was /\ was # Absent
                   => <<n, was>> \in held \/ n \in syncing[h].meddled]_syncVars
    BY NoPullLoses DEF PullLoses
  <1>3. SyncSpec => PullKeepsEdits
    BY SyncInvariant, <1>2, PTL DEF SyncSpec, PullKeepsEdits
  <1> QED BY SyncInvariant, <1>1, <1>3, PTL DEF EditsReachServer
=============================================================================
