--------------------------- MODULE ServicesProofs ---------------------------
(***************************************************************************)
(* Theorems about what stands around the queue: the file runner (Sandbox),  *)
(* signing in (SignIn), the standing pages (Overviews), the versions of      *)
(* prompts (Prompts) and API keys (ApiKeys).                                *)
(***************************************************************************)
EXTENDS SignIn, Sandbox, Overviews, Prompts, ApiKeys, FiniteSetTheorems, TLAPS

-----------------------------------------------------------------------------
(* The file runner.                                                        *)

Holding(s) == script[s].stage \in {"running", "reaping", "clearing", "sweeping"}

ScriptRow == [stage: {"none", "waiting", "running", "reaping", "clearing", "sweeping"}, for: Nat, age: Nat,
              caller: {"none", "waiting", "gave up"}]

SandboxType == script \in [Scripts -> ScriptRow] /\ slow \in BOOLEAN

(* Unless a process slipped through, only who has the lock has left anything *)
(* that can be cleared, and what it left runs no more once it is swept.     *)
Remains == processes \cup (files \ Elsewhere)

OneCommand ==
    /\ \A r, s \in Scripts : Holding(r) /\ Holding(s) => r = s
    /\ slipped \/ \A r \in Remains : r \in Scripts /\ Holding(r)
    /\ \A s \in Scripts : script[s].stage = "sweeping" => slipped \/ processes = {}

(* No limit is passed, and the caller of a script has waited no longer than  *)
(* the stages it went through may take.                                    *)
Spent(s) ==
    LET x == script[s]
    IN  /\ x.stage = "waiting"  => x.for <= WaitTicks /\ x.age <= x.for
        /\ x.stage = "running"  => x.for <= CommandTicks /\ x.age <= WaitTicks + x.for
        /\ x.stage = "reaping"  => x.for <= ReapTicks /\ x.age <= WaitTicks + CommandTicks + x.for
        /\ x.stage \in {"clearing", "sweeping"} => x.age <= WaitTicks + CommandTicks + ReapTicks + x.for

Patient(s) ==
    LET x == script[s]
    IN  /\ x.stage \in {"clearing", "sweeping"} => x.for <= ClearTicks \/ slow
        /\ x.caller = "gave up" => slow
        /\ x.stage = "none"     => x.caller # "waiting"

InTime == \A s \in Scripts : Spent(s) /\ Patient(s)

SandboxInv == SandboxType /\ OneCommand
TimesInv   == SandboxInv /\ InTime

LEMMA OlderRow ==
    ASSUME NEW x \in ScriptRow
    PROVE  LET y == [x EXCEPT !.for = @ + 1, !.age = @ + 1]
           IN  /\ y \in ScriptRow /\ y.stage = x.stage /\ y.caller = x.caller
               /\ y.for = x.for + 1 /\ y.age = x.age + 1
  <1>1. x.for \in Nat /\ x.age \in Nat
    BY DEF ScriptRow
  <1>2. \A i, j \in Nat : LET y == [x EXCEPT !.for = i, !.age = j]
                          IN  y \in ScriptRow /\ y.stage = x.stage /\ y.caller = x.caller /\ y.for = i /\ y.age = j
    BY DEF ScriptRow
  <1>3. x.for + 1 \in Nat /\ x.age + 1 \in Nat
    BY <1>1
  <1>4. [x EXCEPT !.for = x.for + 1].age = x.age
    BY DEF ScriptRow
  <1> QED BY <1>2, <1>3, <1>4

LEMMA SandboxTypeStep ==
    ASSUME SandboxType, [SandboxNext]_sandboxVars
    PROVE  SandboxType'
  <1>1. /\ NoScript \in ScriptRow
        /\ \A s \in Scripts : script[s] \in ScriptRow
    BY DEF SandboxType, NoScript, ScriptRow
  <1>2. \A s \in Scripts, stage \in {"none", "waiting", "running", "reaping", "clearing"} :
           [script[s] EXCEPT !.stage = stage, !.for = 0] \in ScriptRow
    BY <1>1 DEF ScriptRow
  <1>3. ASSUME NEW s \in Scripts, Answers(s), slow' = slow PROVE SandboxType'
    BY <1>1, <1>2, <1>3 DEF SandboxType, Answers
  <1>4. ASSUME NEW s \in Scripts, NEW stage \in {"running", "reaping", "clearing"}, Enters(s, stage), slow' = slow
        PROVE  SandboxType'
    BY <1>1, <1>2, <1>4 DEF SandboxType, Enters
  <1>10. ASSUME NEW s \in Scripts, KillAll(s) PROVE SandboxType'
    <2>1. [script[s] EXCEPT !.stage = "sweeping"] \in ScriptRow
      BY <1>1 DEF ScriptRow
    <2> QED BY <1>1, <1>10, <2>1 DEF SandboxType, KillAll
  <1>5. ASSUME NEW s \in Scripts, Connect(s) PROVE SandboxType'
    <2>1. [NoScript EXCEPT !.stage = "waiting", !.caller = "waiting"] \in ScriptRow
      BY <1>1 DEF ScriptRow
    <2> QED BY <1>1, <1>5, <2>1 DEF SandboxType, Connect
  <1>6. ASSUME NEW s \in Scripts, CallerGivesUp(s) \/ CallerLearns(s) PROVE SandboxType'
    <2>1. [script[s] EXCEPT !.caller = "gave up"] \in ScriptRow
      BY <1>1 DEF ScriptRow
    <2> QED BY <1>1, <1>6, <2>1 DEF SandboxType, CallerGivesUp, CallerLearns
  <1>7. CASE Exit
    BY <1>1, <1>7 DEF SandboxType, Exit
  <1>8. CASE SandboxTick
    <2>1. \A s \in Scripts : [script[s] EXCEPT !.for = @ + 1, !.age = @ + 1] \in ScriptRow
      BY <1>1, OlderRow
    <2>2. script' \in [Scripts -> ScriptRow]
      BY <1>1, <1>8, <2>1 DEF SandboxTick
    <2>3. slow' \in BOOLEAN
      BY <1>8 DEF SandboxTick
    <2> QED BY <2>2, <2>3 DEF SandboxType
  <1>9. CASE LoseSocket \/ UNCHANGED sandboxVars
    BY <1>9 DEF SandboxType, LoseSocket, sandboxVars
  <1>11. ASSUME NEW s \in Scripts, WriteFiles(s) PROVE SandboxType'
    BY <1>11 DEF SandboxType, WriteFiles
  <1> QED BY <1>3, <1>4, <1>5, <1>6, <1>7, <1>8, <1>9, <1>10, <1>11
          DEF SandboxNext, StartCommand, NoSuchFile, StillRunning, EndCommand, Reap, EmptyScratch

(* The stage of a script after a step.                                     *)
LEMMA EntersOnly ==
    ASSUME SandboxType, NEW s \in Scripts, NEW stage, Enters(s, stage)
    PROVE  /\ script'[s].stage = stage /\ script'[s].for = 0 /\ script'[s].age = script[s].age
           /\ script'[s].caller = script[s].caller
           /\ \A r \in Scripts \ {s} : script'[r] = script[r]
  BY DEF SandboxType, ScriptRow, Enters

LEMMA AnswersOnly ==
    ASSUME SandboxType, NEW s \in Scripts, Answers(s)
    PROVE  /\ script'[s].stage = "none" /\ script'[s].caller # "waiting"
           /\ script[s].caller # "gave up" => script'[s].caller = "none"
           /\ \A r \in Scripts \ {s} : script'[r] = script[r]
  <1>1. script[s] \in ScriptRow /\ \A r \in Scripts \ {s} : script'[r] = script[r]
    BY DEF SandboxType, Answers
  <1>2. CASE script[s].caller = "gave up"
    <2>1. script'[s] = [script[s] EXCEPT !.stage = "none", !.for = 0]
      BY <1>2 DEF SandboxType, Answers
    <2> QED BY <1>1, <1>2, <2>1 DEF ScriptRow
  <1>3. CASE script[s].caller # "gave up"
    <2>1. script' = [script EXCEPT ![s] = NoScript]
      BY <1>3, Zenon DEF SandboxType, Answers
    <2> QED BY <1>1, <1>3, <2>1 DEF NoScript, SandboxType
  <1> QED BY <1>2, <1>3

LEMMA KillsOnly ==
    ASSUME SandboxType, NEW s \in Scripts, KillAll(s)
    PROVE  /\ script'[s].stage = "sweeping" /\ script'[s].for = script[s].for /\ script'[s].age = script[s].age
           /\ script'[s].caller = script[s].caller /\ script[s].stage = "clearing"
           /\ \A r \in Scripts \ {s} : script'[r] = script[r]
  BY DEF SandboxType, ScriptRow, KillAll

LEMMA SandboxInvStep ==
    ASSUME SandboxInv, [SandboxNext]_sandboxVars
    PROVE  SandboxInv'
  <1>1. SandboxType /\ SandboxType' /\ OneCommand
    BY SandboxTypeStep DEF SandboxInv
  (* A step that neither gives nor takes the lock and leaves nothing more. *)
  <1>2. ASSUME \A s \in Scripts : Holding(s)' <=> Holding(s), Remains' \subseteq Remains,
               processes' \subseteq processes, slipped' = slipped,
               \A s \in Scripts : script'[s].stage = "sweeping" => script[s].stage = "sweeping"
        PROVE  OneCommand'
    BY <1>1, <1>2 DEF OneCommand
  <1>3. ASSUME UNCHANGED leftVars
        PROVE  /\ processes' = processes /\ files' = files /\ slipped' = slipped /\ Remains' = Remains
    BY <1>3 DEF leftVars, Remains
  <1>4. ASSUME NEW s \in Scripts, Holding(s), NEW stage \in {"reaping", "clearing"}, Enters(s, stage),
               Remains' \subseteq Remains, processes' \subseteq processes, slipped' = slipped
        PROVE  OneCommand'
    <2>1. \A r \in Scripts : Holding(r)' <=> Holding(r)
      BY <1>1, <1>4, EntersOnly DEF Holding
    <2>2. \A r \in Scripts : script'[r].stage = "sweeping" => script[r].stage = "sweeping"
      BY <1>1, <1>4, EntersOnly
    <2> QED BY <1>2, <1>4, <2>1, <2>2
  <1>5. ASSUME NEW s \in Scripts, Connect(s) PROVE OneCommand'
    <2>1. /\ \A r \in Scripts \ {s} : script'[r] = script[r]
          /\ script'[s].stage = "waiting" /\ script[s].stage = "none" /\ UNCHANGED leftVars
      BY <1>1, <1>5 DEF Connect, SandboxType, NoScript
    <2>2. \A r \in Scripts : Holding(r)' <=> Holding(r)
      BY <2>1 DEF Holding
    <2> QED BY <1>2, <1>3, <2>1, <2>2
  <1>6. ASSUME NEW s \in Scripts, StartCommand(s) PROVE OneCommand'
    <2>7. /\ script'[s].stage = "running" /\ \A r \in Scripts \ {s} : script'[r] = script[r]
      BY <1>1, <1>6, EntersOnly DEF StartCommand
    <2>8. \A r \in Scripts : ~Holding(r)
      BY <1>6 DEF StartCommand, Locked, HasLock, Holding
    <2>1. /\ script'[s].stage = "running" /\ \A r \in Scripts \ {s} : script'[r] = script[r]
          /\ processes' = processes \cup {s} /\ files' = files \cup {s} /\ slipped' = slipped
          /\ \A r \in Scripts : ~Holding(r)
      BY <1>6, <2>7, <2>8 DEF StartCommand
    <2>2. Holding(s)' /\ \A r \in Scripts \ {s} : ~Holding(r)'
      BY <2>1 DEF Holding
    <2>3. Remains' \subseteq Remains \cup {s}
      BY <2>1 DEF Remains
    <2>4. slipped \/ Remains = {}
      BY <1>1, <2>1 DEF OneCommand
    <2>5. \A r \in Scripts : script'[r].stage # "sweeping"
      BY <2>1 DEF Holding
    <2> QED BY <2>1, <2>2, <2>3, <2>4, <2>5 DEF OneCommand
  <1>7. ASSUME NEW s \in Scripts, NoSuchFile(s) \/ StillRunning(s) PROVE OneCommand'
    <2>1. Answers(s) /\ UNCHANGED leftVars /\ ~Holding(s)
      BY <1>7 DEF NoSuchFile, StillRunning, Holding
    <2>2. /\ \A r \in Scripts : Holding(r)' <=> Holding(r)
          /\ \A r \in Scripts : script'[r].stage = "sweeping" => script[r].stage = "sweeping"
      BY <1>1, <2>1, AnswersOnly DEF Holding
    <2> QED BY <1>2, <1>3, <2>1, <2>2
  <1>8. ASSUME NEW s \in Scripts, EndCommand(s) \/ Reap(s) PROVE OneCommand'
    <2>1. CASE EndCommand(s)
      <3>1. processes' \subseteq processes /\ files' = files /\ slipped' = slipped
        BY <2>1 DEF EndCommand
      <3>2. Remains' \subseteq Remains
        BY <3>1 DEF Remains
      <3> QED BY <1>4, <2>1, <3>1, <3>2 DEF EndCommand, Holding
    <2>2. CASE Reap(s)
      BY <1>3, <1>4, <2>2 DEF Reap, Holding
    <2> QED BY <1>8, <2>1, <2>2
  <1>9. ASSUME NEW s \in Scripts, WriteFiles(s) PROVE OneCommand'
    <2>1. UNCHANGED <<script, processes, slipped>> /\ files' = files \cup {s} /\ s \in processes
      BY <1>9 DEF WriteFiles
    <2>2. Remains' \subseteq Remains /\ \A r \in Scripts : Holding(r)' <=> Holding(r)
      BY <2>1 DEF Remains, Holding
    <2> QED BY <1>2, <2>1, <2>2
  <1>10. ASSUME NEW s \in Scripts, CallerGivesUp(s) \/ CallerLearns(s) PROVE OneCommand'
    <2>1. script' = [script EXCEPT ![s].caller = "gave up"] \/ (script' = [script EXCEPT ![s] = NoScript] /\ script[s].stage = "none")
      BY <1>10 DEF CallerGivesUp, CallerLearns
    <2>2. /\ script'[s].stage = script[s].stage
          /\ \A r \in Scripts \ {s} : script'[r] = script[r]
      <3>1. CASE script' = [script EXCEPT ![s].caller = "gave up"]
        BY <1>1, <3>1 DEF SandboxType, ScriptRow
      <3>2. CASE script' = [script EXCEPT ![s] = NoScript] /\ script[s].stage = "none"
        BY <1>1, <3>2 DEF SandboxType, NoScript
      <3> QED BY <2>1, <3>1, <3>2
    <2>3. UNCHANGED leftVars
      BY <1>10 DEF CallerGivesUp, CallerLearns
    <2>4. \A r \in Scripts : script'[r].stage = script[r].stage
      BY <2>2
    <2> QED BY <1>2, <1>3, <2>3, <2>4 DEF Holding
  <1>11. CASE Exit
    <2>1. processes' = {} /\ files' \subseteq Elsewhere /\ \A s \in Scripts : script'[s].stage = "none"
      BY <1>11 DEF Exit, NoScript
    <2>2. Remains' = {}
      BY <2>1 DEF Remains
    <2>3. \A s \in Scripts : ~Holding(s)' /\ script'[s].stage # "sweeping"
      BY <2>1 DEF Holding
    <2> QED BY <1>1, <2>2, <2>3 DEF OneCommand, SandboxInv
  <1>12. CASE SandboxTick
    <2>1. \A s \in Scripts : script'[s].stage = script[s].stage
      <3> SUFFICES ASSUME NEW s \in Scripts PROVE script'[s].stage = script[s].stage
        OBVIOUS
      <3>1. script'[s] \in {script[s], [script[s] EXCEPT !.for = @ + 1, !.age = @ + 1]}
        BY <1>12 DEF SandboxTick
      <3> QED BY <1>1, <3>1, OlderRow DEF SandboxType
    <2>2. UNCHANGED leftVars
      BY <1>12 DEF SandboxTick
    <2>3. \A s \in Scripts : Holding(s)' <=> Holding(s)
      BY <2>1 DEF Holding
    <2>4. Remains' \subseteq Remains /\ processes' \subseteq processes /\ slipped' = slipped
      BY <1>3, <2>2
    <2> QED BY <1>1, <1>2, <2>1, <2>3, <2>4 DEF SandboxInv
  <1>13. CASE LoseSocket \/ UNCHANGED sandboxVars
    <2>1. UNCHANGED script /\ UNCHANGED leftVars
      BY <1>13 DEF LoseSocket, sandboxVars
    <2>2. \A s \in Scripts : Holding(s)' <=> Holding(s)
      BY <2>1 DEF Holding
    <2>3. Remains' \subseteq Remains /\ processes' \subseteq processes /\ slipped' = slipped
      BY <1>3, <2>1
    <2> QED BY <1>1, <1>2, <2>1, <2>2, <2>3 DEF SandboxInv
  <1>14. ASSUME NEW s \in Scripts, KillAll(s) PROVE OneCommand'
    <2>1. PICK forked \in SUBSET processes : processes' = forked /\ slipped' = (slipped \/ forked # {})
      BY <1>14 DEF KillAll
    <2>2. files' = files
      BY <1>14 DEF KillAll
    <2>3. \A r \in Scripts : Holding(r)' <=> Holding(r)
      BY <1>1, <1>14, KillsOnly DEF Holding
    <2>4. Remains' \subseteq Remains
      BY <2>1, <2>2 DEF Remains
    <2>5. CASE forked # {}
      BY <1>1, <2>1, <2>3, <2>5 DEF OneCommand
    <2>6. CASE forked = {}
      BY <1>1, <2>1, <2>3, <2>4, <2>6 DEF OneCommand
    <2> QED BY <2>5, <2>6
  <1>15. ASSUME NEW s \in Scripts, EmptyScratch(s) PROVE OneCommand'
    <2>1. /\ script[s].stage = "sweeping" /\ files' \subseteq MayStay /\ processes' = processes
          /\ slipped' = (slipped /\ processes # {}) /\ Answers(s)
      BY <1>15 DEF EmptyScratch
    <2>2. script'[s].stage = "none" /\ \A r \in Scripts \ {s} : script'[r] = script[r]
      BY <1>1, <2>1, AnswersOnly
    <2>3. \A r \in Scripts : ~Holding(r)'
      BY <1>1, <2>1, <2>2 DEF OneCommand, Holding
    <2>4. \A r \in Scripts : script'[r].stage # "sweeping"
      BY <2>3 DEF Holding
    <2>5. slipped \/ processes = {}
      BY <1>1, <2>1 DEF OneCommand
    <2>6. CASE slipped'
      BY <2>3, <2>4, <2>6 DEF OneCommand
    <2>7. CASE ~slipped'
      <3>1. processes = {}
        BY <2>1, <2>5, <2>7
      <3>2. Remains' = {}
        BY <2>1, <3>1 DEF Remains, MayStay
      <3> QED BY <2>3, <2>4, <3>2 DEF OneCommand
    <2> QED BY <2>6, <2>7
  <1> QED BY <1>1, <1>5, <1>6, <1>7, <1>8, <1>9, <1>10, <1>11, <1>12, <1>13, <1>14, <1>15 DEF SandboxNext, SandboxInv

(* The limits of the runner and of its caller.                             *)
LEMMA InTimeStep ==
    ASSUME WaitTicks + CommandTicks + ReapTicks + ClearTicks < RequestTicks,
           TimesInv, [SandboxNext]_sandboxVars
    PROVE  InTime'
  <1>1. /\ SandboxType /\ SandboxType' /\ InTime
        /\ script \in [Scripts -> ScriptRow] /\ \A s \in Scripts : script[s] \in ScriptRow
    BY SandboxTypeStep DEF TimesInv, SandboxInv, SandboxType
  <1>2. /\ WaitTicks \in Nat /\ CommandTicks \in Nat /\ ReapTicks \in Nat /\ ClearTicks \in Nat /\ RequestTicks \in Nat
    BY SandboxAssumption
  <1>3. \A s \in Scripts : Spent(s) /\ Patient(s)
    BY <1>1 DEF InTime
  <1>4. ASSUME NEW s \in Scripts, slow' = slow, Spent(s)', Patient(s)', \A r \in Scripts \ {s} : script'[r] = script[r]
        PROVE  InTime'
    <2>1. ASSUME NEW r \in Scripts, r # s PROVE Spent(r)' /\ Patient(r)'
      BY <1>3, <1>4, <2>1 DEF Spent, Patient
    <2> QED BY <1>4, <2>1 DEF InTime
  <1>5. ASSUME NEW s \in Scripts, script'[s].stage = "none", script'[s].caller # "waiting",
               script'[s].caller = "gave up" => slow'
        PROVE  Spent(s)' /\ Patient(s)'
    BY <1>5 DEF Spent, Patient
  <1>6. ASSUME NEW s \in Scripts, Answers(s), slow' = slow PROVE InTime'
    <2>1. /\ script'[s].stage = "none" /\ script'[s].caller # "waiting"
          /\ script'[s].caller = "gave up" => script[s].caller = "gave up"
          /\ \A r \in Scripts \ {s} : script'[r] = script[r]
      BY <1>1, <1>6, AnswersOnly
    <2>2. script[s].caller = "gave up" => slow
      BY <1>3 DEF Patient
    <2> QED BY <1>4, <1>5, <1>6, <2>1, <2>2
  <1>7. ASSUME NEW s \in Scripts, Connect(s) PROVE InTime'
    <2>1. /\ script'[s].stage = "waiting" /\ script'[s].for = 0 /\ script'[s].age = 0 /\ script'[s].caller = "waiting"
          /\ slow' = slow /\ \A r \in Scripts \ {s} : script'[r] = script[r]
      BY <1>1, <1>7 DEF Connect, NoScript
    <2>2. Spent(s)' /\ Patient(s)'
      BY <1>2, <2>1 DEF Spent, Patient
    <2> QED BY <1>4, <2>1, <2>2
  <1>8. ASSUME NEW s \in Scripts, NEW stage,
               \/ stage = "running"  /\ script[s].stage = "waiting"
               \/ stage = "reaping"  /\ script[s].stage = "running"
               \/ stage = "clearing" /\ script[s].stage = "reaping",
               Enters(s, stage), slow' = slow
        PROVE  InTime'
    <2>1. /\ script'[s].stage = stage /\ script'[s].for = 0 /\ script'[s].age = script[s].age
          /\ script'[s].caller = script[s].caller /\ \A r \in Scripts \ {s} : script'[r] = script[r]
      BY <1>1, <1>8, EntersOnly
    <2>2. script[s].age \in Nat /\ script[s].for \in Nat /\ Spent(s) /\ Patient(s)
      BY <1>1, <1>3 DEF ScriptRow
    <2>3. Spent(s)'
      BY <1>2, <1>8, <2>1, <2>2 DEF Spent
    <2>4. 0 <= ClearTicks
      BY <1>2
    <2>5. Patient(s)'
      BY <1>8, <2>1, <2>2, <2>4 DEF Patient
    <2> QED BY <1>4, <1>8, <2>1, <2>3, <2>5
  <1>14. ASSUME NEW s \in Scripts, KillAll(s) PROVE InTime'
    <2>1. Spent(s)' /\ Patient(s)' /\ slow' = slow
      <3>1. slow' = slow
        BY <1>14 DEF KillAll
      <3> QED BY <1>1, <1>3, <1>14, <3>1, KillsOnly DEF Spent, Patient
    <2>2. \A r \in Scripts \ {s} : script'[r] = script[r]
      BY <1>1, <1>14, KillsOnly
    <2> QED BY <1>4, <2>1, <2>2
  <1>9. ASSUME NEW s \in Scripts, CallerGivesUp(s) PROVE InTime'
    <2>1. slow
      <3> SUFFICES ASSUME ~slow PROVE FALSE
        OBVIOUS
      <3>1. script[s].caller = "waiting" /\ script[s].age >= RequestTicks
        BY <1>9 DEF CallerGivesUp
      <3>2. script[s].stage # "none" /\ (script[s].stage \in {"clearing", "sweeping"} => script[s].for <= ClearTicks)
        BY <1>3, <3>1 DEF Patient
      <3>3. script[s].age \in Nat /\ script[s].for \in Nat /\ script[s].stage \in {"waiting", "running", "reaping", "clearing", "sweeping"}
        BY <1>1, <3>2 DEF ScriptRow
      <3>4. script[s].age <= WaitTicks + CommandTicks + ReapTicks + ClearTicks
        BY <1>2, <1>3, <3>2, <3>3 DEF Spent
      <3> QED BY <1>2, <3>1, <3>3, <3>4
    <2>2. /\ script'[s].stage = script[s].stage /\ script'[s].for = script[s].for /\ script'[s].age = script[s].age
          /\ script'[s].caller = "gave up" /\ slow' = slow /\ \A r \in Scripts \ {s} : script'[r] = script[r]
      BY <1>1, <1>9 DEF CallerGivesUp, ScriptRow
    <2>3. Spent(s)' /\ Patient(s)'
      BY <1>3, <2>1, <2>2 DEF Spent, Patient
    <2> QED BY <1>4, <2>2, <2>3
  <1>10. ASSUME NEW s \in Scripts, CallerLearns(s) PROVE InTime'
    <2>1. /\ script'[s].stage = "none" /\ script'[s].caller = "none" /\ slow' = slow
          /\ \A r \in Scripts \ {s} : script'[r] = script[r]
      BY <1>1, <1>10 DEF CallerLearns, NoScript
    <2> QED BY <1>4, <1>5, <2>1
  <1>11. CASE Exit
    <2>1. \A s \in Scripts : script'[s].stage = "none" /\ script'[s].caller = "none"
      BY <1>11 DEF Exit, NoScript
    <2> QED BY <1>5, <2>1 DEF InTime
  <1>12. CASE SandboxTick
    <2>1. /\ slow => slow'
          /\ \A s \in Scripts : script[s].stage \in {"clearing", "sweeping"} /\ script[s].for >= ClearTicks => slow'
      BY <1>12 DEF SandboxTick
    <2>2. ASSUME NEW s \in Scripts, script[s].stage = "none" PROVE Spent(s)' /\ Patient(s)'
      <3>1. script'[s] = script[s]
        BY <1>12, <2>2 DEF SandboxTick
      <3> QED BY <1>3, <2>1, <2>2, <3>1 DEF Spent, Patient
    <2>3. ASSUME NEW s \in Scripts, script[s].stage # "none" PROVE Spent(s)' /\ Patient(s)'
      <3>1. script'[s] = [script[s] EXCEPT !.for = @ + 1, !.age = @ + 1] /\ MayLast(s)
        BY <1>12, <2>3 DEF SandboxTick
      <3>2. /\ script'[s].stage = script[s].stage /\ script'[s].caller = script[s].caller
            /\ script'[s].for = script[s].for + 1 /\ script'[s].age = script[s].age + 1
        BY <1>1, <3>1, OlderRow
      <3>3. script[s].age \in Nat /\ script[s].for \in Nat /\ Spent(s) /\ Patient(s)
        BY <1>1, <1>3 DEF ScriptRow
      <3>4. /\ script[s].stage = "waiting"  => script[s].for < WaitTicks
            /\ script[s].stage = "running"  => script[s].for < CommandTicks
            /\ script[s].stage = "reaping"  => script[s].for < ReapTicks
        BY <3>1 DEF MayLast, MayWait
      <3>5. Spent(s)'
        BY <1>2, <3>2, <3>3, <3>4 DEF Spent
      <3>6. script[s].for >= ClearTicks \/ script'[s].for <= ClearTicks
        BY <1>2, <3>2, <3>3
      <3>7. Patient(s)'
        BY <2>1, <2>3, <3>2, <3>3, <3>6 DEF Patient
      <3> QED BY <3>5, <3>7
    <2> QED BY <2>2, <2>3 DEF InTime
  <1>13. CASE LoseSocket \/ UNCHANGED sandboxVars
    <2>1. UNCHANGED <<script, slow>>
      BY <1>13 DEF LoseSocket, sandboxVars
    <2> QED BY <1>3, <2>1 DEF InTime, Spent, Patient
  <1>15. ASSUME NEW s \in Scripts, WriteFiles(s) PROVE InTime'
    BY <1>3, <1>15 DEF WriteFiles, InTime, Spent, Patient
  <1> QED BY <1>6, <1>7, <1>8, <1>9, <1>10, <1>11, <1>12, <1>13, <1>14, <1>15
          DEF SandboxNext, StartCommand, NoSuchFile, StillRunning, EndCommand, Reap, EmptyScratch

LEMMA SandboxStarts == SandboxInit => SandboxInv /\ InTime
  <1> SUFFICES ASSUME SandboxInit PROVE SandboxInv /\ InTime
    OBVIOUS
  <1>1. \A s \in Scripts : script[s] = NoScript
    BY DEF SandboxInit
  <1>2. NoScript \in ScriptRow /\ NoScript.stage = "none" /\ NoScript.caller = "none"
    BY DEF NoScript, ScriptRow
  <1>3. SandboxType
    BY <1>2 DEF SandboxInit, SandboxType
  <1>4. OneCommand
    BY <1>1, <1>2 DEF SandboxInit, OneCommand, Holding, Remains
  <1>5. InTime
    BY <1>1, <1>2 DEF InTime, Spent, Patient
  <1> QED BY <1>3, <1>4, <1>5 DEF SandboxInv

\* Unless a process was forked past the killing before it, a command meets
\* nothing that another one left where it can be cleared: the lock is held until
\* the sweep is over (run, sweep), however many commands wait and fail, and a sweep
\* that kills everything makes up for one that did not.
THEOREM CommandsStartClean == SandboxSpec => []StartsClean
  <1>1. SandboxInv => StartsClean
    <2> SUFFICES ASSUME SandboxInv, ~slipped PROVE \A s \in Remains : HasLock = {s}
      BY DEF StartsClean, Remains
    <2>1. \A s \in Scripts : s \in HasLock <=> Holding(s)
      BY DEF HasLock, Holding
    <2>2. HasLock \subseteq Scripts
      BY DEF HasLock
    <2>3. \A r, s \in Scripts : Holding(r) /\ Holding(s) => r = s
      BY DEF SandboxInv, OneCommand
    <2>4. \A s \in Remains : s \in Scripts /\ Holding(s)
      BY DEF SandboxInv, OneCommand
    <2> QED BY <2>1, <2>2, <2>3, <2>4
  <1> QED BY <1>1, SandboxStarts, SandboxInvStep, PTL DEF SandboxSpec

\* With limits that add up to less than the caller's, as those of the code do
\* (WAIT_SECONDS, COMMAND_SECONDS, REAP_SECONDS, REQUEST_SECONDS), no caller gives
\* up on a command that runs, unless the disk is slow.
THEOREM CommandsStayApart ==
    WaitTicks + CommandTicks + ReapTicks + ClearTicks < RequestTicks => (SandboxSpec => []CommandsApart)
  <1> SUFFICES ASSUME WaitTicks + CommandTicks + ReapTicks + ClearTicks < RequestTicks
               PROVE  SandboxSpec => []CommandsApart
    OBVIOUS
  <1>1. SandboxInit => TimesInv
    BY SandboxStarts DEF TimesInv
  <1>2. TimesInv /\ [SandboxNext]_sandboxVars => TimesInv'
    BY SandboxInvStep, InTimeStep DEF TimesInv
  <1>3. TimesInv => AnsweredInTime
    BY DEF TimesInv, InTime, Patient, AnsweredInTime
  <1>4. SandboxSpec => []AnsweredInTime
    BY <1>1, <1>2, <1>3, PTL DEF SandboxSpec
  <1> QED BY <1>4, CommandsStartClean, PTL DEF CommandsApart

-----------------------------------------------------------------------------
(* Signing in.  Guesses that are counted but not yet written are on top of   *)
(* what the limits allow, one a browser.                                   *)

BrowserRow == [stage: {"idle", "counted", "matched", "failed", "cleared", "checked"}, name: UserNames, guess: Nat,
               late: BOOLEAN, cookie: Token \cup {NoToken}, access: Token \cup {NoToken}, used: Nat]

RowsType == IsFiniteSet(remembered) /\ failures \subseteq remembered /\ \A f \in remembered : f.at \in Nat

SignInType ==
    /\ clock \in Nat
    /\ account \in [UserNames -> [password: Nat, updated: Nat]]
    /\ browser \in [Browsers -> BrowserRow]
    /\ RowsType

Guessing(b)  == browser[b].stage \in {"counted", "failed"}
NameTries(n) == {b \in Browsers : Guessing(b) /\ browser[b].name = n}
IpTries(ip)  == {b \in Browsers : Guessing(b) /\ IpOf[b] = ip}
OfAddress(ip) == {b \in Browsers : IpOf[b] = ip}

GuessesInv ==
    /\ Recent(remembered) \subseteq failures
    /\ \A n \in UserNames : Cardinality(OfName(failures, n)) + Cardinality(NameTries(n)) < MaxPerName + Cardinality(Browsers)
    /\ \A ip \in Ips : Cardinality(OfIp(failures, ip)) + Cardinality(IpTries(ip)) < MaxPerIp + Cardinality(OfAddress(ip))

(* A token that is accepted and not late, and a request that is past its    *)
(* check and that no change ran into, stand for the password of now.        *)
Current(n, password) == account[n].password = password

TokenSound(t) ==
    t # NoToken => /\ t.iat <= clock
                   /\ ~t.late /\ ~(t.iat < account[t.name].updated) => Current(t.name, t.password)

BrowserSound(b) ==
    LET x == browser[b]
    IN  /\ TokenSound(x.cookie) /\ TokenSound(x.access)
        /\ x.stage \in {"matched", "cleared"} /\ ~x.late => Current(x.name, x.guess)
        /\ x.stage = "checked" => x.cookie # NoToken
        /\ x.stage = "checked" /\ ~x.late => Current(x.cookie.name, x.cookie.password)
        /\ x.cookie # NoToken => x.used <= clock /\ x.cookie.exp > x.used + (RefreshTtl \div 2)

SessionsInv ==
    /\ \A n \in UserNames : account[n].updated <= clock
    /\ \A b \in Browsers : BrowserSound(b)

SignInInv == SignInType /\ GuessesInv /\ SessionsInv

(* Types.                                                                  *)
LEMMA FinishedType ==
    ASSUME NEW b \in Browsers, browser[b] \in BrowserRow
    PROVE  /\ Finished(b) \in BrowserRow /\ Finished(b).stage = "idle" /\ Finished(b).name = browser[b].name
           /\ Finished(b).cookie = browser[b].cookie /\ Finished(b).access = browser[b].access
           /\ Finished(b).used = browser[b].used
  BY DEF Finished, BrowserRow

LEMMA IssuedType ==
    ASSUME clock \in Nat, NEW n \in UserNames, NEW ttl \in Nat, NEW password \in Nat, NEW late \in BOOLEAN
    PROVE  Issued(n, ttl, password, late) \in Token
  BY DEF Issued, Token

LEMMA GoesOnly ==
    ASSUME browser \in [Browsers -> BrowserRow], NEW b \in Browsers, NEW new, Goes(b, new)
    PROVE  browser'[b] = new /\ (\A o \in Browsers \ {b} : browser'[o] = browser[o])
           /\ (new \in BrowserRow => browser' \in [Browsers -> BrowserRow])
  BY DEF Goes

(* What a browser holds once it got tokens.                                *)
LEMMA GetsTokensType ==
    ASSUME SignInType, NEW b \in Browsers, NEW refresh \in Token, GetsTokens(b, refresh)
    PROVE  \E new \in BrowserRow :
              /\ Goes(b, new) /\ new.stage = "idle" /\ new.name = browser[b].name
              /\ \/ /\ new.cookie = refresh /\ new.used = clock
                    /\ new.access = Issued(refresh.name, AccessTtl, refresh.password, refresh.late)
                 \/ new.cookie = browser[b].cookie /\ new.access = browser[b].access /\ new.used = browser[b].used
  <1>1. browser[b] \in BrowserRow /\ clock \in Nat
    BY DEF SignInType
  <1>2. CASE b \in Keeping
    <2> DEFINE access == Issued(refresh.name, AccessTtl, refresh.password, refresh.late)
               new    == [Finished(b) EXCEPT !.cookie = refresh, !.used = clock, !.access = access]
    <2>1. access \in Token
      BY <1>1, IssuedType, TtlAssumption DEF Token
    <2> HIDE DEF access
    <2>2. /\ new \in BrowserRow /\ new.stage = "idle" /\ new.name = browser[b].name
          /\ new.cookie = refresh /\ new.used = clock /\ new.access = access
      BY <1>1, <2>1, FinishedType DEF BrowserRow
    <2>3. Goes(b, new)
      BY <1>2 DEF GetsTokens, access
    <2> HIDE DEF new
    <2> QED BY <2>2, <2>3 DEF access
  <1>3. CASE b \notin Keeping
    BY <1>1, <1>3, FinishedType DEF GetsTokens
  <1> QED BY <1>2, <1>3

(* The guesses.                                                            *)
LEMMA SubsetCounts ==
    ASSUME NEW A, NEW B, IsFiniteSet(A), B \subseteq A
    PROVE  IsFiniteSet(B) /\ Cardinality(B) \in Nat /\ Cardinality(A) \in Nat /\ Cardinality(B) <= Cardinality(A)
  BY FS_Subset, FS_CardinalityType

LEMMA CountsAreFinite ==
    ASSUME SignInType
    PROVE  /\ \A n : IsFiniteSet(OfName(failures, n)) /\ IsFiniteSet(NameTries(n))
           /\ \A ip : IsFiniteSet(OfIp(failures, ip)) /\ IsFiniteSet(IpTries(ip)) /\ IsFiniteSet(OfAddress(ip))
           /\ \A n : Cardinality(OfName(failures, n)) \in Nat /\ Cardinality(NameTries(n)) \in Nat
           /\ \A ip : Cardinality(OfIp(failures, ip)) \in Nat /\ Cardinality(IpTries(ip)) \in Nat
                      /\ Cardinality(OfAddress(ip)) \in Nat
           /\ Cardinality(Browsers) \in Nat
  <1>1. IsFiniteSet(remembered) /\ IsFiniteSet(Browsers)
    BY BrowsersAssumption DEF SignInType, RowsType
  <1>2. \A n : OfName(failures, n) \subseteq remembered /\ NameTries(n) \subseteq Browsers
    BY DEF SignInType, RowsType, OfName, Recent, NameTries
  <1>3. \A ip : OfIp(failures, ip) \subseteq remembered /\ IpTries(ip) \subseteq Browsers /\ OfAddress(ip) \subseteq Browsers
    BY DEF SignInType, RowsType, OfIp, Recent, IpTries, OfAddress
  <1>4. \A S : S \subseteq remembered \/ S \subseteq Browsers => IsFiniteSet(S) /\ Cardinality(S) \in Nat
    BY <1>1, SubsetCounts
  <1> QED BY <1>2, <1>3, <1>4

(* No new guess is counted, and no failure is written.                     *)
LEMMA GuessesShrink ==
    ASSUME SignInInv, IsFiniteSet(remembered'), failures' \subseteq remembered',
           \A n : OfName(failures, n)' \subseteq OfName(failures, n),
           \A ip : OfIp(failures, ip)' \subseteq OfIp(failures, ip),
           \A o \in Browsers : Guessing(o)' => Guessing(o) /\ browser'[o].name = browser[o].name,
           Recent(remembered)' \subseteq failures'
    PROVE  GuessesInv'
  <1>1. SignInType /\ GuessesInv
    BY DEF SignInInv
  <1>2. \A n : NameTries(n)' \subseteq NameTries(n)
    BY DEF NameTries
  <1>3. \A ip : IpTries(ip)' \subseteq IpTries(ip)
    BY DEF IpTries
  <1>4. ASSUME NEW n \in UserNames
        PROVE  Cardinality(OfName(failures, n)') + Cardinality(NameTries(n)') < MaxPerName + Cardinality(Browsers)
    <2>1. /\ Cardinality(OfName(failures, n)') \in Nat /\ Cardinality(OfName(failures, n)') <= Cardinality(OfName(failures, n))
          /\ Cardinality(NameTries(n)') \in Nat /\ Cardinality(NameTries(n)') <= Cardinality(NameTries(n))
      BY <1>1, <1>2, CountsAreFinite, SubsetCounts
    <2>2. Cardinality(OfName(failures, n)) + Cardinality(NameTries(n)) < MaxPerName + Cardinality(Browsers)
      BY <1>1 DEF GuessesInv
    <2> QED BY <1>1, <2>1, <2>2, CountsAreFinite, LimitsAssumption
  <1>5. ASSUME NEW ip \in Ips
        PROVE  Cardinality(OfIp(failures, ip)') + Cardinality(IpTries(ip)') < MaxPerIp + Cardinality(OfAddress(ip))
    <2>1. /\ Cardinality(OfIp(failures, ip)') \in Nat /\ Cardinality(OfIp(failures, ip)') <= Cardinality(OfIp(failures, ip))
          /\ Cardinality(IpTries(ip)') \in Nat /\ Cardinality(IpTries(ip)') <= Cardinality(IpTries(ip))
      BY <1>1, <1>3, CountsAreFinite, SubsetCounts
    <2>2. Cardinality(OfIp(failures, ip)) + Cardinality(IpTries(ip)) < MaxPerIp + Cardinality(OfAddress(ip))
      BY <1>1 DEF GuessesInv
    <2> QED BY <1>1, <2>1, <2>2, CountsAreFinite, LimitsAssumption
  <1> QED BY <1>4, <1>5 DEF GuessesInv

(* A guess is counted: below the limits there is room for it.              *)
LEMMA GuessesCount ==
    ASSUME SignInInv, NEW b \in Browsers, NEW n \in UserNames, ~Throttled(n, IpOf[b]),
           UNCHANGED <<clock, failures, remembered>>, browser'[b].name = n,
           \A o \in Browsers \ {b} : browser'[o] = browser[o]
    PROVE  GuessesInv'
  <1>1. SignInType /\ GuessesInv
    BY DEF SignInInv
  <1>2. \A m : OfName(failures, m)' = OfName(failures, m)
    BY DEF OfName, Recent
  <1>3. \A ip : OfIp(failures, ip)' = OfIp(failures, ip)
    BY DEF OfIp, Recent
  <1>4. ASSUME NEW m \in UserNames
        PROVE  Cardinality(OfName(failures, m)') + Cardinality(NameTries(m)') < MaxPerName + Cardinality(Browsers)
    <2>1. CASE m = n
      <3>1. NameTries(m)' \subseteq Browsers
        BY DEF NameTries
      <3>2. /\ Cardinality(NameTries(m)') \in Nat /\ Cardinality(NameTries(m)') <= Cardinality(Browsers)
            /\ Cardinality(Browsers) \in Nat
        BY <3>1, SubsetCounts, BrowsersAssumption
      <3>3. Cardinality(OfName(failures, m)) \in Nat /\ ~(Cardinality(OfName(failures, m)) >= MaxPerName)
        BY <1>1, <2>1, CountsAreFinite DEF Throttled
      <3> QED BY <1>2, <3>2, <3>3, LimitsAssumption
    <2>2. CASE m # n
      <3>1. NameTries(m)' \subseteq NameTries(m)
        BY <2>2 DEF NameTries, Guessing
      <3>2. Cardinality(NameTries(m)') \in Nat /\ Cardinality(NameTries(m)') <= Cardinality(NameTries(m))
        BY <1>1, <3>1, CountsAreFinite, SubsetCounts
      <3>3. Cardinality(OfName(failures, m)) + Cardinality(NameTries(m)) < MaxPerName + Cardinality(Browsers)
        BY <1>1 DEF GuessesInv
      <3> QED BY <1>1, <1>2, <3>2, <3>3, CountsAreFinite, LimitsAssumption
    <2> QED BY <2>1, <2>2
  <1>5. ASSUME NEW ip \in Ips
        PROVE  Cardinality(OfIp(failures, ip)') + Cardinality(IpTries(ip)') < MaxPerIp + Cardinality(OfAddress(ip))
    <2>1. CASE ip = IpOf[b]
      <3>1. IpTries(ip)' \subseteq OfAddress(ip)
        BY DEF IpTries, OfAddress
      <3>2. /\ Cardinality(IpTries(ip)') \in Nat /\ Cardinality(IpTries(ip)') <= Cardinality(OfAddress(ip))
            /\ Cardinality(OfAddress(ip)) \in Nat
        BY <1>1, <3>1, CountsAreFinite, SubsetCounts
      <3>3. Cardinality(OfIp(failures, ip)) \in Nat /\ ~(Cardinality(OfIp(failures, ip)) >= MaxPerIp)
        BY <1>1, <2>1, CountsAreFinite DEF Throttled
      <3> QED BY <1>3, <3>2, <3>3, LimitsAssumption
    <2>2. CASE ip # IpOf[b]
      <3>1. IpTries(ip)' \subseteq IpTries(ip)
        BY <2>2 DEF IpTries, Guessing
      <3>2. Cardinality(IpTries(ip)') \in Nat /\ Cardinality(IpTries(ip)') <= Cardinality(IpTries(ip))
        BY <1>1, <3>1, CountsAreFinite, SubsetCounts
      <3>3. Cardinality(OfIp(failures, ip)) + Cardinality(IpTries(ip)) < MaxPerIp + Cardinality(OfAddress(ip))
        BY <1>1 DEF GuessesInv
      <3> QED BY <1>1, <1>3, <3>2, <3>3, CountsAreFinite, LimitsAssumption
    <2> QED BY <2>1, <2>2
  <1>6. Recent(remembered)' \subseteq failures'
    BY <1>1 DEF GuessesInv, Recent
  <1> QED BY <1>4, <1>5, <1>6 DEF GuessesInv

(* A failure takes the place of the guess it ends.                         *)
LEMMA OneMore ==
    ASSUME NEW A, IsFiniteSet(A), NEW x, NEW S, S \subseteq A \cup {x}
    PROVE  Cardinality(S) \in Nat /\ Cardinality(A) \in Nat /\ Cardinality(S) <= Cardinality(A) + 1
  <1>1. Cardinality(A) \in Nat
    BY FS_CardinalityType
  <1>2. /\ IsFiniteSet(A \cup {x})
        /\ Cardinality(A \cup {x}) = IF x \in A THEN Cardinality(A) ELSE Cardinality(A) + 1
    BY FS_AddElement
  <1>3. Cardinality(S) \in Nat /\ Cardinality(A \cup {x}) \in Nat /\ Cardinality(S) <= Cardinality(A \cup {x})
    BY <1>2, SubsetCounts
  <1> QED BY <1>1, <1>2, <1>3

LEMMA OneLess ==
    ASSUME NEW T, IsFiniteSet(T), NEW x \in T, NEW S, S \subseteq T \ {x}
    PROVE  Cardinality(S) \in Nat /\ Cardinality(T) \in Nat /\ Cardinality(S) + 1 <= Cardinality(T)
  <1>1. IsFiniteSet(T \ {x}) /\ Cardinality(T \ {x}) = Cardinality(T) - 1 /\ Cardinality(T) \in Nat
    BY FS_RemoveElement, FS_CardinalityType
  <1>2. Cardinality(S) \in Nat /\ Cardinality(S) <= Cardinality(T \ {x})
    BY <1>1, SubsetCounts
  <1> QED BY <1>1, <1>2

LEMMA GuessesFail ==
    ASSUME SignInInv, NEW b \in Browsers, browser[b].stage = "failed", NEW entered,
           entered.name = browser[b].name, entered.ip = IpOf[b],
           failures' = failures \cup {entered}, remembered' = remembered \cup {entered}, UNCHANGED clock,
           ~Guessing(b)', \A o \in Browsers \ {b} : browser'[o] = browser[o]
    PROVE  GuessesInv'
  <1>1. SignInType /\ GuessesInv
    BY DEF SignInInv
  <1>2. ASSUME NEW m \in UserNames
        PROVE  Cardinality(OfName(failures, m)') + Cardinality(NameTries(m)') < MaxPerName + Cardinality(Browsers)
    <2>1. Cardinality(OfName(failures, m)) + Cardinality(NameTries(m)) < MaxPerName + Cardinality(Browsers)
      BY <1>1 DEF GuessesInv
    <2>2. CASE m = browser[b].name
      <3>1. b \in NameTries(m) /\ OfName(failures, m)' \subseteq OfName(failures, m) \cup {entered}
            /\ NameTries(m)' \subseteq NameTries(m) \ {b}
        BY <2>2 DEF NameTries, Guessing, OfName, Recent
      <3>2. /\ Cardinality(OfName(failures, m)') \in Nat /\ Cardinality(NameTries(m)') \in Nat
            /\ Cardinality(OfName(failures, m)') + Cardinality(NameTries(m)')
                 <= Cardinality(OfName(failures, m)) + Cardinality(NameTries(m))
        <4>1. IsFiniteSet(OfName(failures, m)) /\ IsFiniteSet(NameTries(m))
          BY <1>1, CountsAreFinite
        <4>2. /\ Cardinality(OfName(failures, m)') \in Nat /\ Cardinality(OfName(failures, m)) \in Nat
              /\ Cardinality(OfName(failures, m)') <= Cardinality(OfName(failures, m)) + 1
          BY <3>1, <4>1, OneMore
        <4>3. /\ Cardinality(NameTries(m)') \in Nat /\ Cardinality(NameTries(m)) \in Nat
              /\ Cardinality(NameTries(m)') + 1 <= Cardinality(NameTries(m))
          BY <3>1, <4>1, OneLess
        <4> QED BY <4>2, <4>3
      <3> QED BY <1>1, <2>1, <3>2, CountsAreFinite, LimitsAssumption
    <2>3. CASE m # browser[b].name
      <3>1. OfName(failures, m)' = OfName(failures, m) /\ NameTries(m)' \subseteq NameTries(m)
        BY <2>3 DEF NameTries, Guessing, OfName, Recent
      <3>2. Cardinality(NameTries(m)') \in Nat /\ Cardinality(NameTries(m)') <= Cardinality(NameTries(m))
        BY <1>1, <3>1, CountsAreFinite, SubsetCounts
      <3> QED BY <1>1, <2>1, <3>1, <3>2, CountsAreFinite, LimitsAssumption
    <2> QED BY <2>2, <2>3
  <1>3. ASSUME NEW ip \in Ips
        PROVE  Cardinality(OfIp(failures, ip)') + Cardinality(IpTries(ip)') < MaxPerIp + Cardinality(OfAddress(ip))
    <2>1. Cardinality(OfIp(failures, ip)) + Cardinality(IpTries(ip)) < MaxPerIp + Cardinality(OfAddress(ip))
      BY <1>1 DEF GuessesInv
    <2>2. CASE ip = IpOf[b]
      <3>1. b \in IpTries(ip) /\ OfIp(failures, ip)' \subseteq OfIp(failures, ip) \cup {entered}
            /\ IpTries(ip)' \subseteq IpTries(ip) \ {b}
        BY <2>2 DEF IpTries, Guessing, OfIp, Recent
      <3>2. /\ Cardinality(OfIp(failures, ip)') \in Nat /\ Cardinality(IpTries(ip)') \in Nat
            /\ Cardinality(OfIp(failures, ip)') + Cardinality(IpTries(ip)')
                 <= Cardinality(OfIp(failures, ip)) + Cardinality(IpTries(ip))
        <4>1. IsFiniteSet(OfIp(failures, ip)) /\ IsFiniteSet(IpTries(ip))
          BY <1>1, CountsAreFinite
        <4>2. /\ Cardinality(OfIp(failures, ip)') \in Nat /\ Cardinality(OfIp(failures, ip)) \in Nat
              /\ Cardinality(OfIp(failures, ip)') <= Cardinality(OfIp(failures, ip)) + 1
          BY <3>1, <4>1, OneMore
        <4>3. /\ Cardinality(IpTries(ip)') \in Nat /\ Cardinality(IpTries(ip)) \in Nat
              /\ Cardinality(IpTries(ip)') + 1 <= Cardinality(IpTries(ip))
          BY <3>1, <4>1, OneLess
        <4> QED BY <4>2, <4>3
      <3> QED BY <1>1, <2>1, <3>2, CountsAreFinite, LimitsAssumption
    <2>3. CASE ip # IpOf[b]
      <3>1. OfIp(failures, ip)' = OfIp(failures, ip) /\ IpTries(ip)' \subseteq IpTries(ip)
        BY <2>3 DEF IpTries, Guessing, OfIp, Recent
      <3>2. Cardinality(IpTries(ip)') \in Nat /\ Cardinality(IpTries(ip)') <= Cardinality(IpTries(ip))
        BY <1>1, <3>1, CountsAreFinite, SubsetCounts
      <3> QED BY <1>1, <2>1, <3>1, <3>2, CountsAreFinite, LimitsAssumption
    <2> QED BY <2>2, <2>3
  <1>4. Recent(remembered)' \subseteq failures'
    BY <1>1 DEF GuessesInv, Recent
  <1> QED BY <1>2, <1>3, <1>4 DEF GuessesInv

(* Steps.                                                                  *)
LEMMA BrowserStep ==
    ASSUME SignInInv, NEW b \in Browsers, NEW new \in BrowserRow, Goes(b, new), UNCHANGED <<clock, account>>,
           RowsType', GuessesInv', BrowserSound(b)'
    PROVE  SignInInv'
  <1>1. SignInType /\ SessionsInv /\ browser' \in [Browsers -> BrowserRow] /\ \A o \in Browsers \ {b} : browser'[o] = browser[o]
    BY GoesOnly DEF SignInInv, SignInType
  <1>2. SignInType'
    BY <1>1 DEF SignInType
  <1>3. \A o \in Browsers \ {b} : BrowserSound(o)'
    BY <1>1 DEF SessionsInv, BrowserSound, TokenSound, Current
  <1> QED BY <1>1, <1>2, <1>3 DEF SignInInv, SessionsInv

LEMMA QuietBrowserStep ==
    ASSUME SignInInv, NEW b \in Browsers, NEW new \in BrowserRow, Goes(b, new),
           UNCHANGED <<clock, account, failures, remembered>>, BrowserSound(b)',
           new.stage \in {"counted", "failed"} => Guessing(b) /\ new.name = browser[b].name
    PROVE  SignInInv'
  <1>1. SignInType /\ GuessesInv /\ browser'[b] = new /\ \A o \in Browsers \ {b} : browser'[o] = browser[o]
    BY GoesOnly DEF SignInInv, SignInType
  <1>2. \A o \in Browsers : Guessing(o)' => Guessing(o) /\ browser'[o].name = browser[o].name
    BY <1>1 DEF Guessing
  <1>3. /\ \A n : OfName(failures, n)' \subseteq OfName(failures, n)
        /\ \A ip : OfIp(failures, ip)' \subseteq OfIp(failures, ip)
        /\ Recent(remembered)' \subseteq failures'
    BY <1>1 DEF OfName, OfIp, Recent, GuessesInv
  <1>4. RowsType'
    BY <1>1 DEF SignInType, RowsType
  <1>5. GuessesInv'
    BY <1>2, <1>3, <1>4, GuessesShrink DEF RowsType
  <1> QED BY <1>4, <1>5, BrowserStep

LEMMA HalfALife == (RefreshTtl \div 2) \in Nat /\ (RefreshTtl \div 2) < RefreshTtl
  BY TtlAssumption

(* Tokens of a password that is the one of now, for all that is known.     *)
LEMMA TokensSound ==
    ASSUME SignInInv, NEW b \in Browsers, NEW new \in BrowserRow, NEW refresh \in Token,
           Goes(b, new), UNCHANGED <<clock, account>>, new.stage = "idle",
           \/ /\ new.cookie = refresh /\ new.used = clock
              /\ new.access = Issued(refresh.name, AccessTtl, refresh.password, refresh.late)
           \/ new.cookie = browser[b].cookie /\ new.access = browser[b].access /\ new.used = browser[b].used,
           refresh.iat <= clock, ~refresh.late => Current(refresh.name, refresh.password),
           refresh.exp > clock + (RefreshTtl \div 2)
    PROVE  BrowserSound(b)'
  <1>1. BrowserSound(b) /\ browser'[b] = new /\ clock \in Nat
    BY GoesOnly DEF SignInInv, SignInType, SessionsInv
  <1>2. CASE /\ new.cookie = refresh /\ new.used = clock
             /\ new.access = Issued(refresh.name, AccessTtl, refresh.password, refresh.late)
    <2>1. TokenSound(new.cookie)'
      BY <1>1, <1>2 DEF TokenSound, Current
    <2>2. TokenSound(new.access)'
      <3>1. new.access.iat = clock /\ new.access.name = refresh.name /\ new.access.password = refresh.password
            /\ (~new.access.late => ~refresh.late)
        BY <1>2 DEF Issued
      <3> QED BY <1>1, <3>1 DEF TokenSound, Current
    <2>3. new.used <= clock /\ new.cookie.exp > new.used + (RefreshTtl \div 2)
      BY <1>1, <1>2
    <2> QED BY <1>1, <2>1, <2>2, <2>3 DEF BrowserSound
  <1>3. CASE new.cookie = browser[b].cookie /\ new.access = browser[b].access /\ new.used = browser[b].used
    BY <1>1, <1>3 DEF BrowserSound, TokenSound, Current
  <1> QED BY <1>2, <1>3

LEMMA LoginStep ==
    ASSUME SignInInv, NEW b \in Browsers,
           \/ \E n \in UserNames, guess \in Passwords : CountFailures(b, n, guess)
           \/ FindUser(b) \/ RecordFailure(b) \/ ClearFailures(b) \/ IssueTokens(b)
    PROVE  SignInInv'
  <1>1. /\ browser[b] \in BrowserRow /\ clock \in Nat /\ Passwords \subseteq Nat
        /\ BrowserSound(b) /\ SignInType /\ GuessesInv /\ browser \in [Browsers -> BrowserRow]
    BY SignInBounds DEF SignInInv, SignInType, SessionsInv, Passwords
  <1>2. ASSUME NEW n \in UserNames, NEW guess \in Passwords, CountFailures(b, n, guess)
        PROVE  SignInInv'
    <2> DEFINE new == [browser[b] EXCEPT !.stage = "counted", !.name = n, !.guess = guess, !.late = FALSE]
    <2>1. /\ new \in BrowserRow /\ new.stage = "counted" /\ new.name = n
          /\ new.cookie = browser[b].cookie /\ new.access = browser[b].access /\ new.used = browser[b].used
      BY <1>1 DEF BrowserRow
    <2>2. Goes(b, new) /\ UNCHANGED <<clock, account, failures, remembered>> /\ ~Throttled(n, IpOf[b])
      BY <1>2 DEF CountFailures
    <2> HIDE DEF new
    <2>3. browser'[b] = new /\ \A o \in Browsers \ {b} : browser'[o] = browser[o]
      BY <1>1, <2>2, GoesOnly
    <2>4. BrowserSound(b)'
      BY <1>1, <2>1, <2>2, <2>3 DEF BrowserSound, TokenSound, Current
    <2>5. GuessesInv'
      BY <2>1, <2>2, <2>3, GuessesCount
    <2>6. RowsType'
      BY <1>1, <2>2 DEF SignInType, RowsType
    <2> QED BY <2>1, <2>2, <2>4, <2>5, <2>6, BrowserStep
  <1>3. CASE FindUser(b)
    <2> DEFINE new == [browser[b] EXCEPT !.stage = IF PasswordMatches(b) THEN "matched" ELSE "failed"]
    <2>1. /\ new \in BrowserRow /\ new.stage \in {"matched", "failed"} /\ new.name = browser[b].name
          /\ new.stage = "matched" => PasswordMatches(b)
          /\ new.guess = browser[b].guess
          /\ new.cookie = browser[b].cookie /\ new.access = browser[b].access /\ new.used = browser[b].used
      BY <1>1 DEF BrowserRow
    <2>2. Goes(b, new) /\ UNCHANGED <<clock, account, failures, remembered>> /\ Guessing(b)
      BY <1>3 DEF FindUser, Guessing
    <2> HIDE DEF new
    <2>3. browser'[b] = new
      BY <1>1, <2>2, GoesOnly
    <2>4. new.stage = "matched" => Current(new.name, new.guess)
      BY <2>1 DEF PasswordMatches, Current
    <2>5. BrowserSound(b)'
      BY <1>1, <2>1, <2>2, <2>3, <2>4 DEF BrowserSound, TokenSound, Current
    <2> QED BY <2>1, <2>2, <2>5, QuietBrowserStep
  <1>4. CASE RecordFailure(b)
    <2>1. PICK entered : /\ entered.name = browser[b].name /\ entered.ip = IpOf[b] /\ entered.at \in Nat
                         /\ failures' = failures \cup {entered} /\ remembered' = remembered \cup {entered}
      <3>1. PICK nr \in 1..MaxAttempts :
               LET entered == [nr |-> nr, name |-> browser[b].name, ip |-> IpOf[b], at |-> clock]
               IN failures' = failures \cup {entered} /\ remembered' = remembered \cup {entered}
        BY <1>4 DEF RecordFailure
      <3> DEFINE entered == [nr |-> nr, name |-> browser[b].name, ip |-> IpOf[b], at |-> clock]
      <3>2. entered.name = browser[b].name /\ entered.ip = IpOf[b] /\ entered.at \in Nat
        BY <1>1
      <3>3. failures' = failures \cup {entered} /\ remembered' = remembered \cup {entered}
        BY <3>1
      <3> HIDE DEF entered
      <3> QED BY <3>2, <3>3
    <2>2. Goes(b, Finished(b)) /\ UNCHANGED <<clock, account>> /\ browser[b].stage = "failed"
      BY <1>4 DEF RecordFailure
    <2>3. browser'[b] = Finished(b) /\ \A o \in Browsers \ {b} : browser'[o] = browser[o]
      BY <1>1, <2>2, GoesOnly
    <2>4. ~Guessing(b)'
      BY <1>1, <2>3, FinishedType DEF Guessing
    <2>5. GuessesInv'
      BY <2>1, <2>2, <2>3, <2>4, GuessesFail
    <2>6. BrowserSound(b)'
      BY <1>1, <2>2, <2>3, FinishedType DEF BrowserSound, TokenSound, Current
    <2>7. RowsType'
      BY <1>1, <2>1, FS_AddElement DEF SignInType, RowsType
    <2> QED BY <1>1, <2>2, <2>5, <2>6, <2>7, FinishedType, BrowserStep
  <1>5. CASE ClearFailures(b)
    <2> DEFINE new == [browser[b] EXCEPT !.stage = "cleared"]
    <2>1. /\ new \in BrowserRow /\ new.stage = "cleared" /\ new.name = browser[b].name
          /\ new.guess = browser[b].guess /\ (new.late => browser[b].late) /\ (browser[b].late => new.late)
          /\ new.cookie = browser[b].cookie /\ new.access = browser[b].access /\ new.used = browser[b].used
      BY <1>1 DEF BrowserRow
    <2>2. Goes(b, new) /\ UNCHANGED <<clock, account>> /\ browser[b].stage = "matched"
      BY <1>5 DEF ClearFailures
    <2> HIDE DEF new
    <2>3. browser'[b] = new /\ \A o \in Browsers \ {b} : browser'[o] = browser[o]
      BY <1>1, <2>2, GoesOnly
    <2>4. BrowserSound(b)'
      BY <1>1, <2>1, <2>2, <2>3 DEF BrowserSound, TokenSound, Current
    <2>5. failures' = failures \ Mine(b, failures) /\ remembered' = remembered \ Mine(b, remembered)
      BY <1>5 DEF ClearFailures
    <2>6. RowsType'
      <3>1. remembered' \subseteq remembered /\ IsFiniteSet(remembered) /\ \A f \in remembered : f.at \in Nat
        BY <1>1, <2>5 DEF SignInType, RowsType
      <3>2. failures' \subseteq remembered'
        BY <1>1, <2>5 DEF SignInType, RowsType, Mine
      <3>3. IsFiniteSet(remembered')
        BY <3>1, SubsetCounts
      <3> QED BY <3>1, <3>2, <3>3 DEF RowsType
    <2>7. \A o \in Browsers : Guessing(o)' => Guessing(o) /\ browser'[o].name = browser[o].name
      BY <2>1, <2>3 DEF Guessing
    <2>8. /\ \A n : OfName(failures, n)' \subseteq OfName(failures, n)
          /\ \A ip : OfIp(failures, ip)' \subseteq OfIp(failures, ip)
      BY <2>2, <2>5 DEF OfName, OfIp, Recent
    <2>9. Recent(remembered)' \subseteq failures'
      BY <1>1, <2>2, <2>5 DEF GuessesInv, Recent, Mine
    <2>10. GuessesInv'
      BY <2>6, <2>7, <2>8, <2>9, GuessesShrink DEF RowsType
    <2> QED BY <2>1, <2>2, <2>4, <2>6, <2>10, BrowserStep
  <1>6. CASE IssueTokens(b)
    <2> DEFINE refresh == Issued(browser[b].name, RefreshTtl, browser[b].guess, browser[b].late)
    <2>1. refresh \in Token
      BY <1>1, IssuedType, TtlAssumption DEF BrowserRow
    <2>2. GetsTokens(b, refresh) /\ browser[b].stage = "cleared" /\ UNCHANGED <<clock, account, failures, remembered>>
      BY <1>6 DEF IssueTokens
    <2>3. refresh.iat <= clock /\ refresh.exp > clock + (RefreshTtl \div 2)
      BY <1>1, HalfALife, TtlAssumption DEF Issued
    <2>4. ~refresh.late => Current(refresh.name, refresh.password)
      BY <1>1, <2>2 DEF Issued, BrowserSound
    <2> HIDE DEF refresh
    <2>5. PICK new \in BrowserRow :
              /\ Goes(b, new) /\ new.stage = "idle" /\ new.name = browser[b].name
              /\ \/ /\ new.cookie = refresh /\ new.used = clock
                    /\ new.access = Issued(refresh.name, AccessTtl, refresh.password, refresh.late)
                 \/ new.cookie = browser[b].cookie /\ new.access = browser[b].access /\ new.used = browser[b].used
      BY <1>1, <2>1, <2>2, GetsTokensType
    <2>6. BrowserSound(b)'
      BY <2>1, <2>2, <2>3, <2>4, <2>5, TokensSound
    <2> QED BY <2>2, <2>5, <2>6, QuietBrowserStep
  <1> QED BY <1>2, <1>3, <1>4, <1>5, <1>6

LEMMA SessionStep ==
    ASSUME SignInInv, NEW b \in Browsers, CheckRefresh(b) \/ Refresh(b) \/ Logout(b)
    PROVE  SignInInv'
  <1>1. /\ browser[b] \in BrowserRow /\ clock \in Nat /\ browser \in [Browsers -> BrowserRow]
        /\ BrowserSound(b) /\ SignInType
    BY DEF SignInInv, SignInType, SessionsInv
  <1>2. CASE CheckRefresh(b)
    <2> DEFINE new == [browser[b] EXCEPT !.stage = "checked", !.late = browser[b].cookie.late]
    <2>1. browser[b].cookie # NoToken /\ browser[b].cookie \in Token
          /\ ~(browser[b].cookie.iat < account[browser[b].cookie.name].updated)
      BY <1>1, <1>2 DEF CheckRefresh, Accepted, Decodes, BrowserRow
    <2>2. browser[b].cookie.late \in BOOLEAN
      BY <2>1 DEF Token
    <2>3. /\ new \in BrowserRow /\ new.stage = "checked" /\ new.late = browser[b].cookie.late
          /\ new.cookie = browser[b].cookie /\ new.access = browser[b].access /\ new.used = browser[b].used
      BY <1>1, <2>2 DEF BrowserRow
    <2>4. Goes(b, new) /\ UNCHANGED <<clock, account, failures, remembered>>
      BY <1>2 DEF CheckRefresh
    <2> HIDE DEF new
    <2>5. browser'[b] = new
      BY <1>1, <2>4, GoesOnly
    <2>6. ~new.late => Current(new.cookie.name, new.cookie.password)
      BY <1>1, <2>1, <2>3 DEF BrowserSound, TokenSound
    <2>7. BrowserSound(b)'
      BY <1>1, <2>1, <2>3, <2>4, <2>5, <2>6 DEF BrowserSound, TokenSound, Current
    <2> QED BY <2>3, <2>4, <2>7, QuietBrowserStep
  <1>3. CASE Refresh(b)
    <2> DEFINE old     == browser[b].cookie
               renewed == Issued(old.name, RefreshTtl, old.password, browser[b].late)
               same    == [old EXCEPT !.late = browser[b].late]
               refresh == IF Renews(old) THEN renewed ELSE same
    <2>1. /\ browser[b].stage = "checked" /\ GetsTokens(b, refresh)
          /\ UNCHANGED <<clock, account, failures, remembered>>
      BY <1>3 DEF Refresh
    <2>2. old \in Token /\ browser[b].late \in BOOLEAN /\ old.iat <= clock
      BY <1>1, <2>1 DEF BrowserSound, BrowserRow, TokenSound
    <2>3. ~browser[b].late => Current(old.name, old.password)
      BY <1>1, <2>1 DEF BrowserSound
    <2>4. /\ renewed \in Token /\ renewed.name = old.name /\ renewed.password = old.password
          /\ renewed.late = browser[b].late /\ renewed.iat = clock /\ renewed.exp = clock + RefreshTtl
      BY <1>1, <2>2, IssuedType, TtlAssumption DEF Issued, Token
    <2>5. /\ same \in Token /\ same.name = old.name /\ same.password = old.password
          /\ same.late = browser[b].late /\ same.iat = old.iat /\ same.exp = old.exp
      BY <2>2 DEF Token
    <2>6. ~Renews(old) => old.exp > clock + (RefreshTtl \div 2)
      BY <1>1, <2>2, HalfALife DEF Renews, Token
    <2> HIDE DEF renewed, same
    <2>7. /\ refresh \in Token /\ refresh.name = old.name /\ refresh.password = old.password
          /\ refresh.late = browser[b].late
      BY <2>4, <2>5
    <2>8. refresh.iat <= clock /\ refresh.exp > clock + (RefreshTtl \div 2)
      <3>1. CASE Renews(old)
        BY <1>1, <2>4, <3>1, HalfALife, TtlAssumption
      <3>2. CASE ~Renews(old)
        BY <2>2, <2>5, <2>6, <3>2
      <3> QED BY <3>1, <3>2
    <2> HIDE DEF refresh
    <2>9. ~refresh.late => Current(refresh.name, refresh.password)
      BY <2>3, <2>7
    <2> HIDE DEF old
    <2>10. PICK new \in BrowserRow :
              /\ Goes(b, new) /\ new.stage = "idle" /\ new.name = browser[b].name
              /\ \/ /\ new.cookie = refresh /\ new.used = clock
                    /\ new.access = Issued(refresh.name, AccessTtl, refresh.password, refresh.late)
                 \/ new.cookie = browser[b].cookie /\ new.access = browser[b].access /\ new.used = browser[b].used
      BY <1>1, <2>1, <2>7, GetsTokensType
    <2>11. BrowserSound(b)'
      BY <2>1, <2>7, <2>8, <2>9, <2>10, TokensSound
    <2> QED BY <2>1, <2>10, <2>11, QuietBrowserStep
  <1>4. CASE Logout(b)
    <2> DEFINE new == [browser[b] EXCEPT !.cookie = NoToken, !.access = NoToken, !.used = 0]
    <2>1. new \in BrowserRow /\ new.stage = "idle" /\ new.cookie = NoToken /\ new.access = NoToken
      BY <1>1, <1>4 DEF BrowserRow, Logout
    <2>2. Goes(b, new) /\ UNCHANGED <<clock, account, failures, remembered>>
      BY <1>4 DEF Logout
    <2> HIDE DEF new
    <2>3. browser'[b] = new
      BY <1>1, <2>2, GoesOnly
    <2>4. BrowserSound(b)'
      BY <2>1, <2>3 DEF BrowserSound, TokenSound
    <2> QED BY <2>1, <2>2, <2>4, QuietBrowserStep
  <1> QED BY <1>2, <1>3, <1>4

(* No request of a browser, and time: no guess is counted or written.      *)
LEMMA NothingGuessed ==
    ASSUME SignInInv, clock' \in Nat, clock <= clock', UNCHANGED remembered,
           failures' \in {failures, Recent(failures)}, failures' # failures => clock' = clock,
           \A o \in Browsers : browser'[o].stage = browser[o].stage /\ browser'[o].name = browser[o].name
    PROVE  GuessesInv' /\ RowsType'
  <1>1. /\ clock \in Nat /\ Window \in Nat /\ Recent(remembered) \subseteq failures /\ failures \subseteq remembered
        /\ IsFiniteSet(remembered) /\ \A f \in remembered : f.at \in Nat
    BY LimitsAssumption DEF SignInInv, SignInType, RowsType, GuessesInv
  <1>2. \A f \in remembered : f.at >= clock' - Window => f.at >= clock - Window
    BY <1>1
  <1>3. \A o \in Browsers : Guessing(o)' => Guessing(o) /\ browser'[o].name = browser[o].name
    BY DEF Guessing
  <1>4. failures' \subseteq failures /\ RowsType'
    BY <1>1 DEF RowsType, Recent
  <1>5. Recent(remembered)' \subseteq failures'
    BY <1>1, <1>2 DEF Recent
  <1>6. /\ \A n : OfName(failures, n)' \subseteq OfName(failures, n)
        /\ \A ip : OfIp(failures, ip)' \subseteq OfIp(failures, ip)
    BY <1>1, <1>2, <1>4 DEF OfName, OfIp, Recent
  <1>7. GuessesInv'
    BY <1>3, <1>4, <1>5, <1>6, GuessesShrink DEF RowsType
  <1> QED BY <1>4, <1>7
(* A password changes: tokens of this second and requests under way are late. *)
Belated(token, n) == IF token # NoToken /\ token.name = n /\ token.iat = clock
                     THEN [token EXCEPT !.late = TRUE] ELSE token

LEMMA TouchedToken ==
    ASSUME NEW n \in UserNames, NEW t \in Token \cup {NoToken}
    PROVE  /\ Belated(t, n) \in Token \cup {NoToken} /\ (t = NoToken <=> Belated(t, n) = NoToken)
           /\ t # NoToken => /\ Belated(t, n).name = t.name /\ Belated(t, n).iat = t.iat /\ Belated(t, n).exp = t.exp
                             /\ Belated(t, n).password = t.password
                             /\ ~Belated(t, n).late => ~t.late /\ ~(t.name = n /\ t.iat = clock)
  <1>1. CASE t # NoToken /\ t.name = n /\ t.iat = clock
    <2>1. /\ [t EXCEPT !.late = TRUE] \in Token /\ [t EXCEPT !.late = TRUE].name = t.name
          /\ [t EXCEPT !.late = TRUE].iat = t.iat /\ [t EXCEPT !.late = TRUE].exp = t.exp
          /\ [t EXCEPT !.late = TRUE].password = t.password /\ [t EXCEPT !.late = TRUE].late
      BY <1>1 DEF Token
    <2> QED BY <1>1, <2>1, NoTokenAssumption DEF Belated
  <1>2. CASE ~(t # NoToken /\ t.name = n /\ t.iat = clock)
    BY <1>2 DEF Belated
  <1> QED BY <1>1, <1>2

LEMMA PasswordStep ==
    ASSUME SignInInv, NEW n \in UserNames, SavePassword(n)
    PROVE  SignInInv'
  <1>1. /\ clock \in Nat /\ account \in [UserNames -> [password: Nat, updated: Nat]]
        /\ browser \in [Browsers -> BrowserRow] /\ UNCHANGED <<clock, failures, remembered>>
        /\ SessionsInv
    BY DEF SignInInv, SignInType, SavePassword
  <1>2. /\ account' \in [UserNames -> [password: Nat, updated: Nat]]
        /\ account'[n].updated = clock /\ \A m \in UserNames \ {n} : account'[m] = account[m]
    <2> DEFINE saved == [password |-> account[n].password + 1, updated |-> clock]
    <2>1. account' = [account EXCEPT ![n] = saved]
      BY DEF SavePassword
    <2>2. saved \in [password: Nat, updated: Nat] /\ saved.updated = clock
      BY <1>1
    <2> HIDE DEF saved
    <2> QED BY <1>1, <2>1, <2>2
  <1> DEFINE Sound(t) == t # NoToken =>
                            /\ t.iat <= clock
                            /\ ~t.late /\ ~(t.iat < account'[t.name].updated) => account'[t.name].password = t.password
  <1>3. ASSUME NEW b \in Browsers
        PROVE  /\ browser'[b].stage = browser[b].stage /\ browser'[b].name = browser[b].name
               /\ browser'[b] \in BrowserRow /\ BrowserSound(b)'
    <2> DEFINE x       == browser[b]
               y       == browser'[b]
               meets   == x.stage # "idle" /\ (x.name = n \/ (x.cookie # NoToken /\ x.cookie.name = n))
    <2>1. x \in BrowserRow /\ BrowserSound(b)
      BY <1>1 DEF SessionsInv
    <2>2. y = [x EXCEPT !.late = x.late \/ meets, !.cookie = Belated(x.cookie, n), !.access = Belated(x.access, n)]
      BY <1>1 DEF SavePassword, Belated
    <2>3. /\ x.cookie \in Token \cup {NoToken} /\ x.access \in Token \cup {NoToken} /\ x.late \in BOOLEAN
          /\ x.used \in Nat /\ x.name \in UserNames
      BY <2>1 DEF BrowserRow
    <2>4. /\ y.stage = x.stage /\ y.name = x.name /\ y.guess = x.guess /\ y.used = x.used
          /\ y.late = (x.late \/ meets) /\ y.cookie = Belated(x.cookie, n) /\ y.access = Belated(x.access, n)
      BY <2>1, <2>2 DEF BrowserRow
    <2>5. y \in BrowserRow
      <3>1. Belated(x.cookie, n) \in Token \cup {NoToken} /\ Belated(x.access, n) \in Token \cup {NoToken}
            /\ (x.late \/ meets) \in BOOLEAN
        BY <2>3, TouchedToken
      <3> QED BY <2>1, <2>2, <3>1 DEF BrowserRow
    <2>6. ASSUME NEW t \in Token \cup {NoToken}, TokenSound(t)
          PROVE  Sound(Belated(t, n))
      <3> SUFFICES ASSUME t # NoToken
                   PROVE  Sound(Belated(t, n))
        BY TouchedToken
      <3> DEFINE u == Belated(t, n)
      <3>1. /\ u.name = t.name /\ u.iat = t.iat /\ u.password = t.password /\ t \in Token
            /\ ~u.late => ~t.late /\ ~(t.name = n /\ t.iat = clock)
        BY TouchedToken
      <3>2. t.iat \in Nat /\ t.iat <= clock /\ t.name \in UserNames
        BY <2>6 DEF Token, TokenSound
      <3>3. t.name = n /\ t.iat # clock => t.iat < account'[t.name].updated
        BY <1>1, <1>2, <3>2
      <3>4. t.name # n => account'[t.name] = account[t.name]
        BY <1>2, <3>2
      <3>5. ASSUME ~u.late, ~(u.iat < account'[u.name].updated)
            PROVE  account'[u.name].password = u.password
        BY <2>6, <3>1, <3>3, <3>4, <3>5 DEF TokenSound, Current
      <3> HIDE DEF u
      <3> QED BY <3>1, <3>2, <3>5 DEF u
    <2> HIDE DEF x, y
    <2>7. Sound(y.cookie) /\ Sound(y.access)
      <3>1. TokenSound(x.cookie) /\ TokenSound(x.access)
        BY <2>1 DEF BrowserSound, x
      <3>2. Sound(Belated(x.cookie, n)) /\ Sound(Belated(x.access, n))
        BY <2>3, <2>6, <3>1
      <3> QED BY <2>4, <3>2
    <2>8. x.stage \in {"matched", "cleared"} /\ ~y.late => account'[x.name].password = x.guess
      <3>1. x.stage \in {"matched", "cleared"} /\ ~y.late => ~x.late /\ x.name # n
        BY <2>4
      <3>2. x.stage \in {"matched", "cleared"} /\ ~x.late => Current(x.name, x.guess)
        BY <2>1 DEF BrowserSound, x
      <3> QED BY <1>2, <2>3, <3>1, <3>2 DEF Current
    <2>9. x.stage = "checked" => /\ y.cookie # NoToken
                                 /\ ~y.late => account'[y.cookie.name].password = y.cookie.password
      <3>1. x.stage = "checked" => x.cookie # NoToken /\ (~x.late => Current(x.cookie.name, x.cookie.password))
        BY <2>1 DEF BrowserSound, x
      <3>2. x.stage = "checked" /\ ~y.late => ~x.late /\ x.cookie.name # n
        BY <2>4, <3>1
      <3>3. x.cookie # NoToken => x.cookie.name \in UserNames
        BY <2>3 DEF Token
      <3>4. x.cookie # NoToken => y.cookie # NoToken /\ y.cookie.name = x.cookie.name /\ y.cookie.password = x.cookie.password
        BY <2>3, <2>4, TouchedToken
      <3> QED BY <1>2, <3>1, <3>2, <3>3, <3>4 DEF Current
    <2>10. y.cookie # NoToken => y.used <= clock /\ y.cookie.exp > y.used + (RefreshTtl \div 2)
      <3>1. x.cookie # NoToken => x.used <= clock /\ x.cookie.exp > x.used + (RefreshTtl \div 2)
        BY <2>1 DEF BrowserSound, x
      <3> QED BY <2>3, <2>4, <3>1, TouchedToken
    <2>11. BrowserSound(b)'
      BY <1>1, <2>4, <2>7, <2>8, <2>9, <2>10 DEF BrowserSound, TokenSound, Current, x, y
    <2> QED BY <2>4, <2>5, <2>11 DEF x, y
  <1>4. GuessesInv' /\ RowsType'
    <2>1. clock' \in Nat /\ clock <= clock' /\ UNCHANGED remembered /\ failures' \in {failures, Recent(failures)}
          /\ (failures' # failures => clock' = clock)
      BY <1>1
    <2>2. \A o \in Browsers : browser'[o].stage = browser[o].stage /\ browser'[o].name = browser[o].name
      BY <1>3
    <2> QED BY <2>1, <2>2, NothingGuessed
  <1>5. SessionsInv'
    BY <1>1, <1>2, <1>3 DEF SessionsInv
  <1>6. browser' \in [Browsers -> BrowserRow]
    BY <1>3 DEF SavePassword
  <1> QED BY <1>1, <1>2, <1>4, <1>5, <1>6 DEF SignInInv, SignInType

LEMMA SignInStep ==
    ASSUME SignInInv, [SignInNext]_signInVars
    PROVE  SignInInv'
  <1>1. clock \in Nat /\ SignInType /\ SessionsInv /\ account \in [UserNames -> [password: Nat, updated: Nat]]
    BY DEF SignInInv, SignInType
  <1>2. ASSUME NEW b \in Browsers,
               \/ \E n \in UserNames, guess \in Passwords : CountFailures(b, n, guess)
               \/ FindUser(b) \/ RecordFailure(b) \/ ClearFailures(b) \/ IssueTokens(b)
               \/ CheckRefresh(b) \/ Refresh(b) \/ Logout(b)
        PROVE  SignInInv'
    BY <1>2, LoginStep, SessionStep
  <1>3. ASSUME NEW n \in UserNames, CreateUser(n) \/ SetPassword(n)
        PROVE  SignInInv'
    BY <1>3, PasswordStep DEF CreateUser, SetPassword
  <1>4. ASSUME clock' \in Nat, clock <= clock', UNCHANGED <<account, remembered, browser>>,
               failures' \in {failures, Recent(failures)}, failures' # failures => clock' = clock
        PROVE  SignInInv'
    <2>1. GuessesInv' /\ RowsType'
      BY <1>4, NothingGuessed
    <2>2. SignInType'
      BY <1>1, <1>4, <2>1 DEF SignInType
    <2>3. ASSUME NEW b \in Browsers
          PROVE  BrowserSound(b)'
      <3>1. browser[b] \in BrowserRow /\ BrowserSound(b)
        BY <1>1 DEF SessionsInv, SignInType
      <3>2. ASSUME NEW t \in Token \cup {NoToken}, TokenSound(t)
            PROVE  t # NoToken => t.iat <= clock' /\
                      (~t.late /\ ~(t.iat < account[t.name].updated) => Current(t.name, t.password))
        <4>1. t # NoToken => t.iat \in Nat /\ t.iat <= clock
          BY <3>2 DEF TokenSound, Token
        <4>2. t # NoToken => t.iat <= clock'
          BY <1>1, <1>4, <4>1
        <4> QED BY <3>2, <4>2 DEF TokenSound
      <3>3. /\ TokenSound(browser[b].cookie)' /\ TokenSound(browser[b].access)'
        BY <1>4, <3>1, <3>2 DEF BrowserSound, BrowserRow, TokenSound, Current
      <3>4. browser[b].used \in Nat
        BY <3>1 DEF BrowserRow
      <3>5. browser[b].used <= clock => browser[b].used <= clock'
        BY <1>1, <1>4, <3>4
      <3> QED BY <1>4, <3>1, <3>3, <3>5 DEF BrowserSound, Current
    <2>4. \A n \in UserNames : account[n].updated <= clock'
      BY <1>1, <1>4 DEF SessionsInv
    <2> QED BY <1>4, <2>1, <2>2, <2>3, <2>4 DEF SignInInv, SessionsInv
  <1>5. CASE Purge
    <2>1. /\ clock' \in Nat /\ clock <= clock' /\ UNCHANGED <<account, remembered, browser>>
          /\ failures' \in {failures, Recent(failures)} /\ (failures' # failures => clock' = clock)
      BY <1>1, <1>5 DEF Purge
    <2> QED BY <1>4, <2>1
  <1>6. CASE Tick
    <2>1. /\ clock' \in Nat /\ clock <= clock' /\ UNCHANGED <<account, remembered, browser>>
          /\ failures' \in {failures, Recent(failures)} /\ (failures' # failures => clock' = clock)
      BY <1>1, <1>6 DEF Tick
    <2> QED BY <1>4, <2>1
  <1>7. CASE UNCHANGED signInVars
    <2>1. /\ clock' \in Nat /\ clock <= clock' /\ UNCHANGED <<account, remembered, browser>>
          /\ failures' \in {failures, Recent(failures)} /\ (failures' # failures => clock' = clock)
      BY <1>1, <1>7 DEF signInVars
    <2> QED BY <1>4, <2>1
  <1> QED BY <1>2, <1>3, <1>5, <1>6, <1>7 DEF SignInNext

LEMMA SignInStarts == SignInInit => SignInInv
  <1> SUFFICES ASSUME SignInInit
               PROVE  SignInInv
    OBVIOUS
  <1>1. clock = 0 /\ failures = {} /\ remembered = {}
    BY DEF SignInInit
  <1>2. /\ account \in [UserNames -> [password: Nat, updated: Nat]]
        /\ \A n \in UserNames : account[n].updated = 0
    BY DEF SignInInit
  <1>3. ASSUME NEW b \in Browsers
        PROVE  /\ browser[b] \in BrowserRow /\ browser[b].stage = "idle"
               /\ browser[b].cookie = NoToken /\ browser[b].access = NoToken
    <2>1. PICK n \in UserNames : browser[b] = NewBrowser(n)
      BY DEF SignInInit
    <2> QED BY <2>1 DEF NewBrowser, BrowserRow
  <1>4. browser \in [Browsers -> BrowserRow]
    BY <1>3 DEF SignInInit
  <1>5. SignInType
    BY <1>1, <1>2, <1>4, FS_EmptySet DEF SignInType, RowsType
  <1>6. GuessesInv
    <2>1. /\ \A n : NameTries(n) = {} /\ OfName(failures, n) = {}
          /\ \A ip : IpTries(ip) = {} /\ OfIp(failures, ip) = {}
          /\ Recent(remembered) = {}
      BY <1>1, <1>3 DEF NameTries, IpTries, Guessing, OfName, OfIp, Recent
    <2>2. Cardinality({}) = 0
      BY FS_EmptySet
    <2> QED BY <1>5, <2>1, <2>2, CountsAreFinite, LimitsAssumption DEF GuessesInv
  <1>7. SessionsInv
    BY <1>1, <1>2, <1>3 DEF SessionsInv, BrowserSound, TokenSound
  <1> QED BY <1>5, <1>6, <1>7 DEF SignInInv

LEMMA SignInInvHolds == SignInSpec => []SignInInv
  BY SignInStarts, SignInStep, PTL DEF SignInSpec

(* Nobody gets more wrong guesses into a window than the limits and, on top *)
(* of them, one of each browser whose request was counted before another's  *)
(* failure was written (login, purge).                                      *)
THEOREM GuessingIsBounded == SignInSpec => []FailuresBounded
  <1>1. SignInInv => FailuresBounded
    <2> SUFFICES ASSUME SignInInv
                 PROVE  FailuresBounded
      OBVIOUS
    <2>1. SignInType /\ GuessesInv
      BY DEF SignInInv
    <2>2. ASSUME NEW n \in UserNames
          PROVE  Cardinality(OfName(remembered, n)) < MaxPerName + Cardinality(Browsers)
      <3>1. OfName(remembered, n) \subseteq OfName(failures, n)
        BY <2>1 DEF GuessesInv, OfName, Recent
      <3>2. /\ Cardinality(OfName(remembered, n)) \in Nat
            /\ Cardinality(OfName(remembered, n)) <= Cardinality(OfName(failures, n))
        BY <2>1, <3>1, CountsAreFinite, SubsetCounts
      <3>3. Cardinality(OfName(failures, n)) + Cardinality(NameTries(n)) < MaxPerName + Cardinality(Browsers)
        BY <2>1 DEF GuessesInv
      <3> QED BY <2>1, <3>2, <3>3, CountsAreFinite, LimitsAssumption
    <2>3. ASSUME NEW ip \in Ips
          PROVE  Cardinality(OfIp(remembered, ip)) < MaxPerIp + Cardinality(OfAddress(ip))
      <3>1. OfIp(remembered, ip) \subseteq OfIp(failures, ip)
        BY <2>1 DEF GuessesInv, OfIp, Recent
      <3>2. /\ Cardinality(OfIp(remembered, ip)) \in Nat
            /\ Cardinality(OfIp(remembered, ip)) <= Cardinality(OfIp(failures, ip))
        BY <2>1, <3>1, CountsAreFinite, SubsetCounts
      <3>3. Cardinality(OfIp(failures, ip)) + Cardinality(IpTries(ip)) < MaxPerIp + Cardinality(OfAddress(ip))
        BY <2>1, <2>3 DEF GuessesInv
      <3> QED BY <2>1, <3>2, <3>3, CountsAreFinite, LimitsAssumption
    <2> QED BY <2>2, <2>3 DEF FailuresBounded, OfAddress
  <1> QED BY <1>1, SignInInvHolds, PTL

(* A session ends with its password, unless a token of it was issued in the  *)
(* second of the change or by a request the change ran into (signed_in_user). *)
THEOREM SessionsEnd == SignInSpec => []SessionsEndWithPassword
  <1>1. SignInInv => SessionsEndWithPassword
    <2> SUFFICES ASSUME SignInInv, NEW b \in Browsers, NEW t \in {browser[b].cookie, browser[b].access},
                        Accepted(t), ~t.late
                 PROVE  t.password = account[t.name].password
      BY DEF SessionsEndWithPassword
    <2>1. TokenSound(t)
      BY DEF SignInInv, SessionsInv, BrowserSound
    <2> QED BY <2>1 DEF TokenSound, Accepted, Decodes, Current
  <1> QED BY <1>1, SignInInvHolds, PTL

(* What guesses, passwords and time may do to a session (login, refresh,     *)
(* logout, purge): all three of the promises of signing in.                 *)
THEOREM SignInAlwaysHolds == SignInSpec => []SignInHolds
  <1>1. SignInInv => KeptInUse
    <2> SUFFICES ASSUME SignInInv, NEW b \in Browsers, browser[b].cookie # NoToken,
                        clock - browser[b].used <= RefreshTtl \div 2
                 PROVE  clock < browser[b].cookie.exp
      BY DEF KeptInUse
    <2>1. browser[b] \in BrowserRow /\ BrowserSound(b) /\ clock \in Nat
      BY DEF SignInInv, SignInType, SessionsInv
    <2>2. /\ browser[b].used \in Nat /\ browser[b].cookie.exp \in Nat
          /\ browser[b].cookie.exp > browser[b].used + (RefreshTtl \div 2)
      BY <2>1 DEF BrowserRow, Token, BrowserSound
    <2> QED BY <2>1, <2>2, HalfALife
  <1> QED BY <1>1, SignInInvHolds, GuessingIsBounded, SessionsEnd, PTL DEF SignInHolds

-----------------------------------------------------------------------------
(* API keys: nothing but what a request changed is written back.           *)

KeyType ==
    /\ keyClock \in Nat
    /\ key \in [Keys -> [made: BOOLEAN, deleted: Nat, used: Int]]
    /\ call \in [KeyCalls -> [stage: {"none", "touching", "deleting"}, of: Keys \cup {"none"}, deleted: Nat, now: Nat]]

LEMMA KeyStep ==
    ASSUME KeyType, [KeyNext]_keyVars
    PROVE  /\ KeyType'
           /\ \A k \in Keys : key[k].made /\ Deleted(k) => key'[k].deleted <= keyClock'
  <1> DEFINE Rows  == [made: BOOLEAN, deleted: Nat, used: Int]
             Calls == [stage: {"none", "touching", "deleting"}, of: Keys \cup {"none"}, deleted: Nat, now: Nat]
  <1>1. keyClock \in Nat /\ After \in Nat /\ key \in [Keys -> Rows] /\ call \in [KeyCalls -> Calls]
    BY ApiKeysAssumption DEF KeyType, After
  <1>2. \A k \in Keys : key[k].deleted \in Nat
    BY <1>1
  <1>3. FreeCall \in Calls
    BY <1>1 DEF FreeCall
  <1>4. ASSUME keyClock' \in Nat, keyClock <= keyClock', key' \in [Keys -> Rows], call' \in [KeyCalls -> Calls],
               \A k \in Keys : key[k].made => key'[k].deleted \in {key[k].deleted, keyClock}
        PROVE  /\ KeyType'
               /\ \A k \in Keys : key[k].made /\ Deleted(k) => key'[k].deleted <= keyClock'
    BY <1>1, <1>2, <1>4 DEF KeyType, Deleted
  <1>5. ASSUME NEW k \in Keys, CreateKey(k)
        PROVE  key' \in [Keys -> Rows] /\ \A o \in Keys : key[o].made => key'[o] = key[o]
    <2>1. PICK expires \in (keyClock + 1)..After : key' = [key EXCEPT ![k] = [key[k] EXCEPT !.made = TRUE, !.deleted = expires]]
      BY <1>5 DEF CreateKey
    <2> DEFINE new == [key[k] EXCEPT !.made = TRUE, !.deleted = expires]
    <2>2. expires \in Nat
      BY <1>1
    <2>3. new \in Rows
      BY <1>1, <2>2
    <2>4. key' = [key EXCEPT ![k] = new] /\ ~key[k].made
      BY <1>5, <2>1 DEF CreateKey
    <2> HIDE DEF new
    <2> QED BY <1>1, <2>3, <2>4
  <1>6. ASSUME NEW c \in KeyCalls, TouchKey(c)
        PROVE  key' \in [Keys -> Rows] /\ \A o \in Keys : key'[o].deleted = key[o].deleted
    <2>1. call[c].now \in Nat
      BY <1>1
    <2>2. key' = [key EXCEPT ![call[c].of] = [key[call[c].of] EXCEPT !.used = call[c].now]]
      BY <1>6 DEF TouchKey, Touched
    <2>3. ASSUME NEW o \in Keys
          PROVE  [key[o] EXCEPT !.used = call[c].now] \in Rows /\ [key[o] EXCEPT !.used = call[c].now].deleted = key[o].deleted
      BY <1>1, <2>1
    <2> QED BY <1>1, <2>2, <2>3
  <1>7. ASSUME NEW c \in KeyCalls, DeleteKey(c)
        PROVE  key' \in [Keys -> Rows] /\ \A o \in Keys : key'[o].deleted \in {key[o].deleted, keyClock}
    BY <1>1, <1>7 DEF DeleteKey
  <1>8. ASSUME NEW c \in KeyCalls, NEW k \in Keys, UseKey(c, k) \/ FindKey(c, k)
        PROVE  call' \in [KeyCalls -> Calls] /\ UNCHANGED <<keyClock, key>>
    <2>1. PICK stage \in {"touching", "deleting"} :
             call' = [call EXCEPT ![c] = [stage |-> stage, of |-> k, deleted |-> key[k].deleted, now |-> keyClock]]
      BY <1>8 DEF UseKey, FindKey
    <2>2. [stage |-> stage, of |-> k, deleted |-> key[k].deleted, now |-> keyClock] \in Calls
      BY <1>1, <1>2
    <2> QED BY <1>1, <1>8, <2>1, <2>2 DEF UseKey, FindKey
  <1>9. CASE \E k \in Keys : CreateKey(k)
    <2>1. UNCHANGED <<keyClock, call>>
      BY <1>9 DEF CreateKey
    <2> QED BY <1>1, <1>4, <1>5, <1>9, <2>1
  <1>10. CASE \E c \in KeyCalls : TouchKey(c) \/ DeleteKey(c)
    <2>1. UNCHANGED keyClock /\ call' \in [KeyCalls -> Calls]
      BY <1>1, <1>3, <1>10 DEF TouchKey, DeleteKey
    <2> QED BY <1>1, <1>4, <1>6, <1>7, <1>10, <2>1
  <1>11. CASE \E k \in Keys, c \in KeyCalls : UseKey(c, k) \/ FindKey(c, k)
    BY <1>1, <1>4, <1>8, <1>11
  <1>12. CASE KeyTick
    BY <1>1, <1>4, <1>12 DEF KeyTick
  <1>13. CASE UNCHANGED keyVars
    BY <1>1, <1>4, <1>13 DEF keyVars
  <1> QED BY <1>9, <1>10, <1>11, <1>12, <1>13 DEF KeyNext

(* A key that was deleted, or has expired, stays unusable, whatever requests *)
(* that read it before still save (authenticate_api_key, soft_delete).      *)
THEOREM RevokedKeysStayRevoked == KeySpec => RevokedForGood
  <1>1. KeyInit => KeyType
    BY ApiKeysAssumption DEF KeyInit, KeyType, After, NeverUsed, FreeCall
  <1>2. KeyType /\ [KeyNext]_keyVars => KeyType'
    BY KeyStep
  <1>3. KeyType /\ [KeyNext]_keyVars => [\A k \in Keys : key[k].made /\ Deleted(k) => key'[k].deleted <= keyClock']_keyVars
    BY KeyStep
  <1> QED BY <1>1, <1>2, <1>3, PTL DEF KeySpec, RevokedForGood

-----------------------------------------------------------------------------
(* The standing pages.  While a request asks the projects above, everything  *)
(* owed for its page is still on its list, and no claim but its own is on the *)
(* row, unless another claim crossed it.                                    *)

Payloads == [logs: SUBSET Logs, near: SUBSET PartOf]
PageRow  == [counted: {Cardinality(known) : known \in SUBSET Logs}, saw: Payloads, had: Payloads, old: BOOLEAN]

OverviewType ==
    /\ logs \in [Topics -> SUBSET Logs] /\ parts \subseteq PartOf
    /\ page \in [Topics -> PageRow \cup {NoPage}]
    /\ row \in [Topics -> [status: {"none", "pending", "claimed", "done", "failed"}, token: PageTokens \cup {Tokenless}]]
    /\ answers \subseteq [of: Topics, token: PageTokens, saw: Payloads]
    /\ storing \subseteq [of: Topics, token: PageTokens, moved: BOOLEAN, todo: SUBSET Topics, locked: BOOLEAN, gone: BOOLEAN]

SawAll(p)     == page[p] # NoPage => page[p].saw = page[p].had
Claimed(p, t) == row[p] = [status |-> "claimed", token |-> t]

TokensApart ==
    /\ \A a, b \in answers : a.of = b.of /\ a.token = b.token => a = b
    /\ \A a \in answers, s \in storing : a.of = s.of => a.token # s.token

Undisturbed(p) ==
    /\ row[p].status = "done" => SawAll(p) /\ \A d \in owed : d[1] # p
    /\ \A s \in storing : s.of = p =>
          /\ ~s.moved => SawAll(p)
          /\ \A d \in owed : d[1] = p => d[2] \in s.todo
          /\ row[p].status = "claimed" => row[p].token = s.token

OverviewInv == OverviewType /\ TokensApart /\ \A p \in Topics \ crossed : Undisturbed(p)

LEMMA PayloadsTyped ==
    ASSUME OverviewType, NEW p \in Topics
    PROVE  Payload(p) \in Payloads
  BY DEF OverviewType, Payload, Payloads

(* What a request for the page of q may do, while the requests that are at   *)
(* it strike nothing but q off their lists.                                *)
LEMMA AskStep ==
    ASSUME OverviewInv, NEW q \in Topics, row' = Requested(row, q), page' = Unpaged(page, q), answers' \subseteq answers,
           owed' = Reminded(q), UNCHANGED <<logs, parts, crossed>>,
           storing' \subseteq [of: Topics, token: PageTokens, moved: BOOLEAN, todo: SUBSET Topics, locked: BOOLEAN, gone: BOOLEAN],
           \A new \in storing' : \E s \in storing : /\ new.of = s.of /\ new.token = s.token /\ new.moved = s.moved
                                                    /\ s.todo \ {q} \subseteq new.todo
    PROVE  OverviewInv'
  <1>1. OverviewType /\ TokensApart
    BY DEF OverviewInv
  <1>2. /\ row' \in [Topics -> [status: {"none", "pending", "claimed", "done", "failed"}, token: PageTokens \cup {Tokenless}]]
        /\ \A p \in Topics : row'[p] = row[p] \/ row'[p].status \in {"none", "pending"}
        /\ row'[q].status # "done"
    <2>1. /\ [status |-> "pending", token |-> Tokenless] \in [status: {"none", "pending", "claimed", "done", "failed"}, token: PageTokens \cup {Tokenless}]
          /\ NoRow \in [status: {"none", "pending", "claimed", "done", "failed"}, token: PageTokens \cup {Tokenless}]
          /\ NoRow.status = "none"
      BY DEF NoRow
    <2>2. row' \in {row, [row EXCEPT ![q] = NoRow], [row EXCEPT ![q] = [status |-> "pending", token |-> Tokenless]]}
          /\ (row' = row => row[q].status \in {"pending", "claimed"} \/ row[q] = NoRow)
      BY <1>1 DEF Requested, OverviewType
    <2> QED BY <1>1, <2>1, <2>2 DEF OverviewType
  <1>3. page' \in [Topics -> PageRow \cup {NoPage}] /\ \A p \in Topics : page'[p] \in {page[p], NoPage}
    BY <1>1 DEF Unpaged, OverviewType
  <1>4. OverviewType'
    BY <1>1, <1>2, <1>3 DEF OverviewType
  <1>5. TokensApart'
    BY <1>1 DEF TokensApart
  <1>6. owed' \subseteq owed /\ \A d \in owed' : d[2] # q
    BY DEF Reminded
  <1>7. ASSUME NEW p \in Topics \ crossed
        PROVE  Undisturbed(p)'
    <2>1. Undisturbed(p)
      BY DEF OverviewInv
    <2>2. SawAll(p) => SawAll(p)'
      BY <1>3 DEF SawAll
    <2>3. row'[p].status = "done" => row'[p] = row[p]
      BY <1>2
    <2>4. ASSUME NEW new \in storing', new.of = p
          PROVE  /\ ~new.moved => SawAll(p)'
                 /\ \A d \in owed' : d[1] = p => d[2] \in new.todo
                 /\ row'[p].status = "claimed" => row'[p].token = new.token
      <3>1. PICK s \in storing : new.of = s.of /\ new.token = s.token /\ new.moved = s.moved /\ s.todo \ {q} \subseteq new.todo
        OBVIOUS
      <3>2. row'[p].status = "claimed" => row'[p] = row[p]
        BY <1>2
      <3> QED BY <1>6, <2>1, <2>2, <2>4, <3>1, <3>2 DEF Undisturbed
    <2> QED BY <1>6, <2>1, <2>2, <2>3, <2>4 DEF Undisturbed
  <1> QED BY <1>4, <1>5, <1>7 DEF OverviewInv

LEMMA OrphanedTyped ==
    ASSUME NEW q \in Topics,
           NEW asked \in SUBSET [of: Topics, token: PageTokens, moved: BOOLEAN, todo: SUBSET Topics, locked: BOOLEAN, gone: BOOLEAN]
    PROVE  /\ Orphaned(asked, q) \subseteq [of: Topics, token: PageTokens, moved: BOOLEAN, todo: SUBSET Topics, locked: BOOLEAN, gone: BOOLEAN]
           /\ \A new \in Orphaned(asked, q) : \E s \in asked : /\ new.of = s.of /\ new.token = s.token
                                                                 /\ new.moved = s.moved /\ new.todo = s.todo
  <1> SUFFICES ASSUME NEW s \in asked, NEW new, new = IF logs[q] = {} /\ s.of = q THEN [s EXCEPT !.gone = TRUE] ELSE s
               PROVE  /\ new \in [of: Topics, token: PageTokens, moved: BOOLEAN, todo: SUBSET Topics, locked: BOOLEAN, gone: BOOLEAN]
                      /\ new.of = s.of /\ new.token = s.token /\ new.moved = s.moved /\ new.todo = s.todo
    BY DEF Orphaned
  <1> QED OBVIOUS

(* Nothing but what a project has, or what its row is not done with, changes. *)
LEMMA IdleStep ==
    ASSUME OverviewInv, OverviewType', answers' \subseteq answers, storing' \subseteq storing, UNCHANGED <<owed, crossed>>,
           \A p \in Topics : SawAll(p) => SawAll(p)',
           \A p \in Topics : row'[p] = row[p] \/ row'[p].status \in {"none", "pending", "failed"}
    PROVE  OverviewInv'
  <1>1. TokensApart'
    BY DEF OverviewInv, TokensApart
  <1>2. ASSUME NEW p \in Topics \ crossed
        PROVE  Undisturbed(p)'
    <2>1. Undisturbed(p)
      BY DEF OverviewInv
    <2>2. /\ row'[p].status = "done" => row[p].status = "done"
          /\ row'[p].status = "claimed" => row'[p] = row[p]
      OBVIOUS
    <2> QED BY <2>1, <2>2 DEF Undisturbed
  <1> QED BY <1>1, <1>2 DEF OverviewInv

LEMMA ClaimStep ==
    ASSUME OverviewInv, NEW p \in Topics, NEW t \in PageTokens, ClaimOverview(p, t)
    PROVE  OverviewInv'
  <1> DEFINE new == [of |-> p, token |-> t, saw |-> Payload(p)]
             claimed == [status |-> "claimed", token |-> t]
  <1>1. OverviewType /\ TokensApart /\ Payload(p) \in Payloads
    BY PayloadsTyped DEF OverviewInv
  <1>2. /\ row' = [row EXCEPT ![p] = claimed] /\ answers' = answers \cup {new}
        /\ UNCHANGED <<logs, parts, page, storing, owed>>
        /\ \A a \in answers \cup storing : a.of = p => a.token # t
        /\ crossed' = IF \E s \in storing : s.of = p THEN crossed \cup {p} ELSE crossed \ {p}
    BY DEF ClaimOverview
  <1>3. /\ new \in [of: Topics, token: PageTokens, saw: Payloads] /\ new.of = p /\ new.token = t
        /\ claimed \in [status: {"none", "pending", "claimed", "done", "failed"}, token: PageTokens \cup {Tokenless}]
        /\ claimed.status = "claimed" /\ claimed.token = t
    BY <1>1
  <1> HIDE DEF new, claimed
  <1>4. OverviewType'
    BY <1>1, <1>2, <1>3 DEF OverviewType
  <1>5. TokensApart'
    BY <1>1, <1>2, <1>3 DEF TokensApart
  <1>6. ASSUME NEW q \in Topics \ crossed'
        PROVE  Undisturbed(q)'
    <2>1. CASE q = p
      <3>1. row'[q].status = "claimed" /\ \A s \in storing : s.of # q
        BY <1>1, <1>2, <1>3, <2>1 DEF OverviewType
      <3> QED BY <1>2, <3>1 DEF Undisturbed
    <2>2. CASE q # p
      <3>1. row'[q] = row[q] /\ Undisturbed(q)
        BY <1>1, <1>2, <2>2 DEF OverviewType, OverviewInv
      <3> QED BY <1>2, <3>1 DEF Undisturbed, SawAll
    <2> QED BY <2>1, <2>2
  <1> QED BY <1>4, <1>5, <1>6 DEF OverviewInv

LEMMA StoreStep ==
    ASSUME OverviewInv, NEW a \in answers, StoreOverview(a)
    PROVE  OverviewInv'
  <1> DEFINE p       == a.of
             written == [counted |-> Cardinality(logs[p]), saw |-> a.saw, had |-> Payload(p), old |-> FALSE]
             request == [of |-> p, token |-> a.token, moved |-> MovedOn(a), todo |-> Holders(p), locked |-> TRUE, gone |-> FALSE]
             settled == RowSettled(p, MovedOn(a))
  <1>1. OverviewType /\ TokensApart
    BY DEF OverviewInv
  <1>2. p \in Topics /\ a.token \in PageTokens /\ a.saw \in Payloads /\ Payload(p) \in Payloads
    BY <1>1, PayloadsTyped DEF OverviewType
  <1>3. /\ row[p] = [status |-> "claimed", token |-> a.token]
        /\ page' = [page EXCEPT ![p] = written]
        /\ row' = IF Holders(p) = {} THEN [row EXCEPT ![p] = settled] ELSE row
        /\ storing' = IF Holders(p) = {} THEN storing ELSE storing \cup {request}
        /\ answers' = answers \ {a}
        /\ owed' = {d \in owed : d[1] # p} \cup {<<p, q>> : q \in Holders(p)}
        /\ UNCHANGED <<logs, parts, crossed>>
    BY DEF StoreOverview, WhileAsking
  <1>4. written \in PageRow /\ (~MovedOn(a) => written.saw = written.had)
    BY <1>1, <1>2 DEF PageRow, OverviewType, MovedOn
  <1>5. Holders(p) \subseteq Topics
    BY <1>1, PartOfAssumption DEF Holders, OverviewType
  <1>6. MovedOn(a) \in BOOLEAN
    BY DEF MovedOn
  <1>7. /\ request \in [of: Topics, token: PageTokens, moved: BOOLEAN, todo: SUBSET Topics, locked: BOOLEAN, gone: BOOLEAN]
        /\ request.of = p /\ request.token = a.token /\ request.todo = Holders(p)
        /\ (~request.moved => ~MovedOn(a))
    BY <1>2, <1>5, <1>6
  <1>8. /\ settled \in [status: {"none", "pending", "claimed", "done", "failed"}, token: PageTokens \cup {Tokenless}]
        /\ settled.status \in {"pending", "done"} /\ (settled.status = "done" => ~MovedOn(a))
    BY DEF RowSettled
  <1> HIDE DEF written, request, settled
  <1>9. OverviewType'
    BY <1>1, <1>2, <1>3, <1>4, <1>7, <1>8 DEF OverviewType
  <1>10. TokensApart'
    BY <1>1, <1>3, <1>7 DEF TokensApart
  <1>11. page'[p] = written /\ \A q \in Topics \ {p} : page'[q] = page[q] /\ row'[q] = row[q]
    BY <1>1, <1>2, <1>3 DEF OverviewType
  <1>12. \A q \in Topics \ {p} : \A d \in owed' : d[1] = q => d \in owed
    BY <1>3
  <1>13. ASSUME NEW q \in Topics \ crossed
         PROVE  Undisturbed(q)'
    <2>1. Undisturbed(q)
      BY DEF OverviewInv
    <2>2. CASE q = p
      <3>1. \A s \in storing : s.of # p
        <4> SUFFICES ASSUME NEW s \in storing, s.of = p PROVE FALSE
          OBVIOUS
        <4>1. row[p].status = "claimed" /\ row[p].token = a.token
          BY <1>3
        <4>2. s.token = a.token
          BY <2>1, <2>2, <4>1 DEF Undisturbed
        <4> QED BY <1>1, <4>2 DEF TokensApart
      <3>2. ~MovedOn(a) => SawAll(p)'
        BY <1>4, <1>11 DEF SawAll
      <3>3. CASE Holders(p) = {}
        <4>1. row'[p] = settled /\ storing' = storing /\ \A d \in owed' : d[1] # p
          BY <1>1, <1>2, <1>3, <3>3 DEF OverviewType
        <4> QED BY <1>8, <2>2, <3>1, <3>2, <4>1 DEF Undisturbed
      <3>4. CASE Holders(p) # {}
        <4>1. row' = row /\ storing' = storing \cup {request} /\ \A d \in owed' : d[1] = p => d[2] \in Holders(p)
          BY <1>3, <3>4
        <4>2. row'[p].status = "claimed" /\ row'[p].token = a.token
          BY <1>3, <4>1
        <4> QED BY <1>7, <2>2, <3>1, <3>2, <4>1, <4>2 DEF Undisturbed
      <3> QED BY <3>3, <3>4
    <2>3. CASE q # p
      <3>1. row'[q] = row[q] /\ page'[q] = page[q] /\ \A d \in owed' : d[1] = q => d \in owed
        BY <1>11, <1>12, <2>3
      <3>2. \A s \in storing' : s.of = q => s \in storing
        BY <1>3, <1>7, <2>3
      <3> QED BY <2>1, <3>1, <3>2 DEF Undisturbed, SawAll
    <2> QED BY <2>2, <2>3
  <1> QED BY <1>3, <1>9, <1>10, <1>13 DEF OverviewInv

LEMMA SettleStep ==
    ASSUME OverviewInv, NEW s \in storing, SettleOverview(s)
    PROVE  OverviewInv'
  <1> DEFINE p       == s.of
             settled == RowSettled(p, s.moved)
  <1>1. OverviewType /\ TokensApart /\ p \in Topics
    BY DEF OverviewInv, OverviewType
  <1>2. /\ s.todo = {} /\ row' \in {row, [row EXCEPT ![p] = settled]} /\ storing' = storing \ {s}
        /\ UNCHANGED <<logs, parts, page, answers, owed, crossed>>
    BY DEF SettleOverview
  <1>3. /\ settled \in [status: {"none", "pending", "claimed", "done", "failed"}, token: PageTokens \cup {Tokenless}]
        /\ settled.status \in {"pending", "done"} /\ (settled.status = "done" => ~s.moved)
    BY DEF RowSettled
  <1> HIDE DEF settled
  <1>4. OverviewType'
    BY <1>1, <1>2, <1>3 DEF OverviewType
  <1>5. TokensApart'
    BY <1>1, <1>2 DEF TokensApart
  <1>6. ASSUME NEW q \in Topics \ crossed
        PROVE  Undisturbed(q)'
    <2>1. Undisturbed(q)
      BY DEF OverviewInv
    <2>2. row'[q] = row[q] \/ (q = p /\ row'[q] = settled)
      <3>1. CASE row' = row
        BY <3>1
      <3>2. CASE row' = [row EXCEPT ![p] = settled]
        BY <1>1, <3>2 DEF OverviewType
      <3> QED BY <1>2, <3>1, <3>2
    <2>3. row'[q].status = "done" => SawAll(q) /\ \A d \in owed : d[1] # q
      <3>1. CASE row'[q] = row[q]
        BY <2>1, <3>1 DEF Undisturbed
      <3>2. CASE q = p /\ row'[q] = settled
        BY <1>2, <1>3, <2>1, <3>2 DEF Undisturbed
      <3> QED BY <2>2, <3>1, <3>2
    <2>4. row'[q].status = "claimed" => row'[q] = row[q]
      BY <1>3, <2>2
    <2> QED BY <1>2, <2>1, <2>3, <2>4 DEF Undisturbed, SawAll
  <1> QED BY <1>2, <1>4, <1>5, <1>6 DEF OverviewInv

LEMMA OverviewStep ==
    ASSUME OverviewInv, [OverviewNext]_overviewVars
    PROVE  OverviewInv'
  <1>1. OverviewType
    BY DEF OverviewInv
  <1>2. ASSUME NEW q \in Topics, RequestOverview(q)
        PROVE  OverviewInv'
    <2>1. answers' \subseteq answers
      BY <1>2 DEF RequestOverview, Unheld
    <2>2. storing' = Orphaned(storing, q) /\ storing \in SUBSET [of: Topics, token: PageTokens, moved: BOOLEAN, todo: SUBSET Topics, locked: BOOLEAN, gone: BOOLEAN]
      BY <1>1, <1>2 DEF RequestOverview, OverviewType
    <2>3. /\ storing' \subseteq [of: Topics, token: PageTokens, moved: BOOLEAN, todo: SUBSET Topics, locked: BOOLEAN, gone: BOOLEAN]
          /\ \A new \in storing' : \E s \in storing : /\ new.of = s.of /\ new.token = s.token /\ new.moved = s.moved
                                                      /\ new.todo = s.todo
      BY <2>2, OrphanedTyped
    <2>4. \A new \in storing' : \E s \in storing : /\ new.of = s.of /\ new.token = s.token /\ new.moved = s.moved
                                                   /\ s.todo \ {q} \subseteq new.todo
      BY <2>3
    <2>5. row' = Requested(row, q) /\ page' = Unpaged(page, q) /\ owed' = Reminded(q) /\ UNCHANGED <<logs, parts, crossed>>
      BY <1>2 DEF RequestOverview
    <2> QED BY <2>1, <2>3, <2>4, <2>5, AskStep
  <1>3. ASSUME NEW s \in storing, NEW q \in s.todo, AskHolder(s, q)
        PROVE  OverviewInv'
    <2> DEFINE Requests == [of: Topics, token: PageTokens, moved: BOOLEAN, todo: SUBSET Topics, locked: BOOLEAN, gone: BOOLEAN]
               asked    == [s EXCEPT !.todo = s.todo \ {q}, !.locked = s.locked /\ ~Commits(q)]
               all      == (storing \ {s}) \cup {asked}
    <2>1. s \in Requests /\ q \in Topics /\ answers' \subseteq answers
      BY <1>1, <1>3 DEF OverviewType, AskHolder, Unheld
    <2>2. (s.locked /\ ~Commits(q)) \in BOOLEAN
      BY DEF Commits
    <2>3. /\ asked \in Requests /\ asked.of = s.of /\ asked.token = s.token /\ asked.moved = s.moved
          /\ asked.todo = s.todo \ {q}
      BY <2>1, <2>2
    <2>4. storing' = Orphaned(all, q)
      BY <1>3 DEF AskHolder
    <2> HIDE DEF asked
    <2>5. /\ all \in SUBSET Requests
          /\ \A m \in all : \E k \in storing : m.of = k.of /\ m.token = k.token /\ m.moved = k.moved /\ k.todo \ {q} \subseteq m.todo
      BY <1>1, <2>3 DEF OverviewType
    <2> HIDE DEF all
    <2>6. /\ storing' \subseteq Requests
          /\ \A new \in storing' : \E m \in all : new.of = m.of /\ new.token = m.token /\ new.moved = m.moved /\ new.todo = m.todo
      BY <2>1, <2>4, <2>5, OrphanedTyped
    <2>7. \A new \in storing' : \E k \in storing : /\ new.of = k.of /\ new.token = k.token /\ new.moved = k.moved
                                                   /\ k.todo \ {q} \subseteq new.todo
      <3> SUFFICES ASSUME NEW new \in storing'
                   PROVE  \E k \in storing : /\ new.of = k.of /\ new.token = k.token /\ new.moved = k.moved
                                             /\ k.todo \ {q} \subseteq new.todo
        OBVIOUS
      <3>1. PICK m \in all : new.of = m.of /\ new.token = m.token /\ new.moved = m.moved /\ new.todo = m.todo
        BY <2>6
      <3>2. PICK k \in storing : m.of = k.of /\ m.token = k.token /\ m.moved = k.moved /\ k.todo \ {q} \subseteq m.todo
        BY <2>5
      <3> QED BY <3>1, <3>2
    <2>8. row' = Requested(row, q) /\ page' = Unpaged(page, q) /\ owed' = Reminded(q) /\ UNCHANGED <<logs, parts, crossed>>
      BY <1>3 DEF AskHolder
    <2> QED BY <2>1, <2>6, <2>7, <2>8, AskStep
  <1>4. ASSUME NEW p \in Topics, NEW n \in Logs, KeepLog(p, n) \/ ForgetLog(p, n)
        PROVE  OverviewInv'
    <2>1. logs' \in [Topics -> SUBSET Logs] /\ UNCHANGED <<parts, page, row, answers, storing, owed, crossed>>
      BY <1>1, <1>4 DEF OverviewType, KeepLog, ForgetLog
    <2>2. OverviewType'
      BY <1>1, <2>1 DEF OverviewType
    <2> QED BY <2>1, <2>2, IdleStep DEF SawAll
  <1>5. ASSUME NEW l \in PartOf, Relink(l)
        PROVE  OverviewInv'
    <2>1. parts' \subseteq PartOf /\ UNCHANGED <<logs, page, row, answers, storing, owed, crossed>>
      BY <1>1, <1>5 DEF OverviewType, Relink
    <2>2. OverviewType'
      BY <1>1, <2>1 DEF OverviewType
    <2> QED BY <2>1, <2>2, IdleStep DEF SawAll
  <1>6. ASSUME NEW p \in Topics, Age(p)
        PROVE  OverviewInv'
    <2>1. /\ page[p] # NoPage /\ page' = [page EXCEPT ![p].old = TRUE]
          /\ UNCHANGED <<logs, parts, row, answers, storing, owed, crossed>>
      BY <1>6 DEF Age
    <2>2. page[p] \in PageRow /\ page \in [Topics -> PageRow \cup {NoPage}]
      BY <1>1, <2>1 DEF OverviewType
    <2> DEFINE aged == [page[p] EXCEPT !.old = TRUE]
    <2>3. aged \in PageRow /\ aged.saw = page[p].saw /\ aged.had = page[p].had
      BY <2>2 DEF PageRow
    <2>4. page' = [page EXCEPT ![p] = aged]
      BY <2>1, <2>2
    <2> HIDE DEF aged
    <2>5. OverviewType'
      BY <1>1, <2>1, <2>2, <2>3, <2>4 DEF OverviewType
    <2>6. \A q \in Topics : SawAll(q) => SawAll(q)'
      BY <2>1, <2>2, <2>3, <2>4 DEF SawAll
    <2> QED BY <2>1, <2>5, <2>6, IdleStep
  <1>7. ASSUME NEW p \in Topics, ReclaimOverview(p)
        PROVE  OverviewInv'
    <2> DEFINE pending == [status |-> "pending", token |-> Tokenless]
    <2>1. row' = [row EXCEPT ![p] = pending] /\ UNCHANGED <<logs, parts, page, answers, storing, owed, crossed>>
      BY <1>7 DEF ReclaimOverview
    <2>2. /\ pending \in [status: {"none", "pending", "claimed", "done", "failed"}, token: PageTokens \cup {Tokenless}]
          /\ pending.status = "pending"
      OBVIOUS
    <2> HIDE DEF pending
    <2>3. OverviewType' /\ \A q \in Topics : row'[q] = row[q] \/ row'[q].status = "pending"
      BY <1>1, <2>1, <2>2 DEF OverviewType
    <2> QED BY <2>1, <2>3, IdleStep DEF SawAll
  <1>8. ASSUME NEW a \in answers, DropAnswer(a)
        PROVE  OverviewInv'
    <2>1. answers' \subseteq answers /\ UNCHANGED <<logs, parts, page, row, storing, owed, crossed>>
      BY <1>8 DEF DropAnswer
    <2>2. OverviewType'
      BY <1>1, <2>1 DEF OverviewType
    <2> QED BY <2>1, <2>2, IdleStep DEF SawAll
  <1>9. ASSUME NEW a \in answers, FailOverview(a)
        PROVE  OverviewInv'
    <2>1. PICK status \in {"pending", "failed"} : row' = [row EXCEPT ![a.of] = [status |-> status, token |-> Tokenless]]
      BY <1>9 DEF FailOverview
    <2>2. answers' \subseteq answers /\ UNCHANGED <<logs, parts, page, storing, owed, crossed>>
      BY <1>9 DEF FailOverview
    <2> DEFINE failed == [status |-> status, token |-> Tokenless]
    <2>3. /\ failed \in [status: {"none", "pending", "claimed", "done", "failed"}, token: PageTokens \cup {Tokenless}]
          /\ failed.status \in {"pending", "failed"} /\ row' = [row EXCEPT ![a.of] = failed]
      BY <2>1
    <2> HIDE DEF failed
    <2>4. OverviewType' /\ \A q \in Topics : row'[q] = row[q] \/ row'[q].status \in {"pending", "failed"}
      BY <1>1, <2>2, <2>3 DEF OverviewType
    <2> QED BY <2>2, <2>4, IdleStep DEF SawAll
  <1>10. ASSUME NEW s \in storing, CutShort(s)
         PROVE  OverviewInv'
    <2>1. storing' \subseteq storing /\ UNCHANGED <<logs, parts, page, row, answers, owed, crossed>>
      BY <1>10 DEF CutShort
    <2>2. OverviewType'
      BY <1>1, <2>1 DEF OverviewType
    <2> QED BY <2>1, <2>2, IdleStep DEF SawAll
  <1>11. CASE UNCHANGED overviewVars
    <2>1. UNCHANGED <<logs, parts, page, row, answers, storing, owed, crossed>>
      BY <1>11 DEF overviewVars
    <2>2. OverviewType'
      BY <1>1, <2>1 DEF OverviewType
    <2> QED BY <2>1, <2>2, IdleStep DEF SawAll
  <1>12. ASSUME NEW p \in Topics,
                \/ RequestOverview(p) \/ SweepOverview(p) \/ Age(p) \/ ReclaimOverview(p)
                \/ \E n \in Logs : KeepLog(p, n) \/ ForgetLog(p, n)
                \/ \E t \in PageTokens : ClaimOverview(p, t)
         PROVE  OverviewInv'
    BY <1>2, <1>4, <1>6, <1>7, <1>12, ClaimStep DEF SweepOverview
  <1> QED BY <1>3, <1>5, <1>8, <1>9, <1>10, <1>11, <1>12, StoreStep, SettleStep DEF OverviewNext

(* A job that is done left nothing undone, of its own page or of the projects *)
(* its project is part of, whatever was reclaimed, cut short or orphaned on   *)
(* the way, unless a second claim crossed the request (complete_overview,    *)
(* moved_on, cascade).                                                      *)
THEOREM DoneLeavesNothingUndone == OverviewSpec => []DoneIsComplete
  <1>1. OverviewInit => OverviewInv
    <2> SUFFICES ASSUME OverviewInit
                 PROVE  OverviewInv
      OBVIOUS
    <2>1. \A p \in Topics : row[p] = NoRow /\ page[p] = NoPage
      BY DEF OverviewInit
    <2>2. NoRow \in [status: {"none", "pending", "claimed", "done", "failed"}, token: PageTokens \cup {Tokenless}]
          /\ NoRow.status = "none"
      BY DEF NoRow
    <2>3. OverviewType
      BY <2>2 DEF OverviewInit, OverviewType
    <2>4. TokensApart
      BY DEF OverviewInit, TokensApart
    <2>5. \A p \in Topics : Undisturbed(p)
      BY <2>1, <2>2 DEF OverviewInit, Undisturbed
    <2> QED BY <2>3, <2>4, <2>5 DEF OverviewInv
  <1>2. OverviewInv /\ [OverviewNext]_overviewVars => OverviewInv'
    BY OverviewStep
  <1>3. OverviewInv => DoneIsComplete
    BY DEF OverviewInv, Undisturbed, SawAll, DoneIsComplete, DoneSawEverything, DoneWasPassedOn
  <1> QED BY <1>1, <1>2, <1>3, PTL DEF OverviewSpec

-----------------------------------------------------------------------------
(* The versions of a prompt.  What a request read of a version is as old as   *)
(* the request; what it goes by is what no other request changes.          *)

Request == [phase: {"none", "seeding", "seeded", "amending", "activating", "retiring"},
            then: {"none", "resolve", "draft"}, at: Nat, was: Version \cup {NoPrompt}]

PromptType ==
    /\ prompt \in [PromptIds -> Version \cup {NoPrompt}] /\ defaults \in PromptTexts
    /\ asking \in [PromptRequests -> Request]
    /\ seeded \in BOOLEAN /\ overlapped \in BOOLEAN /\ cut \in BOOLEAN /\ doubled \in BOOLEAN
    /\ used \in [PromptIds -> SUBSET PromptTexts]

ReadSound(r) ==
    LET q == asking[r]
    IN  /\ q.phase \in {"amending", "activating", "retiring"} => q.at \in PromptRows /\ q.was # NoPrompt
        /\ q.phase = "amending" => q.was.status = "draft"
        /\ q.phase = "seeding" /\ q.was # NoPrompt => q.at \in PromptRows /\ prompt[q.at].builtIn = q.was.builtIn

UsedAreRows == \A i \in PromptIds : used[i] # {} => i \in PromptRows

(* What is being activated is active from its first commit on, and it stays. *)
Changing(r) == asking[r].phase \in {"activating", "retiring"}
Stays(r)    == asking[r].phase = "retiring" \/ asking[r].was.status = "active"

OneActivation ==
    ~overlapped => /\ \A r, o \in PromptRequests : Changing(r) /\ Changing(o) => r = o
                   /\ \A r \in PromptRequests : Changing(r) /\ Stays(r) => asking[r].at \in Active
                   /\ seeded => Active # {}

OneActive ==
    ~overlapped /\ ~cut /\ ~doubled /\ In({"retiring"}) = {} => \A i, j \in Active : i = j

PromptInv ==
    /\ PromptType /\ (\A r \in PromptRequests : ReadSound(r)) /\ UsedAreRows
    /\ OneActivation /\ OneActive

Rows == [PromptIds -> Version \cup {NoPrompt}]

LEMMA CommitFacts ==
    ASSUME PromptType, NEW rows \in Rows, Commit(rows)
    PROVE  /\ prompt' = rows /\ seeded' \in BOOLEAN /\ (seeded' => seeded \/ Active' # {})
           /\ used' \in [PromptIds -> SUBSET PromptTexts]
           /\ \A i \in PromptIds : used'[i] # {} => used[i] # {} \/ i \in PromptRows'
  <1>1. prompt' = rows /\ used \in [PromptIds -> SUBSET PromptTexts]
    BY DEF Commit, PromptType
  <1>2. seeded' = (seeded \/ \E i \in PromptIds : rows[i] # NoPrompt /\ rows[i].status = "active")
    BY DEF Commit
  <1>3. (\E i \in PromptIds : rows[i] # NoPrompt /\ rows[i].status = "active") => Active' # {}
    BY <1>1 DEF Active, PromptRows
  <1>4. seeded' \in BOOLEAN /\ (seeded' => seeded \/ Active' # {})
    <2> DEFINE served == \E i \in PromptIds : rows[i] # NoPrompt /\ rows[i].status = "active"
    <2>1. seeded' = (seeded \/ served)
      BY <1>2
    <2>2. served => Active' # {}
      BY <1>3
    <2> HIDE DEF served
    <2> QED BY <2>1, <2>2, Zenon
  <1>5. \A i \in PromptIds : rows[i] # NoPrompt => rows[i].text \in PromptTexts
    BY DEF Rows, Version
  <1>6. used' = [i \in PromptIds |-> IF used[i] = {} /\ rows[i] # NoPrompt /\ rows[i].status = "active"
                                     THEN {rows[i].text} ELSE used[i]]
    BY DEF Commit
  <1>7. used' \in [PromptIds -> SUBSET PromptTexts]
    BY <1>1, <1>5, <1>6
  <1>8. \A i \in PromptIds : used'[i] # {} => used[i] # {} \/ i \in PromptRows'
    BY <1>1, <1>6 DEF PromptRows
  <1> QED BY <1>1, <1>4, <1>7, <1>8

LEMMA VersionChanges ==
    ASSUME NEW v \in Version
    PROVE  /\ \A t \in PromptTexts : /\ [v EXCEPT !.text = t] \in Version /\ [v EXCEPT !.text = t].status = v.status
                                     /\ [v EXCEPT !.text = t].builtIn = v.builtIn
           /\ \A status \in {"draft", "active", "archived"} :
                 /\ [v EXCEPT !.status = status] \in Version /\ [v EXCEPT !.status = status].status = status
                 /\ [v EXCEPT !.status = status].builtIn = v.builtIn /\ [v EXCEPT !.status = status].text = v.text
  BY DEF Version

(* What others have read stays sound as long as versions stay and keep their *)
(* label.                                                                  *)
LEMMA ReadsStay ==
    ASSUME PromptInv, NEW r \in PromptRequests, NEW new \in Request, Become(r, new),
           prompt' \in Rows, UNCHANGED defaults,
           \A i \in PromptRows : i \in PromptRows' /\ prompt'[i].builtIn = prompt[i].builtIn,
           seeded' \in BOOLEAN, overlapped' \in BOOLEAN, cut' \in BOOLEAN, doubled' \in BOOLEAN,
           used' \in [PromptIds -> SUBSET PromptTexts],
           \A i \in PromptIds : used'[i] # {} => used[i] # {} \/ i \in PromptRows',
           ReadSound(r)'
    PROVE  /\ PromptType' /\ UsedAreRows' /\ \A o \in PromptRequests : ReadSound(o)'
           /\ asking'[r] = new /\ \A o \in PromptRequests \ {r} : asking'[o] = asking[o]
  <1>1. PromptType /\ UsedAreRows /\ \A o \in PromptRequests : ReadSound(o)
    BY DEF PromptInv
  <1>2. /\ asking' \in [PromptRequests -> Request] /\ asking'[r] = new
        /\ \A o \in PromptRequests \ {r} : asking'[o] = asking[o]
    BY <1>1 DEF Become, PromptType
  <1>3. PromptType'
    BY <1>1, <1>2 DEF PromptType, Rows
  <1>4. UsedAreRows'
    BY <1>1 DEF UsedAreRows
  <1>5. ASSUME NEW o \in PromptRequests \ {r}
        PROVE  ReadSound(o)'
    BY <1>1, <1>2 DEF ReadSound
  <1> QED BY <1>2, <1>3, <1>4, <1>5

(* A step of a request that activates nothing.                             *)
LEMMA SteadyStep ==
    ASSUME PromptInv, NEW r \in PromptRequests, asking'[r].phase \notin {"activating", "retiring"},
           \A o \in PromptRequests \ {r} : asking'[o] = asking[o],
           asking[r].phase \notin {"activating", "retiring"},
           UNCHANGED <<overlapped, cut>>, Active \subseteq Active', seeded' => seeded \/ Active' # {},
           \/ Active' = Active /\ UNCHANGED doubled
           \/ (doubled' = (doubled \/ Active # {})) /\ \E i : Active' = Active \cup {i}
    PROVE  OneActivation' /\ OneActive'
  <1>1. OneActivation /\ OneActive
    BY DEF PromptInv
  <1>2. /\ \A o \in PromptRequests : Changing(o)' => Changing(o) /\ o # r /\ asking'[o] = asking[o]
        /\ In({"retiring"})' = In({"retiring"})
    BY DEF Changing, In
  <1>3. OneActivation'
    <2> SUFFICES ASSUME ~overlapped'
                 PROVE  /\ \A o, k \in PromptRequests : Changing(o)' /\ Changing(k)' => o = k
                        /\ \A o \in PromptRequests : Changing(o)' /\ Stays(o)' => asking'[o].at \in Active'
                        /\ seeded' => Active' # {}
      BY DEF OneActivation
    <2>1. ~overlapped
      OBVIOUS
    <2>2. /\ \A o, k \in PromptRequests : Changing(o) /\ Changing(k) => o = k
          /\ \A o \in PromptRequests : Changing(o) /\ Stays(o) => asking[o].at \in Active
          /\ seeded => Active # {}
      BY <1>1, <2>1 DEF OneActivation
    <2>3. \A o \in PromptRequests : Changing(o)' /\ Stays(o)' => Changing(o) /\ Stays(o) /\ asking'[o] = asking[o]
      BY <1>2 DEF Stays
    <2> QED BY <1>2, <2>2, <2>3
  <1>4. OneActive'
    <2> SUFFICES ASSUME ~overlapped', ~cut', ~doubled', In({"retiring"})' = {}
                 PROVE  \A i, j \in Active' : i = j
      BY DEF OneActive
    <2>1. ~overlapped /\ ~cut /\ In({"retiring"}) = {}
      BY <1>2
    <2>2. CASE Active' = Active /\ UNCHANGED doubled
      <3>1. ~doubled
        BY <2>2
      <3> QED BY <1>1, <2>1, <2>2, <3>1 DEF OneActive
    <2>3. CASE (doubled' = (doubled \/ Active # {})) /\ \E i : Active' = Active \cup {i}
      <3>1. Active = {}
        BY <2>3, Zenon
      <3> QED BY <2>3, <3>1
    <2> QED BY <2>2, <2>3
  <1> QED BY <1>3, <1>4

LEMMA VersionsTyped ==
    ASSUME PromptInv
    PROVE  /\ \A i \in PromptRows : prompt[i] \in Version /\ i \in PromptIds /\ i \in Nat
           /\ Active \subseteq PromptRows /\ prompt \in Rows /\ PromptIds \subseteq Nat
  BY PromptsAssumption DEF PromptInv, PromptType, PromptRows, Active, PromptIds, Rows

(* What is read at the start of a request.                                 *)
LEMMA ReadStep ==
    ASSUME PromptInv, NEW r \in PromptRequests, asking[r].phase = "none",
           NEW new \in Request, Become(r, new), NoCommit, UNCHANGED <<defaults, overlapped, cut, doubled>>,
           new.phase \in {"seeding", "amending"}, new.was # NoPrompt => new.at \in PromptRows /\ prompt[new.at] = new.was,
           new.phase = "amending" => new.was # NoPrompt /\ new.was.status = "draft"
    PROVE  PromptInv'
  <1>1. /\ PromptType /\ UNCHANGED <<prompt, seeded, used>> /\ prompt \in Rows
        /\ UsedAreRows /\ OneActivation
    BY VersionsTyped DEF PromptInv, NoCommit
  <1>2. asking'[r] = new
    BY <1>1 DEF PromptType, Become
  <1>3. ReadSound(r)'
    BY <1>1, <1>2 DEF ReadSound, PromptRows
  <1>4. PromptRows' = PromptRows /\ Active' = Active
    BY <1>1 DEF PromptRows, Active
  <1>5. /\ prompt' \in Rows /\ seeded' \in BOOLEAN /\ overlapped' \in BOOLEAN /\ cut' \in BOOLEAN /\ doubled' \in BOOLEAN
        /\ used' \in [PromptIds -> SUBSET PromptTexts]
        /\ (\A i \in PromptRows : i \in PromptRows' /\ prompt'[i].builtIn = prompt[i].builtIn)
        /\ (\A i \in PromptIds : used'[i] # {} => used[i] # {} \/ i \in PromptRows')
    BY <1>1, <1>4 DEF PromptType
  <1>6. /\ PromptType' /\ UsedAreRows' /\ (\A o \in PromptRequests : ReadSound(o)')
        /\ \A o \in PromptRequests \ {r} : asking'[o] = asking[o]
    BY <1>3, <1>5, ReadsStay
  <1>7. OneActivation' /\ OneActive'
    BY <1>1, <1>2, <1>4, <1>6, SteadyStep
  <1> QED BY <1>6, <1>7 DEF PromptInv

LEMMA SeedReads ==
    ASSUME PromptInv, NEW r \in PromptRequests, asking[r].phase = "none", NEW then \in {"resolve", "draft"}, ReadForSeed(r, then)
    PROVE  PromptInv'
  <1>1. NoCommit /\ UNCHANGED <<defaults, activations, overlapped, cut, doubled>>
    BY DEF ReadForSeed
  <1>2. CASE Become(r, [phase |-> "seeding", then |-> then, at |-> 0, was |-> NoPrompt])
    <2> DEFINE new == [phase |-> "seeding", then |-> then, at |-> 0, was |-> NoPrompt]
    <2>1. new \in Request /\ new.phase = "seeding" /\ new.was = NoPrompt /\ Become(r, new)
      BY <1>2 DEF Request
    <2> HIDE DEF new
    <2> QED BY <1>1, <2>1, ReadStep
  <1>3. ASSUME NEW i \in Active, Become(r, [phase |-> "seeding", then |-> then, at |-> i, was |-> prompt[i]])
        PROVE  PromptInv'
    <2> DEFINE new == [phase |-> "seeding", then |-> then, at |-> i, was |-> prompt[i]]
    <2>1. i \in PromptRows /\ prompt[i] \in Version /\ i \in Nat
      BY VersionsTyped
    <2>2. new \in Request /\ new.phase = "seeding" /\ new.was = prompt[i] /\ new.at = i /\ Become(r, new)
      BY <1>3, <2>1 DEF Request
    <2> HIDE DEF new
    <2> QED BY <1>1, <2>1, <2>2, ReadStep
  <1> QED BY <1>2, <1>3 DEF ReadForSeed

LEMMA AmendReads ==
    ASSUME PromptInv, NEW r \in PromptRequests, NEW i \in PromptIds, ReadForAmend(r, i)
    PROVE  PromptInv'
  <1>1. asking[r].phase = "none" /\ i \in PromptRows /\ prompt[i] \in Version /\ i \in Nat
    BY VersionsTyped DEF ReadForAmend
  <1>2. CASE ~Editable(prompt[i]) /\ ReadForSeed(r, "draft")
    BY <1>1, <1>2, SeedReads
  <1>3. CASE /\ Editable(prompt[i])
             /\ Become(r, [phase |-> "amending", then |-> "none", at |-> i, was |-> prompt[i]])
             /\ NoCommit /\ UNCHANGED <<defaults, activations, overlapped, cut, doubled>>
    <2> DEFINE new == [phase |-> "amending", then |-> "none", at |-> i, was |-> prompt[i]]
    <2>1. new \in Request /\ new.phase = "amending" /\ new.was = prompt[i] /\ new.at = i /\ Become(r, new)
      BY <1>1, <1>3 DEF Request
    <2> HIDE DEF new
    <2>2. new.was # NoPrompt /\ new.was.status = "draft"
      BY <1>1, <1>3, <2>1 DEF Editable, PromptRows
    <2> QED BY <1>1, <1>3, <2>1, <2>2, ReadStep
  <1> QED BY <1>2, <1>3 DEF ReadForAmend

(* A request that ends, or goes on to a draft, with a commit that takes no    *)
(* version away.                                                           *)
LEMMA WriteStep ==
    ASSUME PromptInv, NEW r \in PromptRequests, asking[r].phase \notin {"activating", "retiring"},
           NEW new \in Request, Become(r, new), new.phase \in {"none", "seeded"},
           NEW rows \in Rows, Commit(rows) \/ (NoCommit /\ rows = prompt), UNCHANGED <<defaults, overlapped, cut>>,
           \A i \in PromptRows : /\ rows[i] # NoPrompt /\ rows[i].builtIn = prompt[i].builtIn
                                 /\ rows[i].status = prompt[i].status,
           \/ /\ UNCHANGED doubled
              /\ \A i \in PromptIds \ PromptRows : rows[i] # NoPrompt => rows[i].status # "active"
           \/ /\ doubled' = (doubled \/ Active # {})
              /\ \E i \in PromptIds \ PromptRows : /\ rows[i] # NoPrompt /\ rows[i].status = "active"
                                                   /\ \A k \in PromptIds \ (PromptRows \cup {i}) : rows[k] = NoPrompt
    PROVE  PromptInv'
  <1>1. PromptType /\ prompt \in Rows /\ UsedAreRows /\ OneActivation
    BY VersionsTyped DEF PromptInv
  <1>2. /\ prompt' = rows /\ seeded' \in BOOLEAN /\ (seeded' => seeded \/ Active' # {})
        /\ used' \in [PromptIds -> SUBSET PromptTexts]
        /\ \A i \in PromptIds : used'[i] # {} => used[i] # {} \/ i \in PromptRows'
    <2>1. CASE Commit(rows)
      BY <1>1, <2>1, CommitFacts
    <2>2. CASE NoCommit /\ rows = prompt
      BY <1>1, <2>2 DEF NoCommit, PromptType
    <2> QED BY <2>1, <2>2
  <1>3. \A i \in PromptRows : i \in PromptRows' /\ prompt'[i].builtIn = prompt[i].builtIn
    BY <1>2 DEF PromptRows
  <1>4. /\ asking'[r] = new /\ ReadSound(r)'
    BY <1>1 DEF PromptType, Become, ReadSound
  <1>5. \/ Active' = Active /\ UNCHANGED doubled
        \/ (doubled' = (doubled \/ Active # {})) /\ \E i : Active' = Active \cup {i}
    <2>1. CASE /\ UNCHANGED doubled
               /\ \A i \in PromptIds \ PromptRows : rows[i] # NoPrompt => rows[i].status # "active"
      BY <1>2, <2>1 DEF Active, PromptRows
    <2>2. ASSUME doubled' = (doubled \/ Active # {}), NEW i \in PromptIds \ PromptRows,
                 rows[i] # NoPrompt, rows[i].status = "active",
                 \A k \in PromptIds \ (PromptRows \cup {i}) : rows[k] = NoPrompt
          PROVE  (doubled' = (doubled \/ Active # {})) /\ \E k : Active' = Active \cup {k}
      <3>1. Active' = Active \cup {i}
        BY <1>2, <2>2 DEF Active, PromptRows
      <3> QED BY <2>2, <3>1, Zenon
    <2> QED BY <2>1, <2>2, Zenon
  <1>6. overlapped' \in BOOLEAN /\ cut' \in BOOLEAN /\ doubled' \in BOOLEAN
    BY <1>1, <1>5 DEF PromptType
  <1>7. /\ PromptType' /\ UsedAreRows' /\ (\A o \in PromptRequests : ReadSound(o)')
        /\ \A o \in PromptRequests \ {r} : asking'[o] = asking[o]
    BY <1>2, <1>3, <1>4, <1>6, ReadsStay
  <1>8. Active \subseteq Active'
    BY <1>5
  <1>9. OneActivation' /\ OneActive'
    BY <1>2, <1>4, <1>5, <1>7, <1>8, SteadyStep
  <1> QED BY <1>7, <1>9 DEF PromptInv

LEMMA WritesHold ==
    ASSUME PromptInv, NEW r \in PromptRequests,
           SeedWrites(r) \/ \E t \in PromptTexts : SaveDraft(r, t) \/ Amend(r, t)
    PROVE  PromptInv'
  <1>1. PromptType /\ prompt \in Rows /\ ReadSound(r) /\ asking[r] \in Request
    BY VersionsTyped DEF PromptInv, PromptType
  <1>2. /\ NoRequestYet \in Request /\ NoRequestYet.phase = "none"
        /\ [NoRequestYet EXCEPT !.phase = "seeded", !.then = "draft"] \in Request
        /\ [NoRequestYet EXCEPT !.phase = "seeded", !.then = "draft"].phase = "seeded"
    BY DEF NoRequestYet, Request
  <1>3. ASSUME NEW i \in FreePrompt, NEW v \in Version
        PROVE  /\ [prompt EXCEPT ![i] = v] \in Rows /\ i \in PromptIds \ PromptRows
               /\ [prompt EXCEPT ![i] = v][i] = v /\ v # NoPrompt
               /\ \A k \in PromptIds \ {i} : [prompt EXCEPT ![i] = v][k] = prompt[k]
    BY <1>1, NoPromptAssumption DEF FreePrompt, Rows
  <1>4. ASSUME NEW i \in PromptRows, NEW t \in PromptTexts
        PROVE  /\ [prompt EXCEPT ![i].text = t] \in Rows
               /\ \A k \in PromptIds \ {i} : [prompt EXCEPT ![i].text = t][k] = prompt[k]
               /\ LET v == [prompt EXCEPT ![i].text = t][i]
                  IN v # NoPrompt /\ v.status = prompt[i].status /\ v.builtIn = prompt[i].builtIn
    <2> DEFINE v == [prompt[i] EXCEPT !.text = t]
    <2>1. v \in Version /\ v.status = prompt[i].status /\ v.builtIn = prompt[i].builtIn /\ i \in PromptIds
      BY VersionsTyped, VersionChanges
    <2>2. [prompt EXCEPT ![i].text = t] = [prompt EXCEPT ![i] = v]
      BY <1>1
    <2> HIDE DEF v
    <2>3. v # NoPrompt
      BY <2>1, NoPromptAssumption
    <2> QED BY <1>1, <2>1, <2>2, <2>3 DEF Rows
  <1>5. CASE SeedWrites(r)
    <2> DEFINE q   == asking[r]
               new == IF q.then = "draft" THEN [NoRequestYet EXCEPT !.phase = "seeded", !.then = "draft"] ELSE NoRequestYet
    <2>1. /\ q.phase = "seeding" /\ Become(r, new) /\ UNCHANGED <<defaults, activations, overlapped, cut>>
          /\ \/ /\ q.was = NoPrompt
                /\ \E i \in FreePrompt : Commit([prompt EXCEPT ![i] = NewVersion("active", defaults, TRUE, FALSE)])
                /\ doubled' = (doubled \/ Active # {})
             \/ q.was # NoPrompt /\ Outdated(q.was) /\ Commit([prompt EXCEPT ![q.at].text = defaults]) /\ UNCHANGED doubled
             \/ NoCommit /\ UNCHANGED doubled
      BY <1>5 DEF SeedWrites
    <2>2. new \in Request /\ new.phase \in {"none", "seeded"}
      BY <1>2
    <2> HIDE DEF new
    <2>3. ASSUME NEW i \in FreePrompt, Commit([prompt EXCEPT ![i] = NewVersion("active", defaults, TRUE, FALSE)]),
                 doubled' = (doubled \/ Active # {})
          PROVE  PromptInv'
      <3> DEFINE v    == NewVersion("active", defaults, TRUE, FALSE)
                 rows == [prompt EXCEPT ![i] = v]
      <3>1. v \in Version /\ v.status = "active"
        BY <1>1 DEF NewVersion, Version, PromptType
      <3> HIDE DEF v
      <3>2. /\ rows \in Rows /\ i \in PromptIds \ PromptRows /\ rows[i] = v /\ v # NoPrompt
            /\ \A k \in PromptIds \ {i} : rows[k] = prompt[k]
        BY <1>3, <3>1
      <3>3. Commit(rows)
        BY <2>3 DEF v
      <3> HIDE DEF rows
      <3>4. \A k \in PromptRows : rows[k] # NoPrompt /\ rows[k].builtIn = prompt[k].builtIn /\ rows[k].status = prompt[k].status
        BY <3>2 DEF PromptRows
      <3>5. \E k \in PromptIds \ PromptRows : /\ rows[k] # NoPrompt /\ rows[k].status = "active"
                                              /\ \A m \in PromptIds \ (PromptRows \cup {k}) : rows[m] = NoPrompt
        BY <3>1, <3>2 DEF PromptRows
      <3> QED BY <2>1, <2>2, <2>3, <3>2, <3>3, <3>4, <3>5, WriteStep
    <2>4. CASE q.was # NoPrompt /\ Commit([prompt EXCEPT ![q.at].text = defaults]) /\ UNCHANGED doubled
      <3> DEFINE rows == [prompt EXCEPT ![q.at].text = defaults]
      <3>1. q.at \in PromptRows /\ defaults \in PromptTexts
        BY <1>1, <2>1, <2>4 DEF ReadSound, PromptType
      <3>2. /\ rows \in Rows /\ (\A k \in PromptIds \ {q.at} : rows[k] = prompt[k]) /\ rows[q.at] # NoPrompt
            /\ rows[q.at].status = prompt[q.at].status /\ rows[q.at].builtIn = prompt[q.at].builtIn
        BY <1>4, <3>1
      <3>3. Commit(rows)
        BY <2>4
      <3> HIDE DEF rows
      <3>4. /\ \A k \in PromptRows : rows[k] # NoPrompt /\ rows[k].builtIn = prompt[k].builtIn /\ rows[k].status = prompt[k].status
            /\ \A k \in PromptIds \ PromptRows : rows[k] # NoPrompt => rows[k].status # "active"
        BY <3>1, <3>2 DEF PromptRows
      <3> QED BY <2>1, <2>2, <2>4, <3>2, <3>3, <3>4, WriteStep
    <2>5. CASE NoCommit /\ UNCHANGED doubled
      <3>1. /\ \A k \in PromptRows : prompt[k] # NoPrompt
            /\ \A k \in PromptIds \ PromptRows : prompt[k] # NoPrompt => prompt[k].status # "active"
        BY DEF PromptRows
      <3> QED BY <1>1, <2>1, <2>2, <2>5, <3>1, WriteStep
    <2> QED BY <2>1, <2>3, <2>4, <2>5
  <1>6. ASSUME NEW t \in PromptTexts, SaveDraft(r, t)
        PROVE  PromptInv'
    <2>1. PICK i \in FreePrompt : Commit([prompt EXCEPT ![i] = NewVersion("draft", t, FALSE, Active # {})])
      BY <1>6 DEF SaveDraft
    <2> DEFINE v    == NewVersion("draft", t, FALSE, Active # {})
               rows == [prompt EXCEPT ![i] = v]
    <2>2. v \in Version /\ v.status = "draft"
      BY <1>1 DEF NewVersion, Version, PromptType
    <2>3. Commit(rows)
      BY <2>1
    <2> HIDE DEF v
    <2>4. /\ rows \in Rows /\ i \in PromptIds \ PromptRows /\ rows[i] = v
          /\ \A k \in PromptIds \ {i} : rows[k] = prompt[k]
      BY <1>3, <2>2
    <2> HIDE DEF rows
    <2>5. /\ \A k \in PromptRows : rows[k] # NoPrompt /\ rows[k].builtIn = prompt[k].builtIn /\ rows[k].status = prompt[k].status
          /\ \A k \in PromptIds \ PromptRows : rows[k] # NoPrompt => rows[k].status # "active"
      BY <2>2, <2>4 DEF PromptRows
    <2>6. asking[r].phase = "seeded" /\ Become(r, NoRequestYet) /\ UNCHANGED <<defaults, overlapped, cut, doubled>>
      BY <1>6 DEF SaveDraft
    <2> QED BY <1>2, <2>3, <2>4, <2>5, <2>6, WriteStep
  <1>7. ASSUME NEW t \in PromptTexts, Amend(r, t)
        PROVE  PromptInv'
    <2> DEFINE i    == asking[r].at
               rows == [prompt EXCEPT ![i].text = t]
    <2>1. /\ asking[r].phase = "amending" /\ Commit(rows)
          /\ Become(r, NoRequestYet) /\ UNCHANGED <<defaults, overlapped, cut, doubled>>
      BY <1>7 DEF Amend
    <2>2. i \in PromptRows
      BY <1>1, <2>1 DEF ReadSound
    <2>3. /\ rows \in Rows /\ (\A k \in PromptIds \ {i} : rows[k] = prompt[k]) /\ rows[i] # NoPrompt
          /\ rows[i].status = prompt[i].status /\ rows[i].builtIn = prompt[i].builtIn
      BY <1>4, <2>2
    <2> HIDE DEF rows
    <2>4. /\ \A k \in PromptRows : rows[k] # NoPrompt /\ rows[k].builtIn = prompt[k].builtIn /\ rows[k].status = prompt[k].status
          /\ \A k \in PromptIds \ PromptRows : rows[k] # NoPrompt => rows[k].status # "active"
      BY <2>2, <2>3 DEF PromptRows
    <2> QED BY <1>2, <2>1, <2>3, <2>4, WriteStep
  <1> QED BY <1>5, <1>6, <1>7

(* Activating.                                                             *)
LEMMA ActivateReads ==
    ASSUME PromptInv, NEW r \in PromptRequests, NEW i \in PromptIds, ReadForActivate(r, i)
    PROVE  PromptInv'
  <1> DEFINE new == [phase |-> "activating", then |-> "none", at |-> i, was |-> prompt[i]]
  <1>1. /\ asking[r].phase = "none" /\ i \in PromptRows /\ Become(r, new) /\ UNCHANGED <<prompt, seeded, used, defaults, cut, doubled>>
        /\ overlapped' = (overlapped \/ In({"activating", "retiring"}) # {})
    BY DEF ReadForActivate, NoCommit
  <1>2. PromptType /\ prompt \in Rows /\ prompt[i] \in Version /\ i \in Nat /\ UsedAreRows /\ OneActivation /\ OneActive
    BY <1>1, VersionsTyped DEF PromptInv
  <1>3. new \in Request /\ new.phase = "activating" /\ new.at = i /\ new.was = prompt[i]
    BY <1>2 DEF Request
  <1> HIDE DEF new
  <1>4. asking'[r] = new /\ PromptRows' = PromptRows /\ Active' = Active /\ prompt[i] # NoPrompt
    BY <1>1, <1>2 DEF PromptType, Become, PromptRows, Active
  <1>5. ReadSound(r)'
    BY <1>1, <1>3, <1>4 DEF ReadSound
  <1>6. /\ overlapped' \in BOOLEAN
        /\ ~overlapped' => ~overlapped /\ In({"activating", "retiring"}) = {}
    BY <1>1, Zenon
  <1>7. /\ seeded' \in BOOLEAN /\ cut' \in BOOLEAN /\ doubled' \in BOOLEAN
        /\ used' \in [PromptIds -> SUBSET PromptTexts]
        /\ (\A k \in PromptRows : k \in PromptRows' /\ prompt'[k].builtIn = prompt[k].builtIn)
        /\ (\A k \in PromptIds : used'[k] # {} => used[k] # {} \/ k \in PromptRows')
    BY <1>1, <1>2, <1>4 DEF PromptType
  <1>8. /\ PromptType' /\ UsedAreRows' /\ (\A o \in PromptRequests : ReadSound(o)')
        /\ \A o \in PromptRequests \ {r} : asking'[o] = asking[o]
    BY <1>1, <1>2, <1>3, <1>5, <1>6, <1>7, ReadsStay
  <1>9. OneActivation'
    <2> SUFFICES ASSUME ~overlapped'
                 PROVE  /\ \A o, k \in PromptRequests : Changing(o)' /\ Changing(k)' => o = k
                        /\ \A o \in PromptRequests : Changing(o)' /\ Stays(o)' => asking'[o].at \in Active'
                        /\ seeded' => Active' # {}
      BY DEF OneActivation
    <2>1. \A o \in PromptRequests \ {r} : ~Changing(o)'
      BY <1>6, <1>8 DEF In, Changing
    <2>2. Stays(r)' => i \in Active
      BY <1>1, <1>3, <1>4 DEF Stays, Active
    <2>3. seeded' => Active' # {}
      BY <1>1, <1>2, <1>4, <1>6 DEF OneActivation
    <2> QED BY <1>3, <1>4, <2>1, <2>2, <2>3
  <1>10. OneActive'
    <2>1. ~overlapped' /\ ~cut' /\ ~doubled' => ~overlapped /\ ~cut /\ ~doubled /\ In({"retiring"}) = {}
      BY <1>1, <1>6 DEF In
    <2> QED BY <1>2, <1>4, <2>1 DEF OneActive
  <1> QED BY <1>8, <1>9, <1>10 DEF PromptInv

LEMMA SaveActiveStep ==
    ASSUME PromptInv, NEW r \in PromptRequests, SaveActive(r)
    PROVE  PromptInv'
  <1> DEFINE q    == asking[r]
             new  == [q EXCEPT !.phase = "retiring"]
             v    == [prompt[q.at] EXCEPT !.status = "active"]
  <1>1. /\ q.phase = "activating" /\ Become(r, new) /\ UNCHANGED <<defaults, overlapped, cut, doubled>>
        /\ \/ q.was.status = "active" /\ NoCommit
           \/ Commit([prompt EXCEPT ![q.at].status = "active"])
    BY DEF SaveActive
  <1>2. PromptType /\ prompt \in Rows /\ ReadSound(r) /\ UsedAreRows /\ OneActivation /\ q \in Request
    BY VersionsTyped DEF PromptInv, PromptType
  <1>3. new \in Request /\ new.phase = "retiring" /\ new.at = q.at /\ new.was = q.was
    BY <1>2 DEF Request
  <1>4. q.at \in PromptRows /\ q.at \in PromptIds /\ q.was # NoPrompt /\ prompt[q.at] \in Version
    BY <1>1, <1>2, VersionsTyped DEF ReadSound
  <1>5. v \in Version /\ v.status = "active" /\ v.builtIn = prompt[q.at].builtIn /\ v # NoPrompt
    BY <1>4, VersionChanges, NoPromptAssumption
  <1>6. [prompt EXCEPT ![q.at].status = "active"] = [prompt EXCEPT ![q.at] = v]
    BY <1>2
  <1> HIDE DEF v, new
  <1>7. /\ prompt' \in Rows /\ seeded' \in BOOLEAN /\ (seeded' => seeded \/ Active' # {})
        /\ used' \in [PromptIds -> SUBSET PromptTexts]
        /\ (\A i \in PromptIds : used'[i] # {} => used[i] # {} \/ i \in PromptRows')
        /\ (\A i \in PromptRows : i \in PromptRows' /\ prompt'[i].builtIn = prompt[i].builtIn)
        /\ Active \subseteq Active'
        /\ (~overlapped => q.at \in Active')
    <2>1. CASE q.was.status = "active" /\ NoCommit
      <3>1. UNCHANGED <<prompt, seeded, used>> /\ Active' = Active /\ PromptRows' = PromptRows
        BY <2>1 DEF NoCommit, Active, PromptRows
      <3>2. ~overlapped => q.at \in Active
        BY <1>1, <1>2, <2>1 DEF OneActivation, Changing, Stays
      <3> QED BY <1>2, <3>1, <3>2 DEF PromptType
    <2>2. CASE Commit([prompt EXCEPT ![q.at] = v])
      <3> DEFINE rows == [prompt EXCEPT ![q.at] = v]
      <3>1. rows \in Rows /\ rows[q.at] = v /\ \A i \in PromptIds \ {q.at} : rows[i] = prompt[i]
        BY <1>2, <1>4, <1>5 DEF Rows
      <3>2. Commit(rows)
        BY <2>2
      <3> HIDE DEF rows
      <3>3. /\ prompt' = rows /\ seeded' \in BOOLEAN /\ (seeded' => seeded \/ Active' # {})
            /\ used' \in [PromptIds -> SUBSET PromptTexts]
            /\ (\A i \in PromptIds : used'[i] # {} => used[i] # {} \/ i \in PromptRows')
        BY <1>2, <3>1, <3>2, CommitFacts
      <3>4. \A i \in PromptRows : i \in PromptRows' /\ prompt'[i].builtIn = prompt[i].builtIn
        BY <1>4, <1>5, <3>1, <3>3 DEF PromptRows
      <3>5. Active \subseteq Active' /\ q.at \in Active'
        BY <1>4, <1>5, <3>1, <3>3 DEF PromptRows, Active
      <3> QED BY <3>1, <3>3, <3>4, <3>5
    <2> QED BY <1>1, <1>6, <2>1, <2>2
  <1>8. asking'[r] = new
    BY <1>1, <1>2 DEF PromptType, Become
  <1>9. ReadSound(r)'
    BY <1>3, <1>4, <1>7, <1>8 DEF ReadSound
  <1>10. overlapped' \in BOOLEAN /\ cut' \in BOOLEAN /\ doubled' \in BOOLEAN
    BY <1>1, <1>2 DEF PromptType
  <1>11. /\ PromptType' /\ UsedAreRows' /\ (\A o \in PromptRequests : ReadSound(o)')
         /\ \A o \in PromptRequests \ {r} : asking'[o] = asking[o]
    BY <1>1, <1>3, <1>7, <1>9, <1>10, ReadsStay
  <1>12. OneActivation'
    <2> SUFFICES ASSUME ~overlapped'
                 PROVE  /\ \A o, k \in PromptRequests : Changing(o)' /\ Changing(k)' => o = k
                        /\ \A o \in PromptRequests : Changing(o)' /\ Stays(o)' => asking'[o].at \in Active'
                        /\ seeded' => Active' # {}
      BY DEF OneActivation
    <2>1. ~overlapped
      BY <1>1
    <2>2. /\ \A o \in PromptRequests : Changing(o) => o = r
          /\ seeded => Active # {}
      BY <1>1, <1>2, <2>1 DEF OneActivation, Changing
    <2>3. \A o \in PromptRequests \ {r} : ~Changing(o)'
      BY <1>11, <2>2 DEF Changing
    <2> QED BY <1>3, <1>7, <1>8, <2>1, <2>2, <2>3
  <1>13. OneActive'
    <2>1. r \in In({"retiring"})'
      BY <1>3, <1>8 DEF In
    <2> QED BY <2>1 DEF OneActive
  <1> QED BY <1>11, <1>12, <1>13 DEF PromptInv

LEMMA RetireStep ==
    ASSUME PromptInv, NEW r \in PromptRequests, Retire(r)
    PROVE  PromptInv'
  <1> DEFINE q    == asking[r]
             rows == [i \in PromptIds |-> IF i \in Superseded(q.at) THEN [prompt[i] EXCEPT !.status = "archived"] ELSE prompt[i]]
  <1>1. q.phase = "retiring" /\ Commit(rows) /\ Become(r, NoRequestYet) /\ UNCHANGED <<defaults, overlapped, cut, doubled>>
    BY DEF Retire
  <1>2. PromptType /\ prompt \in Rows /\ ReadSound(r) /\ UsedAreRows /\ OneActivation
    BY VersionsTyped DEF PromptInv
  <1>3. NoRequestYet \in Request /\ NoRequestYet.phase = "none"
    BY DEF NoRequestYet, Request
  <1>4. ASSUME NEW i \in Superseded(q.at)
        PROVE  /\ i \in PromptRows /\ i \in PromptIds /\ rows[i] \in Version /\ rows[i] # NoPrompt
               /\ rows[i].status = "archived" /\ rows[i].builtIn = prompt[i].builtIn
    <2>1. i \in PromptRows /\ i \in PromptIds /\ prompt[i] \in Version
      BY VersionsTyped DEF Superseded
    <2>2. rows[i] = [prompt[i] EXCEPT !.status = "archived"]
      BY <2>1
    <2> DEFINE v == [prompt[i] EXCEPT !.status = "archived"]
    <2>3. v \in Version /\ v.status = "archived" /\ v.builtIn = prompt[i].builtIn
      BY <2>1, VersionChanges
    <2>4. rows[i] = v
      BY <2>2
    <2> HIDE DEF rows, v
    <2> QED BY <2>1, <2>3, <2>4, NoPromptAssumption
  <1>5. \A i \in PromptIds \ Superseded(q.at) : rows[i] = prompt[i]
    OBVIOUS
  <1>6. rows \in Rows
    <2>1. \A i \in PromptIds : rows[i] \in Version \cup {NoPrompt}
      BY <1>2, <1>4, <1>5 DEF Rows
    <2>2. rows = [i \in PromptIds |-> rows[i]]
      OBVIOUS
    <2> HIDE DEF rows
    <2> QED BY <2>1, <2>2 DEF Rows
  <1> HIDE DEF rows
  <1>7. /\ prompt' = rows /\ seeded' \in BOOLEAN /\ (seeded' => seeded \/ Active' # {})
        /\ used' \in [PromptIds -> SUBSET PromptTexts]
        /\ (\A i \in PromptIds : used'[i] # {} => used[i] # {} \/ i \in PromptRows')
    BY <1>1, <1>2, <1>6, CommitFacts
  <1>8. \A i \in PromptRows : i \in PromptRows' /\ prompt'[i].builtIn = prompt[i].builtIn
    BY <1>4, <1>5, <1>7 DEF PromptRows
  <1>9. Active' = Active \cap {q.at}
    <2>1. ASSUME NEW i \in PromptIds
          PROVE  i \in Active' <=> i \in Active /\ i = q.at
      <3>1. CASE i \in Superseded(q.at)
        BY <1>4, <1>7, <3>1 DEF Active, PromptRows, Superseded
      <3>2. CASE i \notin Superseded(q.at)
        BY <1>5, <1>7, <3>2 DEF Active, PromptRows, Superseded
      <3> QED BY <3>1, <3>2
    <2>2. Active' \subseteq PromptIds /\ Active \subseteq PromptIds
      BY DEF Active, PromptRows
    <2> QED BY <2>1, <2>2
  <1>10. asking'[r] = NoRequestYet /\ ReadSound(r)'
    BY <1>1, <1>2, <1>3 DEF PromptType, Become, ReadSound
  <1>11. overlapped' \in BOOLEAN /\ cut' \in BOOLEAN /\ doubled' \in BOOLEAN
    BY <1>1, <1>2 DEF PromptType
  <1>12. prompt' \in Rows /\ UNCHANGED defaults
    BY <1>1, <1>6, <1>7
  <1>13. /\ PromptType' /\ UsedAreRows' /\ (\A o \in PromptRequests : ReadSound(o)')
         /\ \A o \in PromptRequests \ {r} : asking'[o] = asking[o]
    BY <1>1, <1>3, <1>7, <1>8, <1>10, <1>11, <1>12, ReadsStay
  <1>14. ~overlapped => /\ q.at \in Active /\ \A o \in PromptRequests : Changing(o) => o = r
    BY <1>1, <1>2 DEF OneActivation, Changing, Stays
  <1>15. OneActivation'
    <2> SUFFICES ASSUME ~overlapped'
                 PROVE  /\ \A o, k \in PromptRequests : Changing(o)' /\ Changing(k)' => o = k
                        /\ \A o \in PromptRequests : Changing(o)' /\ Stays(o)' => asking'[o].at \in Active'
                        /\ seeded' => Active' # {}
      BY DEF OneActivation
    <2>1. ~overlapped
      BY <1>1
    <2>2. \A o \in PromptRequests : ~Changing(o)'
      BY <1>3, <1>10, <1>13, <1>14, <2>1 DEF Changing
    <2>3. Active' # {}
      BY <1>9, <1>14, <2>1
    <2> QED BY <2>2, <2>3
  <1>16. OneActive'
    BY <1>9 DEF OneActive
  <1> QED BY <1>13, <1>15, <1>16 DEF PromptInv

LEMMA DeployStep ==
    ASSUME PromptInv, NEW t \in PromptTexts, Deploy(t)
    PROVE  PromptInv'
  <1>1. /\ UNCHANGED <<prompt, seeded, used, overlapped, doubled>> /\ defaults' = t
        /\ asking' = [r \in PromptRequests |-> NoRequestYet]
        /\ cut' = (cut \/ In({"retiring"}) # {})
    BY DEF Deploy, NoCommit
  <1>2. NoRequestYet \in Request /\ NoRequestYet.phase = "none"
    BY DEF NoRequestYet, Request
  <1>3. cut' \in BOOLEAN /\ (~cut' => ~cut /\ In({"retiring"}) = {})
    BY <1>1, Zenon
  <1>4. PromptType'
    BY <1>1, <1>2, <1>3 DEF PromptInv, PromptType
  <1>5. \A r \in PromptRequests : asking'[r].phase = "none"
    BY <1>1, <1>2
  <1>6. PromptRows' = PromptRows /\ Active' = Active
    BY <1>1 DEF PromptRows, Active
  <1>7. UsedAreRows' /\ \A r \in PromptRequests : ReadSound(r)'
    BY <1>1, <1>5, <1>6 DEF PromptInv, UsedAreRows, ReadSound
  <1>8. OneActivation'
    BY <1>1, <1>5, <1>6 DEF PromptInv, OneActivation, Changing
  <1>9. OneActive'
    BY <1>1, <1>3, <1>6 DEF PromptInv, OneActive
  <1> QED BY <1>4, <1>7, <1>8, <1>9 DEF PromptInv

LEMMA PromptStep ==
    ASSUME PromptInv, [PromptNext]_promptVars
    PROVE  PromptInv'
  <1>1. ASSUME NEW r \in PromptRequests, ResolvePrompts(r) \/ StartDraft(r)
        PROVE  PromptInv'
    BY <1>1, SeedReads DEF ResolvePrompts, StartDraft
  <1>2. CASE UNCHANGED promptVars
    BY <1>2 DEF promptVars, PromptInv, PromptType, ReadSound, UsedAreRows, OneActivation, OneActive, Changing, Stays, In,
                Active, PromptRows
  <1> QED BY <1>1, <1>2, WritesHold, AmendReads, ActivateReads, SaveActiveStep, RetireStep, DeployStep DEF PromptNext

(* A text that was in use changes in no other way than by an amendment that  *)
(* read a draft.                                                           *)
LEMMA UsedTexts ==
    ASSUME PromptInv, PromptNext, NEW i \in PromptIds, used[i] # {}, ~prompt[i].builtIn, prompt'[i].text # prompt[i].text
    PROVE  \E r \in PromptRequests : asking[r].phase = "amending" /\ asking[r].at = i /\ asking[r].was.status = "draft"
  <1>1. i \in PromptRows /\ prompt[i] \in Version /\ prompt \in Rows
    BY VersionsTyped DEF PromptInv, UsedAreRows
  <1>2. ASSUME NEW r \in PromptRequests, SeedWrites(r)
        PROVE  FALSE
    <2>1. ASSUME NEW k \in FreePrompt, NEW v, prompt' = [prompt EXCEPT ![k] = v]
          PROVE  FALSE
      BY <1>1, <2>1 DEF FreePrompt, Rows
    <2>2. CASE asking[r].was # NoPrompt /\ Outdated(asking[r].was) /\ prompt' = [prompt EXCEPT ![asking[r].at].text = defaults]
      <3>1. prompt[asking[r].at].builtIn = asking[r].was.builtIn /\ asking[r].was.builtIn
        BY <1>2, <2>2 DEF PromptInv, ReadSound, SeedWrites, Outdated
      <3>2. i # asking[r].at
        BY <3>1
      <3> QED BY <1>1, <2>2, <3>2 DEF Rows
    <2>3. CASE NoCommit
      BY <2>3 DEF NoCommit
    <2> QED BY <1>2, <2>1, <2>2, <2>3 DEF SeedWrites, Commit
  <1>3. ASSUME NEW r \in PromptRequests, NEW t \in PromptTexts, SaveDraft(r, t)
        PROVE  FALSE
    <2>1. PICK k \in FreePrompt : prompt' = [prompt EXCEPT ![k] = NewVersion("draft", t, FALSE, Active # {})]
      BY <1>3 DEF SaveDraft, Commit
    <2>2. k # i
      BY <1>1 DEF FreePrompt
    <2> QED BY <1>1, <2>1, <2>2 DEF Rows
  <1>4. ASSUME NEW r \in PromptRequests, NEW t \in PromptTexts, Amend(r, t)
        PROVE  asking[r].phase = "amending" /\ asking[r].at = i /\ asking[r].was.status = "draft"
    <2>1. prompt' = [prompt EXCEPT ![asking[r].at].text = t] /\ asking[r].phase = "amending"
      BY <1>4 DEF Amend, Commit
    <2>2. asking[r].was.status = "draft"
      BY <2>1 DEF PromptInv, ReadSound
    <2>3. asking[r].at = i
      BY <1>1, <2>1 DEF Rows
    <2> QED BY <2>1, <2>2, <2>3
  <1>5. ASSUME NEW r \in PromptRequests, SaveActive(r)
        PROVE  FALSE
    <2>1. CASE prompt' = [prompt EXCEPT ![asking[r].at].status = "active"]
      <3>1. [prompt[i] EXCEPT !.status = "active"].text = prompt[i].text
        BY <1>1, VersionChanges
      <3>2. prompt'[i] \in {prompt[i], [prompt[i] EXCEPT !.status = "active"]}
        BY <1>1, <2>1 DEF Rows
      <3> QED BY <3>1, <3>2
    <2>2. CASE NoCommit
      BY <2>2 DEF NoCommit
    <2> QED BY <1>5, <2>1, <2>2 DEF SaveActive, Commit
  <1>6. ASSUME NEW r \in PromptRequests, Retire(r)
        PROVE  FALSE
    <2>1. prompt'[i] \in {prompt[i], [prompt[i] EXCEPT !.status = "archived"]}
      BY <1>1, <1>6 DEF Retire, Commit
    <2>2. [prompt[i] EXCEPT !.status = "archived"].text = prompt[i].text
      BY <1>1, VersionChanges
    <2> QED BY <2>1, <2>2
  <1>7. ASSUME NEW r \in PromptRequests,
               ResolvePrompts(r) \/ StartDraft(r) \/ \E k \in PromptIds : ReadForAmend(r, k) \/ ReadForActivate(r, k)
        PROVE  FALSE
    BY <1>7 DEF ResolvePrompts, StartDraft, ReadForSeed, ReadForAmend, ReadForActivate, NoCommit
  <1>8. ASSUME NEW t \in PromptTexts, Deploy(t)
        PROVE  FALSE
    BY <1>8 DEF Deploy, NoCommit
  <1> QED BY <1>2, <1>3, <1>4, <1>5, <1>6, <1>7, <1>8 DEF PromptNext

LEMMA OneActiveCounts ==
    ASSUME NEW S, S # {}, \A i, j \in S : i = j
    PROVE  Cardinality(S) = 1
  <1>1. PICK x : S = {x}
    OBVIOUS
  <1> QED BY <1>1, FS_Singleton

(* Through seeds, drafts, amendments, activations and restarts that cross or  *)
(* fail half way, a stage goes on with one version, and a text in use stays    *)
(* what it was (seed, draft, amend, activate).                              *)
THEOREM PromptsStayInOrder == PromptSpec => StageInOrder
  <1>1. PromptInit => PromptInv
    <2> SUFFICES ASSUME PromptInit
                 PROVE  PromptInv
      OBVIOUS
    <2>1. NoRequestYet \in Request /\ NoRequestYet.phase = "none"
      BY DEF NoRequestYet, Request
    <2>2. PromptRows = {} /\ Active = {}
      BY DEF PromptInit, PromptRows, Active
    <2>3. PromptType
      BY <2>1 DEF PromptInit, PromptType
    <2>4. \A r \in PromptRequests : asking[r].phase = "none"
      BY <2>1 DEF PromptInit
    <2>5. UsedAreRows /\ \A r \in PromptRequests : ReadSound(r)
      BY <2>4 DEF PromptInit, UsedAreRows, ReadSound
    <2>6. OneActivation /\ OneActive
      BY <2>2, <2>4 DEF PromptInit, OneActivation, OneActive, Changing
    <2> QED BY <2>3, <2>5, <2>6 DEF PromptInv
  <1>2. PromptInv /\ [PromptNext]_promptVars => PromptInv'
    BY PromptStep
  <1>3. PromptInv => StageServed /\ OneVersion
    <2> SUFFICES ASSUME PromptInv
                 PROVE  StageServed /\ OneVersion
      OBVIOUS
    <2>1. StageServed
      BY DEF PromptInv, OneActivation, StageServed
    <2>2. In({"activating", "retiring"}) = {} => In({"retiring"}) = {}
      BY DEF In
    <2>3. ASSUME seeded, In({"activating", "retiring"}) = {}, ~overlapped, ~cut, ~doubled
          PROVE  Cardinality(Active) = 1
      <3>1. Active # {} /\ \A i, j \in Active : i = j
        BY <2>1, <2>2, <2>3 DEF PromptInv, OneActive, StageServed
      <3> QED BY <3>1, OneActiveCounts
    <2> QED BY <2>1, <2>3 DEF OneVersion
  <1>4. PromptInv /\ [PromptNext]_promptVars =>
           [\A i \in PromptIds : used[i] # {} /\ ~prompt[i].builtIn /\ prompt'[i].text # prompt[i].text
             => \E r \in PromptRequests : asking[r].phase = "amending" /\ asking[r].at = i
                                          /\ asking[r].was.status = "draft"]_promptVars
    BY UsedTexts
  <1> QED BY <1>1, <1>2, <1>3, <1>4, PTL DEF PromptSpec, StageInOrder, UsedIsKept

=============================================================================
