------------------------------ MODULE Prompts ------------------------------
(***************************************************************************)
(* The versions of a stage's prompt (backend/services/prompts.py).  Every   *)
(* request runs between commits of its own session: it reads, and writes    *)
(* later what follows from what it read.  Activating a version takes two    *)
(* commits.  The stages do not touch each other; there is one here.         *)
(***************************************************************************)
EXTENDS Integers, FiniteSets

CONSTANTS
    PromptTexts,    \* of a prompt: the columns of PromptBase but its label
    MaxPrompts,     \* bound: versions
    PromptRequests, \* bound: requests at once
    MaxActivations, \* bound: activations
    NoPrompt

\* A version of the prompt; builtIn: its label is BUILT_IN; child: it has a
\* parent_id.
Version == [status: {"draft", "active", "archived"}, text: PromptTexts, builtIn: BOOLEAN, child: BOOLEAN]

ASSUME PromptsAssumption  == MaxPrompts \in Nat \ {0} /\ MaxActivations \in Nat
ASSUME NoPromptAssumption == NoPrompt \notin Version

VARIABLES
    prompt,         \* rows of table prompt
    defaults,       \* DEFAULTS of the deployed program
    asking,         \* requests in progress
    activations,
    seeded,         \* history: the stage has had an active version
    overlapped,     \* history: two activations ran at once
    cut,            \* history: an activation ended between its commits
    doubled,        \* history: two seeds inserted at once
    used            \* history: the text each version had when it was first active

promptVars == <<prompt, defaults, asking, activations, seeded, overlapped, cut, doubled, used>>

PromptIds == 1..MaxPrompts

NewVersion(status, text, builtIn, child) == [status |-> status, text |-> text, builtIn |-> builtIn, child |-> child]

\* A request is seeding, seeded, amending, activating or retiring; then: what
\* follows the seed; at: the version it is about, 0 when none; was: what was
\* read of that version.
NoRequestYet == [phase |-> "none", then |-> "none", at |-> 0, was |-> NoPrompt]

PromptRows == {i \in PromptIds : prompt[i] # NoPrompt}
Active     == {i \in PromptRows : prompt[i].status = "active"}
FreePrompt == {i \in PromptIds \ PromptRows : \A j \in PromptIds \ PromptRows : i <= j}
In(phases) == {r \in PromptRequests : asking[r].phase \in phases}

PromptInit ==
    /\ prompt      = [i \in PromptIds |-> NoPrompt]
    /\ defaults \in PromptTexts
    /\ asking      = [r \in PromptRequests |-> NoRequestYet]
    /\ activations = 0
    /\ seeded = FALSE /\ overlapped = FALSE /\ cut = FALSE /\ doubled = FALSE
    /\ used        = [i \in PromptIds |-> {}]

\* Prompts as they are after a commit, and what it adds to the history.
Commit(rows) ==
    /\ prompt' = rows
    /\ seeded' = (seeded \/ \E i \in PromptIds : rows[i] # NoPrompt /\ rows[i].status = "active")
    /\ used'   = [i \in PromptIds |-> IF used[i] = {} /\ rows[i] # NoPrompt /\ rows[i].status = "active"
                                THEN {rows[i].text} ELSE used[i]]

NoCommit == UNCHANGED <<prompt, seeded, used>>

Become(r, request) == asking' = [asking EXCEPT ![r] = request]

-----------------------------------------------------------------------------
(* seed, which comes first in resolved, list_prompts and draft.            *)

\* all_active keeps the last row the query returns for a stage.
ReadForSeed(r, then) ==
    /\ \/ Active = {} /\ Become(r, [phase |-> "seeding", then |-> then, at |-> 0, was |-> NoPrompt])
       \/ \E i \in Active : Become(r, [phase |-> "seeding", then |-> then, at |-> i, was |-> prompt[i]])
    /\ NoCommit /\ UNCHANGED <<defaults, activations, overlapped, cut, doubled>>

ResolvePrompts(r)    == asking[r].phase = "none" /\ ReadForSeed(r, "resolve")
StartDraft(r) == asking[r].phase = "none" /\ ReadForSeed(r, "draft")

Outdated(version) == version.builtIn /\ ~version.child /\ version.text # defaults

SeedWrites(r) ==
    LET q == asking[r]
    IN  /\ q.phase = "seeding"
        /\ \/ /\ q.was = NoPrompt
              /\ \E i \in FreePrompt :
                    Commit([prompt EXCEPT ![i] = NewVersion("active", defaults, TRUE, FALSE)])
              /\ doubled' = (doubled \/ Active # {})
           \/ /\ q.was # NoPrompt /\ Outdated(q.was)
              /\ Commit([prompt EXCEPT ![q.at].text = defaults])
              /\ UNCHANGED doubled
           \/ /\ q.was # NoPrompt /\ ~Outdated(q.was)
              /\ NoCommit /\ UNCHANGED doubled
        /\ Become(r, IF q.then = "draft" THEN [NoRequestYet EXCEPT !.phase = "seeded", !.then = "draft"]
                     ELSE NoRequestYet)
        /\ UNCHANGED <<defaults, activations, overlapped, cut>>

-----------------------------------------------------------------------------
(* draft, amend.                                                           *)

\* A draft may be labelled built-in: it is relabelled, so it never is one.
SaveDraft(r, t) ==
    /\ asking[r].phase = "seeded"
    /\ \E i \in FreePrompt :
          Commit([prompt EXCEPT ![i] = NewVersion("draft", t, FALSE, Active # {})])
    /\ Become(r, NoRequestYet)
    /\ UNCHANGED <<defaults, activations, overlapped, cut, doubled>>

\* Mutant: a version that was retired is amended in place.
EditableUnlessActive(version) == version.status # "active"

Editable(version) == version.status = "draft"

ReadForAmend(r, i) ==
    /\ asking[r].phase = "none" /\ i \in PromptRows
    /\ \/ /\ Editable(prompt[i])
          /\ Become(r, [phase |-> "amending", then |-> "none", at |-> i, was |-> prompt[i]])
          /\ NoCommit /\ UNCHANGED <<defaults, activations, overlapped, cut, doubled>>
       \/ ~Editable(prompt[i]) /\ ReadForSeed(r, "draft")

Amend(r, t) ==
    /\ asking[r].phase = "amending"
    /\ Commit([prompt EXCEPT ![asking[r].at].text = t])
    /\ Become(r, NoRequestYet)
    /\ UNCHANGED <<defaults, activations, overlapped, cut, doubled>>

-----------------------------------------------------------------------------
(* activate.                                                               *)

ReadForActivate(r, i) ==
    /\ asking[r].phase = "none" /\ i \in PromptRows /\ activations < MaxActivations
    /\ Become(r, [phase |-> "activating", then |-> "none", at |-> i, was |-> prompt[i]])
    /\ activations' = activations + 1
    /\ overlapped' = (overlapped \/ In({"activating", "retiring"}) # {})
    /\ NoCommit /\ UNCHANGED <<defaults, cut, doubled>>

\* A version read as active already gives no UPDATE.
SaveActive(r) ==
    LET q == asking[r]
    IN  /\ q.phase = "activating"
        /\ IF q.was.status = "active" THEN NoCommit ELSE Commit([prompt EXCEPT ![q.at].status = "active"])
        /\ Become(r, [q EXCEPT !.phase = "retiring"])
        /\ UNCHANGED <<defaults, activations, overlapped, cut, doubled>>

\* Mutant: the version itself is among the active ones.
SupersededAll(at) == Active

\* Mutant: only the built-in version is retired.
SupersededBuiltIn(at) == {i \in Active \ {at} : prompt[i].builtIn}

Superseded(at) == Active \ {at}

Retire(r) ==
    LET q == asking[r]
    IN  /\ q.phase = "retiring"
        /\ Commit([i \in PromptIds |-> IF i \in Superseded(q.at) THEN [prompt[i] EXCEPT !.status = "archived"] ELSE prompt[i]])
        /\ Become(r, NoRequestYet)
        /\ UNCHANGED <<defaults, activations, overlapped, cut, doubled>>

-----------------------------------------------------------------------------
(* The process stops, and starts again with the same or other defaults.     *)

Deploy(t) ==
    /\ defaults' = t
    /\ asking' = [r \in PromptRequests |-> NoRequestYet]
    /\ cut' = (cut \/ In({"retiring"}) # {})
    /\ NoCommit /\ UNCHANGED <<activations, overlapped, doubled>>

PromptNext ==
    \/ \E r \in PromptRequests :
          \/ ResolvePrompts(r) \/ StartDraft(r) \/ SeedWrites(r) \/ SaveActive(r) \/ Retire(r)
          \/ \E t \in PromptTexts : SaveDraft(r, t) \/ Amend(r, t)
          \/ \E i \in PromptIds : ReadForAmend(r, i) \/ ReadForActivate(r, i)
    \/ \E t \in PromptTexts : Deploy(t)

PromptSpec == PromptInit /\ [][PromptNext]_promptVars

-----------------------------------------------------------------------------
(* Properties.                                                             *)

\* A stage that has an active version never is without one, even when an
\* activation fails half way, unless two activations ran at once (activate).
StageServed == seeded /\ ~overlapped => Active # {}

\* Between activations a stage has one active version, unless one failed half
\* way, two ran at once or two seeds did (activate, seed).
OneVersion ==
    seeded /\ In({"activating", "retiring"}) = {} /\ ~overlapped /\ ~cut /\ ~doubled => Cardinality(Active) = 1

\* An amendment never rewrites a version that has been in use, unless it read
\* it while it was a draft; only a seed brings the built-in one up to date
\* (amend, seed).
UsedIsKept ==
    [][\A i \in PromptIds : used[i] # {} /\ ~prompt[i].builtIn /\ prompt'[i].text # prompt[i].text
          => \E r \in PromptRequests : asking[r].phase = "amending" /\ asking[r].at = i
                                       /\ asking[r].was.status = "draft"]_promptVars

\* Through seeds, drafts, amendments and activations that cross or fail half way,
\* a stage goes on with one version, and what was in use stays what it was.
StageInOrder == [](StageServed /\ OneVersion) /\ UsedIsKept
=============================================================================
