----------------------------- MODULE ToolRounds -----------------------------
(***************************************************************************)
(* One conversation with a model that may look things up                    *)
(* (backend/summarizers/llama.py): the messages are sent, the server         *)
(* answers, drops the request, is busy too long or finds the messages too     *)
(* long; calls of tools are answered within what the context has room for,    *)
(* and a lookup that was made already is not made again.                     *)
(* Sizes are in units; a token and its characters count the same.            *)
(***************************************************************************)
EXTENDS Integers, Sequences, FiniteSets, FiniteSetsExt, SequencesExt

CONSTANTS
    Lookups,        \* a tool and its arguments (key in answer)
    Bad,            \* a call whose arguments are not a JSON object
    ResultSize,     \* of what a lookup finds
    PromptSizes,    \* sizes the first messages may have
    Room,           \* budget in rounds
    MinRoom,        \* MIN_TOOL_TOKENS
    MinResult,      \* MIN_RESULT_CHARS
    MaxRounds,      \* Toolbox.rounds
    MaxAsked        \* bound: calls in one answer

ASSUME SizesAssumption  == ResultSize \in [Lookups -> Nat] /\ PromptSizes \subseteq Nat
ASSUME RoundsAssumption == Bad \notin Lookups /\ {Room, MinRoom, MinResult, MaxRounds, MaxAsked} \subseteq Nat

VARIABLES
    how,            \* "rounds" or "complete"
    talk,           \* messages
    seen,           \* where the result of a lookup is, 0 when it was not made
    round,
    phase,          \* "round", "sent", "lookup", "done" or "failed"
    tries,          \* of post: waits so far
    shrinks,        \* of answered
    thinking,
    busy,           \* history: the server may still be working on a request
    sharing         \* history: what the last answer had room for, and took

roundsVars == <<how, talk, seen, round, phase, tries, shrinks, thinking, busy, sharing>>

SHRINKS       == 2
RETRIES       == 2       \* len(RETRY_SECONDS)
NoteSize      == 1       \* of REPEATED, UNREADABLE and CLIPPED, and of a failure
NothingShared == [left |-> 0, taken |-> 0, cut |-> FALSE]

\* A message; of: its calls, when it is the model's, or what it answers.
Message(role, of, says, size) == [role |-> role, of |-> of, says |-> says, size |-> size, cut |-> FALSE]

\* used_tokens
Used ==
    LET upTo[n \in 0..Len(talk)] == IF n = 0 THEN 0 ELSE upTo[n - 1] + talk[n].size
    IN upTo[Len(talk)]

Roomy     == Room - Used >= MinRoom
LastRound == round = MaxRounds \/ ~Roomy
Told      == Last(talk).says = "told"

RoundsInit ==
    /\ how \in {"rounds", "complete"}
    /\ \E size \in PromptSizes : talk = <<Message("user", <<>>, "prompt", size)>>
    /\ seen = [k \in Lookups |-> 0]
    /\ round = 0 /\ tries = 0 /\ shrinks = 0
    /\ phase = IF how = "rounds" THEN "round" ELSE "sent"
    /\ thinking \in BOOLEAN
    /\ busy = FALSE /\ sharing = NothingShared

-----------------------------------------------------------------------------
(* rounds                                                                  *)

\* The top of the loop; without room at first nothing is looked up.
StartRound ==
    /\ phase = "round"
    /\ IF round = 0 /\ ~Roomy
       THEN phase' = "done" /\ UNCHANGED talk
       ELSE /\ phase' = "sent"
            /\ talk' = IF LastRound THEN Append(talk, Message("user", <<>>, "told", NoteSize)) ELSE talk
    /\ tries' = 0 /\ shrinks' = 0
    /\ UNCHANGED <<how, seen, round, thinking, busy, sharing>>

\* What the model calls, each call a lookup or a bad one.
Asked == UNION {[1..n -> Lookups \cup {Bad}] : n \in 0..MaxAsked}

\* The server answers; calls after the last round are not run.
Replied(calls) ==
    /\ how = "rounds" /\ phase = "sent"
    /\ talk'  = Append(talk, Message("assistant", calls, "", Len(calls)))
    /\ phase' = IF calls = <<>> \/ Told THEN "done" ELSE "lookup"
    /\ UNCHANGED <<how, seen, round, tries, shrinks, thinking, busy, sharing>>

-----------------------------------------------------------------------------
(* post and answered                                                       *)

\* TransportError but ReadTimeout, or a status of 500 and above.
Dropped ==
    /\ phase = "sent"
    /\ IF tries < RETRIES THEN tries' = tries + 1 /\ UNCHANGED phase
                          ELSE phase' = "failed" /\ UNCHANGED tries
    /\ UNCHANGED <<how, talk, seen, round, shrinks, thinking, busy, sharing>>

\* Mutant: a timeout is retried like any other error.
TimedOutRetried ==
    /\ phase = "sent" /\ busy' = TRUE
    /\ IF tries < RETRIES THEN tries' = tries + 1 /\ UNCHANGED phase
                          ELSE phase' = "failed" /\ UNCHANGED tries
    /\ UNCHANGED <<how, talk, seen, round, shrinks, thinking, sharing>>

\* ReadTimeout: the server has the request and has not answered it.
TimedOut ==
    /\ phase = "sent" /\ busy' = TRUE
    /\ phase' = "failed"
    /\ UNCHANGED <<how, talk, seen, round, tries, shrinks, thinking, sharing>>

\* A status of 400 and above that is not about the context.
Refused ==
    /\ phase = "sent" /\ phase' = "failed"
    /\ UNCHANGED <<how, talk, seen, round, tries, shrinks, thinking, busy, sharing>>

Long   == {i \in DOMAIN talk : talk[i].role = "tool" /\ talk[i].size > MinResult}
Halved == [i \in DOMAIN talk |-> IF i \in Long THEN [talk[i] EXCEPT !.size = @ \div 2 + NoteSize, !.cut = TRUE]
                                               ELSE talk[i]]

\* 400, about the context: the longer results are halved and all is sent again.
OutOfContext ==
    /\ phase = "sent"
    /\ IF how = "rounds" /\ shrinks < SHRINKS /\ Long # {}
       THEN talk' = Halved /\ shrinks' = shrinks + 1 /\ tries' = 0 /\ UNCHANGED phase
       ELSE phase' = "failed" /\ UNCHANGED <<talk, shrinks, tries>>
    /\ UNCHANGED <<how, seen, round, thinking, busy, sharing>>

\* complete: an answer that thinking used up is asked for once more without.
Completed ==
    /\ how = "complete" /\ phase = "sent"
    /\ \/ phase' \in {"done", "failed"} /\ UNCHANGED <<thinking, tries>>
       \/ thinking /\ thinking' = FALSE /\ tries' = 0 /\ UNCHANGED phase
    /\ UNCHANGED <<how, talk, seen, round, shrinks, busy, sharing>>

-----------------------------------------------------------------------------
(* Lookups.answer                                                          *)

Want == Last(talk).of

\* Mutant: what failed counts as shown.
RemembersAll(failed, k) == {k}

\* The lookups to remember of one that was made.
Remembered(failed, k) == {k} \ failed

\* Mutant: the room is shared in the order of the calls.
FirstCalled(rest, size) == CHOOSE i \in rest : \A j \in rest : i <= j

\* The room is shared from the shortest result to the longest.
Shortest(rest, size) == CHOOSE i \in rest : \A j \in rest : size[i] < size[j] \/ (size[i] = size[j] /\ i <= j)

\* The next result of made gets its share of what is left.
Given(made, size, sofar) ==
    LET rest  == made \ DOMAIN sofar.to
        next  == Shortest(rest, size)
        taken == Min({size[next], sofar.left \div Cardinality(rest)})
    IN [left |-> sofar.left - taken,
        to   |-> [i \in DOMAIN sofar.to \cup {next} |-> IF i = next THEN taken ELSE sofar.to[i]]]

\* What each result of made gets of left.
Shares(made, size, left) ==
    LET upTo[n \in 0..Cardinality(made)] ==
            IF n = 0 THEN [left |-> left, to |-> <<>>] ELSE Given(made, size, upTo[n - 1])
    IN upTo[Cardinality(made)].to

\* What the answers to n calls have together.
Together(share, n) ==
    LET upTo[i \in 0..n] == IF i = 0 THEN 0 ELSE upTo[i - 1] + (IF i \in DOMAIN share THEN share[i] ELSE 0)
    IN upTo[n]

\* Mutant: a call that cannot be read gets no answer.
AnsweredReadable(calls, answers) == SelectSeq(answers, LAMBDA m : m.of # Bad)

\* Every call is answered, in the order of the calls.
Answered(calls, answers) == [i \in DOMAIN calls |-> answers[i]]

\* The lookups in failed do not succeed.
LookUp(failed) ==
    LET calls     == Want
        noted     == {i \in DOMAIN calls : calls[i] = Bad \/ (calls[i] \in Lookups /\ seen[calls[i]] # 0)}
        first(i)  == Min({j \in 1..i : calls[j] = calls[i]})
        made      == {i \in DOMAIN calls \ noted : first(i) = i}
        size      == [i \in made |-> IF calls[i] \in failed THEN NoteSize ELSE ResultSize[calls[i]]]
        left      == Max({(Room - Used - MinRoom) \div 2 - NoteSize * (Len(calls) - Cardinality(made)), 0})
        share     == Shares(made, size, left)
        isCut(i)  == share[i] < size[i]
        shown(i)  == [Message("tool", calls[i], IF calls[i] \in failed THEN "failed" ELSE "found",
                              IF isCut(i) THEN share[i] + NoteSize ELSE size[i]) EXCEPT !.cut = isCut(i)]
        note(i, says) == Message("tool", calls[i], says, NoteSize)
        repeat(i, cut) == note(i, IF cut THEN "repeatedCut" ELSE "repeated")
        tell(i)   == IF i \in made THEN shown(i)
                     ELSE IF calls[i] = Bad THEN note(i, "unreadable")
                     ELSE IF i \in noted THEN repeat(i, talk[seen[calls[i]]].cut)
                     ELSE IF calls[i] \in failed /\ ~isCut(first(i)) THEN shown(first(i))
                     ELSE repeat(i, isCut(first(i)))
        kept      == UNION {Remembered(failed, calls[i]) : i \in made}
    IN /\ talk' = talk \o Answered(calls, [i \in DOMAIN calls |-> tell(i)])
       /\ seen' = [k \in Lookups |-> IF k \in kept THEN Len(talk) + Min({i \in made : calls[i] = k}) ELSE seen[k]]
       /\ sharing' = [left |-> left, taken |-> Together(share, Len(calls)), cut |-> \E i \in made : isCut(i)]

RunTools ==
    /\ phase = "lookup"
    /\ \E failed \in SUBSET Lookups : LookUp(failed)
    /\ round' = round + 1 /\ phase' = "round"
    /\ UNCHANGED <<how, tries, shrinks, thinking, busy>>

RoundsNext ==
    \/ StartRound \/ RunTools
    \/ \E calls \in Asked : Replied(calls)
    \/ Dropped \/ TimedOut \/ Refused \/ OutOfContext \/ Completed

-----------------------------------------------------------------------------
\* Whatever the model calls, twice in one answer, again later, or in a way that
\* cannot be read, what is sent has one answer to each call, right after the
\* message that makes it and in its order; servers refuse anything else.
CallsHaveAnswers ==
    phase = "sent" => \A i \in DOMAIN talk : talk[i].role = "assistant" =>
        /\ \A n \in DOMAIN talk[i].of : /\ i + n \in DOMAIN talk
                                        /\ talk[i + n].role = "tool" /\ talk[i + n].of = talk[i].of[n]
        /\ i + Len(talk[i].of) + 1 \in DOMAIN talk => talk[i + Len(talk[i].of) + 1].role # "tool"

\* A call is told that its result was already shown only while the messages
\* hold that result whole: not a failure, and not one that was cut, when it
\* came or since, to fit the context.
RepeatsAreTrue ==
    [][\A i \in DOMAIN talk' \ DOMAIN talk : talk'[i].says = "repeated" =>
           \E j \in 1..i : talk'[j].of = talk'[i].of /\ talk'[j].says = "found" /\ ~talk'[j].cut]_roundsVars

\* The results of one answer take no more than their share of the room, and
\* none of them is cut while part of that share is unused.  Counted is what is
\* shown of each result, without the mark of a cut and a repeated failure's copy.
SharesUseTheRoom == sharing.taken <= sharing.left /\ (sharing.cut => sharing.taken = sharing.left)

\* No request is sent while the server may still be working on one of the same
\* conversation.
OneAtATime == busy => phase \in {"failed", "done"}

\* The talk stays one that a server accepts and a model can rely on.
TalkInOrder == [](CallsHaveAnswers /\ SharesUseTheRoom /\ OneAtATime) /\ RepeatsAreTrue
=============================================================================
