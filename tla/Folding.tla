------------------------------- MODULE Folding -------------------------------
(***************************************************************************)
(* How a text that is longer than the model's context is summarized         *)
(* (Summarizer.fold in backend/summarizers/base.py, chunk_transcript and     *)
(* split_text in backend/summarizers/prompt.py): it is cut into parts that    *)
(* fit, each part is summarized, and the answers together are the next text. *)
(***************************************************************************)
EXTENDS Integers, Sequences, FiniteSets, FiniteSetsExt, SequencesExt

CONSTANTS
    Budget,         \* tokens a part may have
    CharsPerToken,  \* CHARS_PER_TOKEN
    Separator,      \* characters between two messages, or two answers
    MessageSizes,   \* characters of a rendered message
    AnswerSizes,    \* characters of an answer
    MaxMessages,    \* bound: messages
    MaxReduce       \* MAX_REDUCE_ROUNDS

\* A token is at least two characters; a rendered message has a heading.
ASSUME FoldAssumption ==
    /\ Budget \in Nat \ {0} /\ CharsPerToken \in Nat \ {0, 1}
    /\ {Separator, MaxMessages, MaxReduce} \cup AnswerSizes \subseteq Nat
    /\ MessageSizes \subseteq Nat \ {0}

VARIABLES
    messages,       \* sizes
    chunks,         \* texts of this round
    reductions,     \* rounds so far
    outcome,        \* "none", "summary" or "failed"
    summary,        \* the messages that the summary was made of
    unanswered      \* history: the messages of parts that were answered with nothing

foldVars == <<messages, chunks, reductions, outcome, summary, unanswered>>

-----------------------------------------------------------------------------
(* Texts: each character tells of which messages it is, and its place.      *)

Text(of, size) == [n \in 1..size |-> [of |-> of, at |-> n]]
Gap            == Text({}, Separator)
Tokens(size)   == size \div CharsPerToken + 1       \* estimate_tokens
Message1(i)    == Text({i}, messages[i])
OfWhich(text)  == UNION {text[n].of : n \in DOMAIN text}
Join(texts)    == FlattenSeq([n \in DOMAIN texts |-> IF n = 1 THEN texts[n] ELSE Gap \o texts[n]])

\* Mutant: parts of as many characters as the budget stands for.
PartFull == Budget * CharsPerToken

PartSize == Max({(Budget - 1) * CharsPerToken, 1})

\* split_text
Pieces(text) ==
    IF Tokens(Len(text)) <= Budget THEN <<text>>
    ELSE [n \in 1..(Len(text) + PartSize - 1) \div PartSize |->
              SubSeq(text, (n - 1) * PartSize + 1, Min({n * PartSize, Len(text)}))]

Gathered(parts, held, tokens) == [parts |-> parts, held |-> held, tokens |-> tokens]

\* flush of chunk_transcript
Flushed(g) == IF g.held = <<>> THEN g ELSE Gathered(g.parts \o Pieces(Join(g.held)), <<>>, 0)

\* Mutant: what was gathered before a long message comes after it.
TakeLongFirst(g, i) ==
    LET tokens == Tokens(messages[i])
        room   == IF g.held # <<>> /\ g.tokens + tokens > Budget THEN Flushed(g) ELSE g
    IN IF tokens > Budget THEN [g EXCEPT !.parts = @ \o Pieces(Message1(i))]
       ELSE Gathered(room.parts, Append(room.held, Message1(i)), room.tokens + tokens)

\* One turn of its loop: a message that is too long stands alone.
TakeMessage(g, i) ==
    LET tokens == Tokens(messages[i])
        full   == g.held # <<>> /\ g.tokens + tokens > Budget
        room   == IF full THEN Flushed(g) ELSE g
    IN IF tokens > Budget
       THEN LET f == Flushed(g) IN [f EXCEPT !.parts = @ \o Pieces(Message1(i))]
       ELSE Gathered(room.parts, Append(room.held, Message1(i)), room.tokens + tokens)

\* chunk_transcript
Chunked ==
    LET upTo[n \in 0..Len(messages)] ==
            IF n = 0 THEN Gathered(<<>>, <<>>, 0) ELSE TakeMessage(upTo[n - 1], n)
    IN Flushed(upTo[Len(messages)]).parts

-----------------------------------------------------------------------------
(* fold                                                                    *)

FoldInit ==
    /\ messages \in UNION {[1..n -> MessageSizes] : n \in 0..MaxMessages}
    /\ chunks = Chunked
    /\ reductions = 0 /\ outcome = "none" /\ summary = {} /\ unanswered = {}

\* Each part is summarized, and the answers are split again; an answer may be empty.
Reduce ==
    /\ outcome = "none" /\ Len(chunks) > 1 /\ reductions < MaxReduce
    /\ \E size \in [DOMAIN chunks -> AnswerSizes] :
          /\ chunks' = Pieces(Join([n \in DOMAIN chunks |-> Text(OfWhich(chunks[n]), size[n])]))
          /\ unanswered' = unanswered \cup UNION {OfWhich(chunks[n]) : n \in {m \in DOMAIN chunks : size[m] = 0}}
    /\ reductions' = reductions + 1
    /\ UNCHANGED <<messages, outcome, summary>>

\* Mutant: after the last round the first part is summarized.
SufficesAnyway(parts) == TRUE

Suffices(parts) == Len(parts) <= 1

\* The last prompt; without a part there is nothing in it.
Conclude ==
    /\ outcome = "none" /\ (Len(chunks) <= 1 \/ reductions = MaxReduce)
    /\ IF Suffices(chunks)
       THEN /\ outcome' = "summary"
            /\ summary' = IF chunks = <<>> THEN {} ELSE OfWhich(Head(chunks))
       ELSE outcome' = "failed" /\ UNCHANGED summary
    /\ UNCHANGED <<messages, chunks, reductions, unanswered>>

FoldNext == Reduce \/ Conclude

-----------------------------------------------------------------------------
\* No part is longer than the context, however messages were gathered into it
\* and wherever a long one was cut, in the first round and in the others.
PartsFit == \A n \in DOMAIN chunks : Tokens(Len(chunks[n])) <= Budget

\* The parts of the first round are the messages, every character once and in
\* order.
Spoken(text) == FlattenSeq([n \in DOMAIN text |-> IF text[n].of = {} THEN <<>> ELSE <<text[n]>>])
Read(texts)  == FlattenSeq([n \in DOMAIN texts |-> Spoken(texts[n])])
ReadInOrder  == reductions = 0 => Read(chunks) = Read([i \in DOMAIN messages |-> Message1(i)])

\* A summary is made of all messages, over however many rounds, but for those
\* about which a model answered nothing; when the last round leaves more than one
\* part there is none.
MadeOfAll ==
    outcome = "summary" => DOMAIN messages \ unanswered \subseteq summary /\ summary \subseteq DOMAIN messages

\* Together: a text is folded without losing a part of it.
FoldKeepsAll == PartsFit /\ ReadInOrder /\ MadeOfAll
=============================================================================
