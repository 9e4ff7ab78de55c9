----------------------------- MODULE Extraction -----------------------------
(***************************************************************************)
(* How a stored transcript is read (backend/services/extract.py): the lines *)
(* of the file become the requests of the session, and under each of them    *)
(* what was said and done about it.  The file is read whole every time, one  *)
(* line after the other; it grows while the session goes on, so what was      *)
(* read before is read again with more behind it.  Checkpoints, the split     *)
(* and the sweep of trivial sessions rely on how the two readings agree.      *)
(***************************************************************************)
EXTENDS Integers, Sequences, FiniteSets, FiniteSetsExt, SequencesExt

CONSTANTS
    Calls,          \* ids of tool calls
    Tool,           \* what each calls: "edit" (FILE_TOOLS), "run" (shown as a command), "word" (a command whose
                    \* text has the word for failure in it), "look" (SKIP_TOOLS), "ask"
    Returning,      \* bound: the calls whose results a transcript may have
    MaxCommands,    \* MAX_COMMANDS
    MaxLines        \* bound: lines of the file

ASSUME ToolAssumption        == Tool \in [Calls -> {"edit", "run", "word", "look", "ask"}]
ASSUME MaxCommandsAssumption == MaxCommands \in Nat

VARIABLES
    agent,          \* whose transcript it is: "claude" or "codex"
    file,           \* its lines so far
    reader          \* Reader after them

extractionVars == <<agent, file, reader>>

-----------------------------------------------------------------------------
(* Lines of a transcript; a line with several blocks counts as several.     *)

Line(kind) == [kind |-> kind]
Request(long)  == [kind |-> "request", long |-> long]   \* long: MIN_REQUEST_CHARS, not only a command
WithFile(long) == [kind |-> "active", long |-> long]

Called(c)        == [kind |-> "call", call |-> c]
Result(c, error) == [kind |-> "result", call |-> c, error |-> error]

\* Both: a request, and what the assistant says.  Claude: a queued command,
\* results of calls, and what says nothing (isMeta, isCompactSummary).  Codex:
\* an active file with a request, a goal that continues, an answer, CODEX_NOISE.
Transcribed(who) ==
    {Request(long) : long \in BOOLEAN} \cup {Line("say")} \cup {Called(c) : c \in Calls} \cup
    IF who = "claude"
    THEN {Line("queued"), Line("meta")} \cup
         {Result(c, FALSE) : c \in Returning} \cup {Result(c, TRUE) : c \in {d \in Returning : Tool[d] # "ask"}}
    ELSE {WithFile(long) : long \in BOOLEAN} \cup {Line("goal"), Line("answer"), Line("noise")}

-----------------------------------------------------------------------------
(* Segment and Reader.                                                     *)

\* Under a request: notes, and lines of traces; a trace tells of a call.
Note(what)  == [what |-> what, traces |-> <<>>]
Tools(kept) == [what |-> <<"tools">>, traces |-> kept]
Trace(kind, c) == <<kind, c>>

NewSegment(long) == [long |-> long, lines |-> <<>>, commands |-> 0, skipped |-> 0]
NewReader        == [segments |-> <<>>, traces |-> <<>>, pending |-> {}]

\* Mutant: an edit counts as a command.
LimitsAll(trace) == trace[1] \notin {"failed", "word"}

\* An edit begins with a word of its own; a failure is known by the word in its
\* text, which the text of a command that went well may have too.
Limited(trace) == trace[1] \notin {"edit", "failed", "word"}

Adding(seen, kept, commands, skipped) ==
    [seen |-> seen, kept |-> kept, commands |-> commands, skipped |-> skipped]

\* Mutant: what is left out is not counted.
AddTraceSilently(a, t) ==
    CASE t \in a.seen -> a
      [] t \notin a.seen /\ ~Limited(t) ->
            Adding(a.seen \cup {t}, Append(a.kept, t), a.commands, a.skipped)
      [] t \notin a.seen /\ Limited(t) /\ a.commands < MaxCommands ->
            Adding(a.seen \cup {t}, Append(a.kept, t), a.commands + 1, a.skipped)
      [] OTHER -> Adding(a.seen \cup {t}, a.kept, a.commands, a.skipped)

\* One trace of Segment.add: each counts once (dict.fromkeys), and of the
\* commands as many as the request has room for.
AddTrace(a, t) ==
    CASE t \in a.seen -> a
      [] t \notin a.seen /\ ~Limited(t) ->
            Adding(a.seen \cup {t}, Append(a.kept, t), a.commands, a.skipped)
      [] t \notin a.seen /\ Limited(t) /\ a.commands < MaxCommands ->
            Adding(a.seen \cup {t}, Append(a.kept, t), a.commands + 1, a.skipped)
      [] OTHER -> Adding(a.seen \cup {t}, a.kept, a.commands, a.skipped + 1)

Added(segment, traces) ==
    LET upTo[n \in 0..Len(traces)] ==
            IF n = 0 THEN Adding({}, <<>>, segment.commands, segment.skipped)
            ELSE AddTrace(upTo[n - 1], traces[n])
    IN upTo[Len(traces)]

\* Segment.add
Add(segment, traces) ==
    LET added == Added(segment, traces)
    IN [segment EXCEPT !.lines    = IF added.kept = <<>> THEN @ ELSE Append(@, Tools(added.kept)),
                       !.commands = added.commands,
                       !.skipped  = added.skipped]

WithLast(segments, s) == [segments EXCEPT ![Len(segments)] = s]
WithNote(s, what)     == [s EXCEPT !.lines = Append(@, Note(what))]

\* flush: traces before the first request are dropped.
Drained(r) ==
    IF r.traces = <<>> \/ r.segments = <<>> THEN [r EXCEPT !.traces = <<>>]
    ELSE [r EXCEPT !.traces = <<>>, !.segments = WithLast(@, Add(Last(@), r.traces))]

\* note: a line that the request has already is not repeated.
Noted(r, what) ==
    LET f == Drained(r)
    IN IF f.segments = <<>> \/ Note(what) \in Range(Last(f.segments).lines) THEN f
       ELSE [f EXCEPT !.segments = WithLast(@, WithNote(Last(@), what))]

Open(r, long) ==
    LET f == Drained(r) IN [f EXCEPT !.segments = Append(@, NewSegment(long))]

Traced(r, trace) == [r EXCEPT !.traces = Append(@, trace)]

-----------------------------------------------------------------------------
(* One line.                                                               *)

\* read_claude_assistant, read_codex_call: nothing before the first request.
\* Only Claude's calls are remembered until their results come.
TakeCall(r, c) ==
    LET known == IF agent = "claude" THEN [r EXCEPT !.pending = @ \cup {c}] ELSE r
    IN IF r.segments = <<>> THEN r
       ELSE CASE Tool[c] = "ask"  -> Noted(known, <<"asked", c>>)
              [] Tool[c] = "look" -> known
              [] OTHER            -> Traced(known, Trace(Tool[c], c))

\* Mutant: a result leaves its call pending.
TakeResultAgain(r, line) ==
    IF line.call \notin r.pending THEN r
    ELSE IF Tool[line.call] = "ask" THEN Noted(r, <<"answered", line.call>>)
    ELSE IF line.error THEN Traced(r, Trace("failed", line.call)) ELSE r

\* Mutant: an answer goes under the request that asked.
TakeResultWhereAsked(r, line) ==
    LET done  == [r EXCEPT !.pending = @ \ {line.call}]
        asked == {i \in DOMAIN r.segments : Note(<<"asked", line.call>>) \in Range(r.segments[i].lines)}
    IN IF line.call \notin r.pending THEN r
       ELSE IF Tool[line.call] = "ask"
       THEN [done EXCEPT !.segments[Max(asked)] = WithNote(@, <<"answered", line.call>>)]
       ELSE IF line.error THEN Traced(done, Trace("failed", line.call)) ELSE done

\* read_claude_user of a tool_result: an answer, a failure, or nothing.
TakeResult(r, line) ==
    LET done == [r EXCEPT !.pending = @ \ {line.call}]
    IN IF line.call \notin r.pending THEN r
       ELSE IF Tool[line.call] = "ask" THEN Noted(done, <<"answered", line.call>>)
       ELSE IF line.error THEN Traced(done, Trace("failed", line.call)) ELSE done

\* read_codex_message of a request with an active file.
TakeActive(r, long) ==
    LET opened == Open(r, long)
    IN [opened EXCEPT !.segments = WithLast(@, WithNote(Last(@), <<"active">>))]

TakeLine(r, line) ==
    CASE line.kind = "request" -> Open(r, line.long)
      [] line.kind = "active"  -> TakeActive(r, line.long)
      [] line.kind = "call"    -> TakeCall(r, line.call)
      [] line.kind = "result"  -> TakeResult(r, line)
      [] line.kind = "say"     -> IF r.segments = <<>> THEN r ELSE Noted(r, <<"said">>)
      [] line.kind \in {"queued", "goal", "answer"} -> Noted(r, <<line.kind>>)
      [] line.kind \in {"meta", "noise"} -> r

-----------------------------------------------------------------------------
(* The file grows; a reading of it is the reader after its lines, flushed.  *)

ExtractionInit == agent \in {"claude", "codex"} /\ file = <<>> /\ reader = NewReader

Goes(line) ==
    /\ Len(file) < MaxLines
    /\ file'   = Append(file, line)
    /\ reader' = TakeLine(reader, line)
    /\ UNCHANGED agent

ExtractionNext == \E line \in Transcribed(agent) : Goes(line)

Reading == Drained(reader).segments

\* An edit is seen unless it comes first on its line, which begins with a word
\* of its own.  Abstracted: notes and commands are split at commas as well, and
\* what follows one may look like an edit; such a line stays as edits do.
WorthIt(s) ==
    s.long \/ \E k \in DOMAIN s.lines : \E j \in DOMAIN s.lines[k].traces : j > 1 /\ s.lines[k].traces[j][1] = "edit"

\* Mutant: only the request that is open counts.
SubstantialLast(segments) == segments # <<>> /\ WorthIt(Last(segments))

Substantial(segments) == \E i \in DOMAIN segments : WorthIt(segments[i])

-----------------------------------------------------------------------------
(* What the file says, to compare with what is read.                       *)

Opens(k)    == file[k].kind \in {"request", "active"}
OpenAt(k)   == Cardinality({j \in 1..k : Opens(j)})
IsCall(k)   == file[k].kind = "call"
ShownIn(s)  == UNION {Range(s.lines[k].traces) : k \in DOMAIN s.lines}
\* Where the commands of a request are shown that the limit is for.
CommandsOf(s) ==
    UNION {{<<i, j>> : j \in {m \in DOMAIN s.lines[i].traces : s.lines[i].traces[m][1] = "run"}} : i \in DOMAIN s.lines}
\* The call of the result at k was made since the first request, and had none.
Awaited(k)  == \E j \in 1..k : /\ IsCall(j) /\ file[j].call = file[k].call /\ OpenAt(j) > 0
                               /\ \A m \in j..k - 1 : file[m].kind = "result" => file[m].call # file[k].call

\* What was read under a request stays as it was once another request has
\* followed: the longer file is read alike up to there.  The digests of
\* checkpoints (summarizers/session.py) and the rows of the split are of such
\* requests.
EarlierRequestsStay ==
    [][LET before == Reading  after == Reading'
       IN \A i \in 1..Len(before) - 1 : i \in DOMAIN after /\ after[i] = before[i]]_extractionVars

\* Every edit, every failure of a call that was waiting for its result, and
\* every command whose text has the word for failure, is shown under the request
\* that was open when it came, however many commands that request ran.
EditsAndFailuresShown == LET now == Reading IN
    \A k \in DOMAIN file :
        /\ IsCall(k) /\ OpenAt(k) > 0 /\ Tool[file[k].call] \in {"edit", "word"}
              => Trace(Tool[file[k].call], file[k].call) \in ShownIn(now[OpenAt(k)])
        /\ file[k].kind = "result" /\ file[k].error /\ Awaited(k)
              => Trace("failed", file[k].call) \in ShownIn(now[OpenAt(k)])

\* A command of a request is either shown under it or among those that it says
\* were left out, and no request shows more than MAX_COMMANDS commands beside
\* those whose text has the word for failure in it, which no limit holds for.
LeftOutIsSaid == LET now == Reading IN
    \A k \in DOMAIN file :
        IsCall(k) /\ OpenAt(k) > 0 /\ Tool[file[k].call] = "run" =>
            LET s == now[OpenAt(k)]
            IN /\ Trace("run", file[k].call) \in ShownIn(s) \/ s.skipped > 0
               /\ Cardinality(CommandsOf(s)) <= MaxCommands

\* A session that asked for something worth a note does not stop doing so as
\* it goes on: the sweep that settles trivial sessions may read it at any time.
StaysSubstantial == [][Substantial(Reading) => Substantial(Reading')]_extractionVars

\* Of a question that Claude put by a call no more answers are shown than it was
\* put, whatever results the transcript repeats.  Nothing is said of Codex: its
\* answers are messages of the user, noted with no question looked for.
OutcomesHaveCalls == LET now == Reading IN
    \A c \in Calls :
        Cardinality({i \in DOMAIN now : Note(<<"answered", c>>) \in Range(now[i].lines)})
            <= Cardinality({k \in DOMAIN file : file[k] = Called(c)})

\* Readings of a session agree with its file and with each other.
ReadingsAgree ==
    /\ [](EditsAndFailuresShown /\ LeftOutIsSaid /\ OutcomesHaveCalls)
    /\ EarlierRequestsStay /\ StaysSubstantial
=============================================================================
