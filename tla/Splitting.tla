------------------------------ MODULE Splitting ------------------------------
(***************************************************************************)
(* Which project each request of a session is filed under, where several   *)
(* projects share its working directory: the server decides by the paths    *)
(* a request mentions (services/split.py, services/entries.py), the worker   *)
(* asks the model about the rest (filed in summarizers/session.py) and cuts  *)
(* the note up (shared in cli/worker.py).                                   *)
(***************************************************************************)
EXTENDS Integers, Sequences, FiniteSets, FiniteSetsExt, SequencesExt

CONSTANTS
    Owners,         \* projects
    Own,            \* the project of the job
    Foreign,        \* a name that is no project's
    Texts,          \* what a request may be: its lines, and whether what it asks is short
    MaxTexts,       \* bound: requests of the session
    MinVotes        \* PATH_MIN_VOTES

ASSUME OwnIsAProject   == Own \in Owners /\ Foreign \notin Owners
ASSUME VotesAssumption == MinVotes \in Nat \ {0}

VARIABLES
    entry,          \* where each project's entry puts it, seen from the working directory
    session,        \* the requests
    plan,           \* what the claim carries: the split's rows and the names of the candidates
    filed,          \* what the worker decided so far, request by request
    notes           \* the numbers of the items in the submitted note of each project

splittingVars == <<entry, session, plan, filed, notes>>

\* A part has a prefix; the whole has none, nor has a container.
Scopes  == {"elsewhere", "part", "whole", "container"}
Unnoted == [o \in Owners |-> {}]
NoPlan  == [rows |-> <<>>, names |-> {}]

SplittingInit ==
    /\ entry \in [Owners -> Scopes]
    /\ session \in UNION {[1..n -> Texts] : n \in 1..MaxTexts}
    /\ plan = NoPlan /\ filed = <<>> /\ notes = Unnoted

-----------------------------------------------------------------------------
(* The plan.                                                               *)

Scoped(scope) == {o \in Owners : entry[o] = scope}
Names         == Owners \ Scoped("elsewhere")

\* The container that candidates takes, the first by name, or the job's project.
Container == IF Scoped("container") = {} THEN Own ELSE CHOOSE o \in Scoped("container") : TRUE

Weight == [edit |-> 3, active |-> 2, plain |-> 1]

\* votes_of: a line is a vote for the project whose prefix it holds.
Votes(text, o) == FoldSeq(LAMBDA line, sum : sum + (IF line.of = o THEN Weight[line.kind] ELSE 0), 0, text.lines)
Total(text)    == MapThenSumSet(LAMBDA o : Votes(text, o), Scoped("part"))
Leading(text)  == {o \in Scoped("part") : Total(text) >= MinVotes /\ 4 * Votes(text, o) >= 3 * Total(text)}

Row(how, project) == [how |-> how, project |-> project]

\* Mutant: a reply goes where the session's directory does.
DecidedByContainer(text, previous) ==
    IF Leading(text) # {} THEN Row("path", CHOOSE o \in Leading(text) : TRUE)
    ELSE IF Total(text) = 0 /\ text.short THEN Row("continue", Container)
    ELSE Row("llm", Container)

\* decided
Decided(text, previous) ==
    IF Leading(text) # {} THEN Row("path", CHOOSE o \in Leading(text) : TRUE)
    ELSE IF Total(text) = 0 /\ text.short THEN Row("continue", previous)
    ELSE Row("llm", Container)

\* The rows so far, and previous, the last project that was decided.
Unsplit == [rows |-> <<>>, previous |-> Container]

\* Mutant: a request that is asked about counts as decided.
PlacedAsAsked(text, sofar) ==
    LET row == Decided(text, sofar.previous)
    IN [rows |-> Append(sofar.rows, row), previous |-> row.project]

Placed(text, sofar) ==
    LET row == Decided(text, sofar.previous)
    IN [rows     |-> Append(sofar.rows, row),
        previous |-> IF row.how = "llm" THEN sofar.previous ELSE row.project]

\* plan
Split ==
    LET upTo[n \in Nat] == IF n = 0 THEN Unsplit ELSE Placed(session[n], upTo[n - 1])
    IN upTo[Len(session)].rows

-----------------------------------------------------------------------------
(* The steps.                                                              *)

\* EntryService.write, at any time; a plan that was handed out does not change.
WriteEntry(o, scope) ==
    /\ entry' = [entry EXCEPT ![o] = scope]
    /\ UNCHANGED <<session, plan, filed, notes>>

ClaimSplit ==
    /\ plan = NoPlan
    /\ plan' = [rows |-> IF Scoped("part") = {} THEN <<>> ELSE Split, names |-> Names]
    /\ UNCHANGED <<entry, session, filed, notes>>

Previous == IF filed = <<>> THEN Own ELSE Last(filed)

\* Mutant: the answer is taken as it is.
ChosenAnyway(choice) == choice

Chosen(choice) == IF choice \in plan.names THEN choice ELSE Previous

\* One turn of the loop of filed; the model answers with any name.
FileNext ==
    /\ Len(filed) < Len(plan.rows) /\ notes = Unnoted
    /\ LET row == plan.rows[Len(filed) + 1]
       IN \/ row.how # "llm" /\ filed' = Append(filed, row.project)
          \/ row.how = "llm" /\ \E choice \in Owners \cup {Foreign} : filed' = Append(filed, Chosen(choice))
    /\ UNCHANGED <<entry, session, plan, notes>>

\* The provider fails, and the next one files from the start.
FilingFails ==
    /\ filed # <<>> /\ notes = Unnoted
    /\ filed' = <<>>
    /\ UNCHANGED <<entry, session, plan, notes>>

\* shared: a note for each project; some requests may have no item.
Share ==
    /\ plan # NoPlan /\ Len(filed) = Len(plan.rows) /\ notes = Unnoted
    /\ \E items \in (SUBSET DOMAIN session) \ {{}} :
          notes' = IF filed = <<>> THEN [Unnoted EXCEPT ![Own] = items]
                   ELSE [o \in Owners \cup Range(filed) |-> {n \in items : filed[n] = o}]
    /\ UNCHANGED <<entry, session, plan, filed>>

\* The job is requeued, for a session that may have gone on.
SplitAgain ==
    /\ notes # Unnoted
    /\ plan' = NoPlan /\ filed' = <<>> /\ notes' = Unnoted
    /\ session' \in {session} \cup IF Len(session) < MaxTexts THEN {Append(session, text) : text \in Texts} ELSE {}
    /\ UNCHANGED entry

SplittingNext ==
    \/ \E o \in Owners, scope \in Scopes : WriteEntry(o, scope)
    \/ ClaimSplit \/ FileNext \/ FilingFails \/ Share \/ SplitAgain

SplittingSpec == SplittingInit /\ [][SplittingNext]_splittingVars

-----------------------------------------------------------------------------
\* A note goes to a project that the plan named or to the job's own, whatever
\* the model answers and however the entries change meanwhile (filed).
OnlyNamedProjects ==
    \A o \in DOMAIN notes : notes[o] # {} => o \in plan.names \cup {Own}

IsReply(n)      == plan.rows # <<>> /\ plan.rows[n].how = "continue"
AskedOfModel(n) == plan.rows # <<>> /\ plan.rows[n].how = "llm"

\* A short reply that only continues the previous work belongs to the previous
\* request's project (consts/prompts.py, SESSION_SPLIT), and so do the replies to
\* a reply: whenever the plan knew where the previous request goes.
RepliesFollow ==
    \A o \in DOMAIN notes : \A n \in notes[o] :
       IsReply(n) /\ n > 1 /\ ~AskedOfModel(n - 1) => o = filed[n - 1]

\* Where the model placed the previous request the code departs from that rule:
\* the plan is made before the model is asked, so the reply goes past all that
\* were asked about, to the project of the last request that the plan did decide,
\* and never to one that nothing but an answer of the model names (decided, plan).
RepliesPassOver ==
    \A o \in DOMAIN notes : \A n \in notes[o] :
       IsReply(n) /\ n > 1 /\ AskedOfModel(n - 1) =>
          LET before == {m \in 1..(n - 1) : ~AskedOfModel(m)}
          IN IF before = {} THEN o \in plan.names \cup {Own} ELSE o = filed[Max(before)]

\* Server and worker file a session by one plan, each its part of it.
FiledByPlan == OnlyNamedProjects /\ RepliesFollow /\ RepliesPassOver
=============================================================================
