------------------------------- MODULE Worker -------------------------------
(***************************************************************************)
(* One worker process (backend/cli/worker.py): the supervisor that keeps a *)
(* slot per seat of every provider, the slots that claim for themselves    *)
(* and fall back to each other's providers, the gate that counts seats,    *)
(* and an orderly stop, a kill and a restart of the process.               *)
(*                                                                         *)
(* The event loop runs one task at a time, so a step is what a task does   *)
(* between two awaits; an answer the network loses is a step of its own.   *)
(* JobQueue has the server's side in full.  Here a job is only waiting,    *)
(* claimed or settled, and its claim token is the slot that asked: a slot  *)
(* holds one claim at a time.                                              *)
(***************************************************************************)
EXTENDS Integers, FiniteSets

CONSTANTS
    Providers,      \* LLM provider names
    Place,          \* where WorkerConfig.providers lists them: by priority
    Background,     \* the providers with background_jobs set
    MinAge,         \* min_job_age_seconds of each provider
    Configs,        \* max_concurrency of each provider, 0 while it is inactive
    MaxSeats,       \* bound: the largest max_concurrency
    Jobs,           \* the jobs the wiki has work for
    Chores,         \* those with a priority: background jobs
    MaxAge,         \* bound: age of a job
    Clocks,         \* how far the worker's clock is off the wiki's
    NoJob, NoSlot, NoOne

ASSUME NameAssumption   == NoJob \notin Jobs /\ NoOne \notin Providers /\ {"none", "sent", "empty"} \cap Jobs = {}
ASSUME PlaceAssumption  == Place \in [Providers -> Nat] /\ \A p, q \in Providers : Place[p] = Place[q] => p = q
ASSUME SubsetAssumption == Background \subseteq Providers /\ Chores \subseteq Jobs
ASSUME BoundAssumption  == MaxSeats \in Nat /\ MaxAge \in Nat /\ Clocks \subseteq Int
ASSUME AgeAssumption    == MinAge \in [Providers -> Nat]
ASSUME ConfigAssumption == Configs \subseteq [Providers -> 0..MaxSeats]

Slots == Providers \X (0..(MaxSeats - 1))
ASSUME SlotAssumption == NoSlot \notin Slots /\ IsFiniteSet(Slots)

VARIABLES
    queue,      \* what the wiki knows of each job
    cached,     \* ConfigCache.config
    slot,       \* the slot tasks, each with the job it holds
    request,    \* the /claim request of each slot, or its answer on the way
    inflight,   \* Gate.inflight
    life,       \* the process: up, stopping or down
    dropped     \* claims nobody is left to end: a request was lost, the process killed

vars == <<queue, cached, slot, request, inflight, life, dropped>>

-----------------------------------------------------------------------------
Phases  == {"none", "idle", "claiming", "unclaiming", "working", "submitting",
            "releasing", "failing", "handing", "ended"}
Holding == {"working", "submitting", "releasing", "failing"}

NoConfig == [p \in Providers |-> 0]

Task == [phase: Phases, job: Jobs \cup {NoJob}, at: Providers \cup {NoOne}, todo: SUBSET Providers,
         failed: SUBSET Providers, busy: BOOLEAN, later: BOOLEAN, config: Configs \cup {NoConfig}]

NoTask == [phase |-> "none", job |-> NoJob, at |-> NoOne, todo |-> {},
           failed |-> {}, busy |-> FALSE, later |-> FALSE, config |-> NoConfig]

Idle  == [NoTask EXCEPT !.phase = "idle"]
Ended == [NoTask EXCEPT !.phase = "ended"]

Init ==
    /\ queue    = [j \in Jobs |-> [status |-> "PENDING", holder |-> NoSlot, age |-> 0]]
    /\ cached   = NoConfig
    /\ slot     = [k \in Slots |-> NoTask]
    /\ request  = [k \in Slots |-> "none"]
    /\ inflight = [p \in Providers |-> 0]
    /\ life     = "up"
    /\ dropped  = {}

-----------------------------------------------------------------------------
(* The wiki: the handlers of JobQueue, as far as a worker can tell.        *)

Held(k) == slot[k].job # NoJob /\ queue[slot[k].job].status = "CLAIMED" /\ queue[slot[k].job].holder = k

Settle(j, status) == queue' = [queue EXCEPT ![j].status = status, ![j].holder = NoSlot]

Ripen(j) ==
    /\ queue[j].age < MaxAge
    /\ queue' = [queue EXCEPT ![j].age = @ + 1]
    /\ UNCHANGED <<cached, slot, request, inflight, life, dropped>>

Continue(j) ==
    /\ queue[j].status \in {"DONE", "FAILED"}
    /\ queue' = [queue EXCEPT ![j].status = "PENDING", ![j].age = 0]
    /\ UNCHANGED <<cached, slot, request, inflight, life, dropped>>

Reclaim(j) ==
    /\ queue[j].status = "CLAIMED"
    /\ Settle(j, "PENDING")
    /\ dropped' = dropped \ {j}
    /\ UNCHANGED <<cached, slot, request, inflight, life>>

ServeClaim(k) ==
    /\ request[k] = "sent"
    /\ \/ \E j \in Jobs :
            /\ queue[j].status = "PENDING" /\ queue[j].age >= MinAge[k[1]]
            /\ j \in Chores => k[1] \in Background
            /\ queue' = [queue EXCEPT ![j].status = "CLAIMED", ![j].holder = k]
            /\ request' = [request EXCEPT ![k] = j]
       \/ request' = [request EXCEPT ![k] = "empty"] /\ UNCHANGED queue
    /\ UNCHANGED <<cached, slot, inflight, life, dropped>>

-----------------------------------------------------------------------------
(* The supervisor.  The owner may have set any config since the last time;  *)
(* a reload that fails, or is answered 304, leaves the one it had.         *)

Wanted(c, k) == k[2] < c[k[1]]

NeverStarted(k) == slot[k].phase = "none"

Missing(k) == slot[k].phase \in {"none", "ended"}

Supervise ==
    /\ life = "up"
    /\ cached' \in Configs \cup {cached}
    /\ slot' = [k \in Slots |-> IF Missing(k) /\ Wanted(cached', k) THEN Idle ELSE slot[k]]
    /\ UNCHANGED <<queue, request, inflight, life, dropped>>

Ask(k) ==
    /\ slot[k].phase = "idle"
    /\ \/ /\ Wanted(cached, k)
          /\ slot' = [slot EXCEPT ![k].phase = "claiming", ![k].config = cached]
          /\ request' = [request EXCEPT ![k] = "sent"]
       \/ /\ ~Wanted(cached, k)
          /\ slot' = [slot EXCEPT ![k] = Ended]
          /\ UNCHANGED request
    /\ UNCHANGED <<queue, cached, inflight, life, dropped>>

-----------------------------------------------------------------------------
(* process(): the claimed job goes from provider to provider.              *)

(* fallback_order: the provider that claimed comes first, then the others  *)
(* as the config lists them.  Which of them a refined job may go to is     *)
(* JobQueue's Fallbacks.                                                   *)
Candidates(c, first, j) ==
    {p \in Providers : (p = first \/ c[p] > 0) /\ (j \in Chores => p \in Background)}

Before(first, p, q) == p # q /\ (p = first \/ (q # first /\ Place[p] < Place[q]))

FreeOneTooMany(c, seats, p) == seats[p] <= c[p]

Free(c, seats, p) == seats[p] < c[p]

SeatKept(k) == inflight

SeatGivenTwice(k) ==
    IF slot[k].phase = "working" THEN [inflight EXCEPT ![slot[k].at] = @ - 2] ELSE inflight

(* The seat a task sits on when it stops working, for whatever reason.     *)
SeatBack(k) ==
    IF slot[k].phase = "working" THEN [inflight EXCEPT ![slot[k].at] = @ - 1] ELSE inflight

VerdictWhateverIsBusy(s, rest) == IF s.later THEN "releasing" ELSE "failing"

VerdictWithoutRelease(s, rest) ==
    IF s.busy \/ rest # {} THEN "idle" ELSE IF s.later THEN "releasing" ELSE "failing"

(* Nobody takes the job: somebody busy or still too young may do it later. *)
Verdict(s, rest) == IF s.busy \/ rest # {} \/ s.later THEN "releasing" ELSE "failing"

(* The first of `rest` with a free seat gets the job; those passed over    *)
(* are busy.                                                               *)
GoOn(k, s, rest, seats) ==
    LET free == {p \in rest : Free(s.config, seats, p)} IN
    \/ \E p \in free :
        /\ \A q \in free \ {p} : Before(k[1], p, q)
        /\ slot' = [slot EXCEPT ![k] = [s EXCEPT !.phase = "working", !.at = p,
                        !.todo = {q \in rest : Before(k[1], p, q)},
                        !.busy = @ \/ \E q \in rest : Before(k[1], q, p)]]
        /\ inflight' = [seats EXCEPT ![p] = @ + 1]
    \/ /\ free = {}
       /\ slot' = [slot EXCEPT ![k] = [s EXCEPT !.phase = Verdict(s, rest), !.at = NoOne, !.todo = {}]]
       /\ inflight' = seats

Begin(k) ==
    LET j == request[k] IN
    /\ slot[k].phase = "claiming" /\ j \in Jobs
    /\ \E skew \in Clocks :
        LET order == Candidates(slot[k].config, k[1], j)
            young == {p \in order : queue[j].age + skew < MinAge[p]}
            s     == [slot[k] EXCEPT !.job = j, !.later = young # {}]
        IN  \/ order # young /\ GoOn(k, s, order \ young, inflight)
            \/ /\ order = young
               /\ slot' = [slot EXCEPT ![k] = [s EXCEPT !.phase = "releasing"]]
               /\ UNCHANGED inflight
    /\ request' = [request EXCEPT ![k] = "none"]
    /\ UNCHANGED <<queue, cached, life, dropped>>

ProviderFails(k) ==
    /\ slot[k].phase = "working"
    /\ GoOn(k, [slot[k] EXCEPT !.failed = @ \cup {slot[k].at}], slot[k].todo, SeatBack(k))
    /\ UNCHANGED <<queue, cached, request, life, dropped>>

Produce(k) ==
    /\ slot[k].phase = "working"
    /\ slot' = [slot EXCEPT ![k].phase = "submitting", ![k].at = NoOne, ![k].todo = {}]
    /\ inflight' = SeatBack(k)
    /\ UNCHANGED <<queue, cached, request, life, dropped>>

Outcomes(phase) ==
    CASE phase = "submitting" -> {"DONE"}
      [] phase = "releasing"  -> {"PENDING"}
      [] phase = "failing"    -> {"PENDING", "FAILED"}

(* The last request of a claim.  One with a lost claim is answered 409.    *)
Finish(k) ==
    /\ slot[k].phase \in {"submitting", "releasing", "failing"}
    /\ \/ ~Held(k) /\ UNCHANGED queue
       \/ Held(k) /\ \E status \in Outcomes(slot[k].phase) : Settle(slot[k].job, status)
    /\ slot' = [slot EXCEPT ![k] = Idle]
    /\ UNCHANGED <<cached, request, inflight, life, dropped>>

Forsaken(k) == IF Held(k) THEN {slot[k].job} ELSE {}

(* It never reaches the wiki; the slot goes on without the claim.          *)
LoseFinish(k) ==
    /\ slot[k].phase \in {"submitting", "releasing", "failing"}
    /\ dropped' = dropped \cup Forsaken(k)
    /\ slot' = [slot EXCEPT ![k] = Idle]
    /\ UNCHANGED <<queue, cached, request, inflight, life>>

(* hold() and Progress: a heartbeat or a progress report comes back 409,   *)
(* the task is cancelled and the slot asks for another job.                *)
Abandon(k) ==
    /\ slot[k].phase \in Holding
    /\ ~Held(k)
    /\ slot' = [slot EXCEPT ![k] = Idle]
    /\ inflight' = SeatBack(k)
    /\ UNCHANGED <<queue, cached, request, life, dropped>>

-----------------------------------------------------------------------------
(* Answers to /claim that bring no job, or that do not come.               *)

NothingToDo(k) ==
    /\ request[k] = "empty"
    /\ \/ slot[k].phase = "claiming"   /\ slot' = [slot EXCEPT ![k] = Idle]
       \/ slot[k].phase = "unclaiming" /\ slot' = [slot EXCEPT ![k] = Ended]
    /\ request' = [request EXCEPT ![k] = "none"]
    /\ UNCHANGED <<queue, cached, inflight, life, dropped>>

LoseClaim(k) ==
    /\ request[k] # "none"
    /\ \/ slot[k].phase = "claiming"   /\ slot' = [slot EXCEPT ![k] = Idle]
       \/ slot[k].phase = "unclaiming" /\ slot' = [slot EXCEPT ![k] = Ended]
    /\ dropped' = dropped \cup {j \in Jobs : request[k] = j /\ queue[j].holder = k}
    /\ request' = [request EXCEPT ![k] = "none"]
    /\ UNCHANGED <<queue, cached, inflight, life>>

-----------------------------------------------------------------------------
(* SIGTERM cancels the supervisor, which cancels every slot and waits for  *)
(* all of them.  claim() shields its request and gives back what the       *)
(* answer brings, hold() cancels the work and gives the claim back.        *)

CancelledUnshielded(s) ==
    IF s.phase \in Holding THEN [s EXCEPT !.phase = "handing", !.at = NoOne, !.todo = {}]
    ELSE Ended

Cancelled(s) ==
    IF s.phase = "claiming" THEN [s EXCEPT !.phase = "unclaiming"]
    ELSE IF s.phase \in Holding THEN [s EXCEPT !.phase = "handing", !.at = NoOne, !.todo = {}]
    ELSE Ended

Users(p) == {k \in Slots : slot[k].phase = "working" /\ slot[k].at = p}

Stop ==
    /\ life = "up"
    /\ life' = "stopping"
    /\ slot' = [k \in Slots |-> Cancelled(slot[k])]
    /\ inflight' = [p \in Providers |-> inflight[p] - Cardinality(Users(p))]
    /\ UNCHANGED <<queue, cached, request, dropped>>

HandOver(k) ==
    /\ slot[k].phase = "unclaiming" /\ request[k] \in Jobs
    /\ slot' = [slot EXCEPT ![k].phase = "handing", ![k].job = request[k]]
    /\ request' = [request EXCEPT ![k] = "none"]
    /\ UNCHANGED <<queue, cached, inflight, life, dropped>>

HandBack(k) ==
    /\ slot[k].phase = "handing"
    /\ \/ Held(k) /\ Settle(slot[k].job, "PENDING") /\ UNCHANGED dropped
       \/ ~Held(k) /\ UNCHANGED <<queue, dropped>>
       \/ dropped' = dropped \cup Forsaken(k) /\ UNCHANGED queue
    /\ slot' = [slot EXCEPT ![k] = Ended]
    /\ UNCHANGED <<cached, request, inflight, life>>

Stopped == life = "stopping" /\ \A k \in Slots : slot[k].phase = "ended"

Fresh ==
    /\ slot'     = [k \in Slots |-> NoTask]
    /\ request'  = [k \in Slots |-> "none"]
    /\ inflight' = [p \in Providers |-> 0]
    /\ cached'   = NoConfig
    /\ life'     = "up"
    /\ UNCHANGED queue

(* A new process after an orderly stop, or after a kill.                   *)
Restart == Stopped /\ Fresh /\ UNCHANGED dropped
Kill    == Fresh /\ dropped' = {j \in Jobs : queue[j].status = "CLAIMED"}

-----------------------------------------------------------------------------
Slot(k) ==
    \/ Ask(k) \/ Begin(k) \/ NothingToDo(k) \/ LoseClaim(k)
    \/ ProviderFails(k) \/ Produce(k) \/ Finish(k) \/ LoseFinish(k) \/ Abandon(k)
    \/ HandOver(k) \/ HandBack(k)

Next ==
    \/ \E j \in Jobs : Ripen(j) \/ Continue(j) \/ Reclaim(j)
    \/ \E k \in Slots : ServeClaim(k) \/ Slot(k)
    \/ Supervise
    \/ Stop \/ Restart \/ Kill

Spec == Init /\ [][Next]_vars

(* Every request is answered or times out, every call to a provider ends   *)
(* (API_TIMEOUT_SECONDS, the clients' own timeouts), the supervisor and    *)
(* the janitor come round.  Nothing else is assumed: not that the config   *)
(* ever changes or settles, not that providers answer, and of claims only  *)
(* that the janitor takes back the dropped ones.                           *)
Fairness ==
    /\ \A k \in Slots : WF_vars(ServeClaim(k)) /\ WF_vars(Slot(k))
    /\ WF_vars(Supervise /\ (cached # NoConfig => UNCHANGED cached))
    /\ \A j \in Jobs : WF_vars(j \in dropped /\ Reclaim(j))

FairSpec == Spec /\ Fairness

-----------------------------------------------------------------------------
(* Properties.                                                             *)

(* Every variable has its type (Gate, ConfigCache, the slots' locals).     *)
TypeOK ==
    /\ queue    \in [Jobs -> [status: {"PENDING", "CLAIMED", "DONE", "FAILED"},
                              holder: Slots \cup {NoSlot}, age: 0..MaxAge]]
    /\ cached   \in Configs \cup {NoConfig}
    /\ slot     \in [Slots -> Task]
    /\ request  \in [Slots -> Jobs \cup {"none", "sent", "empty"}]
    /\ inflight \in [Providers -> Nat]
    /\ life     \in {"up", "stopping"}
    /\ dropped  \in SUBSET Jobs

(* The gate counts the tasks that are working with a provider, however     *)
(* they leave: done, failed, abandoned after a 409 or cancelled (Gate.seat). *)
SeatsCounted == \A p \in Providers : inflight[p] = Cardinality(Users(p))

(* A provider never has more work than max_concurrency in the config of    *)
(* one of the tasks it works for, however slots with an older config and   *)
(* slots of other providers mix (Gate.seat, slot).                         *)
WithinLimits ==
    \A p \in Providers :
        Users(p) # {} => \E k \in Users(p) : Cardinality(Users(p)) <= slot[k].config[p]

(* After an orderly stop no claim of this worker is left behind, except    *)
(* where the network lost a request: a claim answered while the slots are  *)
(* being cancelled is given back too (the shield of claim, hold's finally). *)
HandedBack == Stopped => \A j \in Jobs : queue[j].status = "CLAIMED" => j \in dropped

(* A job is only reported as failed, which costs it an attempt, when every *)
(* provider of the config that may do it failed on it under this claim: a  *)
(* busy provider, or one that waits for the job to grow older, is not a    *)
(* failure (process()).                                                    *)
FailsWhenNobodyIsLeft ==
    \A k \in Slots : slot[k].phase = "failing" =>
        /\ slot[k].failed # {}
        /\ \A p \in Providers :
            /\ slot[k].config[p] > 0
            /\ slot[k].job \in Chores => p \in Background
            => p \in slot[k].failed

(* Every claim ends, by the worker or by the janitor: no slot keeps a job  *)
(* it does not work on (process() ends in a submit, a release or a fail).  *)
EveryClaimEnds ==
    \A j \in Jobs, k \in Slots :
        queue[j].status = "CLAIMED" /\ queue[j].holder = k
            ~> ~(queue[j].status = "CLAIMED" /\ queue[j].holder = k)

(* While the config grants a seat, its slot asks for work again and again, *)
(* also after the seat was taken away and given back (supervise, slot).    *)
SlotsComeBack ==
    \A k \in Slots :
        <>[](life = "up" /\ Wanted(cached, k)) => []<>(slot[k].phase = "claiming")

(* Seats are counted right, and no more of them are taken than a config    *)
(* that some task still holds grants.                                      *)
SeatsInOrder == SeatsCounted /\ WithinLimits
=============================================================================
