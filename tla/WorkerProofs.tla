---------------------------- MODULE WorkerProofs ----------------------------
(***************************************************************************)
(* Theorems about Worker, for every set of providers and jobs, every       *)
(* config and every clock: the gate counts the seats that are taken, a     *)
(* provider is not overloaded, and an orderly stop leaves no claim behind. *)
(* Theorems about Checkpoints, the run of one session's job, for every      *)
(* number of requests, length of text, chunk and set of providers: what a   *)
(* resumed run writes is of its plan, and what is done stays done.          *)
(* Theorems about Splitting, what comes of that run, for every number of     *)
(* votes, texts and projects: a note is filed where the votes want it.      *)
(* Theorems about ToolRounds, the talk a run has with a model, for every     *)
(* number of calls and any sizes: every call has its answer, a repeat is    *)
(* true, and results are cut only once their room is used up.               *)
(* Theorems about Folding, how a text longer than the context is read, for  *)
(* every size of messages and answers: no part is too long, nothing is lost. *)
(* Theorems about Extraction, how a transcript is read, for every transcript  *)
(* of any length: what it says is shown where it was said, and stays there.   *)
(***************************************************************************)
EXTENDS Worker, Checkpoints, Splitting, ToolRounds, Folding, Extraction, FiniteSetTheorems, SequenceTheorems, WellFoundedInduction, TLAPS

(* Types.                                                                  *)

LEMMA TaskFields ==
    ASSUME NEW s \in Task
    PROVE  /\ s.phase \in Phases /\ s.job \in Jobs \cup {NoJob} /\ s.at \in Providers \cup {NoOne}
           /\ s.todo \in SUBSET Providers /\ s.failed \in SUBSET Providers
           /\ s.busy \in BOOLEAN /\ s.later \in BOOLEAN /\ s.config \in Configs \cup {NoConfig}
  BY DEF Task

LEMMA FreshTasks == NoTask \in Task /\ Idle \in Task /\ Ended \in Task
  BY DEF NoTask, Idle, Ended, Task, Phases

LEMMA Limits ==
    ASSUME NEW c \in Configs \cup {NoConfig}, NEW p \in Providers
    PROVE  c[p] \in Nat
  BY ConfigAssumption, BoundAssumption DEF NoConfig

LEMMA UsersFinite ==
    ASSUME NEW p, NEW S \in SUBSET Users(p)
    PROVE  IsFiniteSet(S) /\ Cardinality(S) \in Nat
  <1>1. S \in SUBSET Slots
    BY DEF Users
  <1> QED BY <1>1, SlotAssumption, FS_Subset, FS_CardinalityType

(* Who is told of a slot that changes.                                     *)
OneSlot(k) == \A h \in Slots \ {k} : slot'[h] = slot[h]

(* Every part of a provider's work is within a limit of its own.           *)
Bounded(S, p) == \A U \in SUBSET S : U # {} => \E k \in U : Cardinality(U) <= slot[k].config[p]

LimitsKept == \A p \in Providers : Bounded(Users(p), p)

SeatType == slot \in [Slots -> Task] /\ inflight \in [Providers -> Nat]

WorkingAt == \A k \in Slots : slot[k].phase = "working" => slot[k].at \in Providers

Seats == SeatType /\ WorkingAt /\ SeatsCounted /\ LimitsKept

(* What Gate.seat counts once slot k has left its seat.                    *)
LEMMA SeatBackCounts ==
    ASSUME Seats, NEW k \in Slots
    PROVE  /\ SeatBack(k) \in [Providers -> Nat]
           /\ \A p \in Providers : SeatBack(k)[p] = Cardinality(Users(p) \ {k})
  <1> DEFINE at == slot[k].at
  <1>0. slot \in [Slots -> Task] /\ inflight \in [Providers -> Nat]
    BY DEF Seats, SeatType
  <1>1. \A p \in Providers : /\ IsFiniteSet(Users(p) \ {k})
                             /\ Cardinality(Users(p) \ {k}) \in Nat
                             /\ inflight[p] = Cardinality(Users(p))
                             /\ Cardinality(Users(p) \ {k}) =
                                  IF k \in Users(p) THEN inflight[p] - 1 ELSE inflight[p]
    <2> TAKE p \in Providers
    <2>1. IsFiniteSet(Users(p))
      BY UsersFinite
    <2>2. inflight[p] = Cardinality(Users(p))
      BY DEF Seats, SeatsCounted
    <2> QED BY <2>1, <2>2, UsersFinite, FS_RemoveElement
  <1>2. CASE slot[k].phase = "working"
    <2>1. SeatBack(k) = [inflight EXCEPT ![at] = @ - 1]
      BY <1>2 DEF SeatBack
    <2>2. ASSUME NEW p \in Providers
          PROVE  SeatBack(k)[p] = Cardinality(Users(p) \ {k})
      <3>1. k \in Users(p) <=> p = at
        BY <1>2 DEF Users
      <3> QED BY <3>1, <2>1, <1>0, <1>1
    <2>3. SeatBack(k) = [p \in Providers |-> SeatBack(k)[p]]
      BY <2>1, <1>0
    <2> QED BY <2>2, <2>3, <1>1
  <1>3. CASE slot[k].phase # "working"
    <2>1. \A p : k \notin Users(p)
      BY <1>3 DEF Users
    <2>2. SeatBack(k) = inflight
      BY <1>3 DEF SeatBack
    <2> QED BY <2>1, <2>2, <1>0, <1>1
  <1> QED BY <1>2, <1>3

LEMMA LeavingKeepsSeats ==
    ASSUME Seats, NEW k \in Slots, OneSlot(k), slot' \in [Slots -> Task],
           slot'[k].phase # "working", inflight' = SeatBack(k)
    PROVE  Seats'
  <1>1. \A p : Users(p)' = Users(p) \ {k}
    BY DEF Users, OneSlot
  <1>2. SeatType' /\ SeatsCounted' /\ WorkingAt'
    BY <1>1, SeatBackCounts DEF Seats, SeatType, SeatsCounted, WorkingAt, OneSlot
  <1>3. ASSUME NEW p \in Providers, NEW U \in SUBSET Users(p)', U # {}
        PROVE  \E h \in U : Cardinality(U) <= slot'[h].config[p]
    <2>1. U \in SUBSET Users(p) /\ k \notin U /\ U \subseteq Slots
      BY <1>1 DEF Users
    <2>2. PICK h \in U : Cardinality(U) <= slot[h].config[p]
      BY <2>1, <1>3 DEF Seats, LimitsKept, Bounded
    <2> QED BY <2>1, <2>2 DEF OneSlot
  <1> QED BY <1>2, <1>3 DEF Seats, LimitsKept, Bounded

(* Nobody else's seat is touched, and the new one was free.                *)
LEMMA GoingOnKeepsSeats ==
    ASSUME Seats, NEW k \in Slots, NEW s \in Task, NEW rest \in SUBSET Providers,
           GoOn(k, s, rest, SeatBack(k))
    PROVE  Seats' /\ OneSlot(k) /\ slot'[k].job = s.job /\ slot'[k].phase \in Holding
  <1> DEFINE seats == SeatBack(k)
  <1>0. slot \in [Slots -> Task] /\ inflight \in [Providers -> Nat]
    BY DEF Seats, SeatType
  <1>1. /\ seats \in [Providers -> Nat]
        /\ \A p \in Providers : seats[p] = Cardinality(Users(p) \ {k})
    BY SeatBackCounts
  <1>2. CASE {p \in rest : Free(s.config, seats, p)} = {}
    <2> DEFINE t == [s EXCEPT !.phase = Verdict(s, rest), !.at = NoOne, !.todo = {}]
    <2>1. slot' = [slot EXCEPT ![k] = t] /\ inflight' = seats
      BY <1>2 DEF GoOn
    <2>2. Verdict(s, rest) \in {"releasing", "failing"}
      BY DEF Verdict
    <2>3. t \in Task /\ t.phase \in Holding /\ t.phase # "working" /\ t.job = s.job
      BY <2>2 DEF Task, Phases, Holding
    <2>4. slot' \in [Slots -> Task] /\ slot'[k] = t /\ OneSlot(k)
      BY <2>1, <2>3, <1>0 DEF OneSlot
    <2> QED BY <2>1, <2>3, <2>4, LeavingKeepsSeats
  <1>3. CASE {p \in rest : Free(s.config, seats, p)} # {}
    <2>1. PICK p \in rest :
            /\ Free(s.config, seats, p)
            /\ slot' = [slot EXCEPT ![k] = [s EXCEPT !.phase = "working", !.at = p,
                          !.todo = {q \in rest : Before(k[1], p, q)},
                          !.busy = @ \/ \E q \in rest : Before(k[1], q, p)]]
            /\ inflight' = [seats EXCEPT ![p] = @ + 1]
      BY <1>3 DEF GoOn
    <2> DEFINE t == [s EXCEPT !.phase = "working", !.at = p,
                          !.todo = {q \in rest : Before(k[1], p, q)},
                          !.busy = @ \/ \E q \in rest : Before(k[1], q, p)]
    <2>2. /\ t \in Task /\ t.phase = "working" /\ t.at = p /\ t.job = s.job
          /\ t.config = s.config /\ p \in Providers
      BY DEF Task, Phases
    <2>3. slot' \in [Slots -> Task] /\ slot'[k] = t /\ OneSlot(k)
      BY <2>1, <2>2, <1>0 DEF OneSlot
    <2>4. ASSUME NEW q \in Providers
          PROVE  Users(q)' = IF q = p THEN (Users(q) \ {k}) \cup {k} ELSE Users(q) \ {k}
      BY <2>2, <2>3 DEF Users, OneSlot
    <2>5. SeatType' /\ SeatsCounted'
      <3>1. ASSUME NEW q \in Providers
            PROVE  inflight'[q] = Cardinality(Users(q)')
        <4>1. IsFiniteSet(Users(q) \ {k})
          BY UsersFinite
        <4>2. Cardinality((Users(q) \ {k}) \cup {k}) = Cardinality(Users(q) \ {k}) + 1
          BY <4>1, FS_AddElement
        <4> QED BY <4>2, <2>1, <2>4, <1>1
      <3>2. inflight' \in [Providers -> Nat]
        BY <2>1, <1>1
      <3> QED BY <3>1, <3>2, <2>3 DEF SeatType, SeatsCounted
    <2>6. ASSUME NEW q \in Providers, NEW U \in SUBSET Users(q)', U # {}
          PROVE  \E h \in U : Cardinality(U) <= slot'[h].config[q]
      <3>1. CASE k \notin U
        <4>1. U \in SUBSET Users(q) /\ U \subseteq Slots
          BY <3>1, <2>4 DEF Users
        <4>2. PICK h \in U : Cardinality(U) <= slot[h].config[q]
          BY <4>1, <2>6 DEF Seats, LimitsKept, Bounded
        <4> QED BY <3>1, <4>1, <4>2, <2>3 DEF OneSlot
      <3>2. CASE k \in U
        <4>1. q = p /\ U \ {k} \in SUBSET (Users(p) \ {k})
          BY <3>2, <2>4
        <4>2. /\ IsFiniteSet(Users(p) \ {k}) /\ IsFiniteSet(U \ {k})
              /\ Cardinality(Users(p) \ {k}) \in Nat /\ Cardinality(U \ {k}) \in Nat
          BY <4>1, UsersFinite
        <4>3. Cardinality(U \ {k}) <= seats[p]
          BY <4>1, <4>2, <2>2, <1>1, FS_Subset
        <4>4. Cardinality(U) = Cardinality(U \ {k}) + 1
          <5>1. U = (U \ {k}) \cup {k}
            BY <3>2
          <5> QED BY <5>1, <4>2, FS_AddElement
        <4>5. seats[p] + 1 <= s.config[p]
          <5>1. seats[p] < s.config[p]
            BY <2>1 DEF Free
          <5>2. seats[p] \in Nat /\ s.config[p] \in Nat
            BY <1>1, <2>2, Limits, TaskFields
          <5> QED BY <5>1, <5>2
        <4>6. Cardinality(U) <= slot'[k].config[p]
          <5>1. slot'[k].config[p] = s.config[p] /\ seats[p] \in Nat /\ s.config[p] \in Nat
            BY <1>1, <2>2, <2>3, Limits, TaskFields
          <5> QED BY <4>2, <4>3, <4>4, <4>5, <5>1
        <4> QED BY <4>1, <4>6, <3>2
      <3> QED BY <3>1, <3>2
    <2>7. LimitsKept'
      BY <2>6 DEF LimitsKept, Bounded
    <2>8. WorkingAt'
      BY <2>2, <2>3 DEF Seats, WorkingAt, OneSlot
    <2> QED BY <2>2, <2>3, <2>5, <2>7, <2>8 DEF Seats, Holding
  <1> QED BY <1>2, <1>3

-----------------------------------------------------------------------------
(* Claims: whoever holds one is a slot that will end it, or it is dropped. *)

Keeps(k, j) ==
    \/ request[k] = j /\ slot[k].phase \in {"claiming", "unclaiming"}
    \/ slot[k].job = j /\ slot[k].phase \in Holding \cup {"handing"}

ClaimsKept ==
    \A j \in Jobs :
        queue[j].status = "CLAIMED" /\ j \notin dropped
            => \E k \in Slots : queue[j].holder = k /\ Keeps(k, j)

AskedOnly == \A k \in Slots : request[k] # "none" => slot[k].phase \in {"claiming", "unclaiming"}

WorkerInv == TypeOK /\ Seats /\ ClaimsKept /\ AskedOnly

LEMMA InitInv == Init => WorkerInv
  <1> SUFFICES ASSUME Init PROVE WorkerInv
    OBVIOUS
  <1>1. TypeOK
    BY FreshTasks, BoundAssumption DEF Init, TypeOK
  <1>2. \A p : Users(p) = {}
    BY DEF Init, Users, NoTask
  <1>3. SeatsCounted
    BY <1>2, FS_EmptySet DEF Init, SeatsCounted
  <1>4. LimitsKept
    BY <1>2 DEF LimitsKept, Bounded
  <1>5. ClaimsKept /\ AskedOnly
    BY DEF Init, ClaimsKept, AskedOnly
  <1>6. WorkingAt
    BY DEF Init, WorkingAt, NoTask
  <1> QED BY <1>1, <1>3, <1>4, <1>5, <1>6 DEF WorkerInv, Seats, SeatType, TypeOK

(* Steps that leave every slot's task and seat alone.                      *)
LEMMA SeatsUntouched ==
    ASSUME WorkerInv, UNCHANGED <<slot, inflight>>
    PROVE  Seats'
  <1>1. \A p : Users(p)' = Users(p)
    BY DEF Users
  <1> QED BY <1>1 DEF WorkerInv, Seats, SeatType, WorkingAt, SeatsCounted, LimitsKept, Bounded

LEMMA WikiSteps ==
    ASSUME WorkerInv, NEW j \in Jobs, Ripen(j) \/ Continue(j) \/ Reclaim(j)
    PROVE  WorkerInv'
  <1>1. Seats'
    BY SeatsUntouched DEF Ripen, Continue, Reclaim
  <1>2. TypeOK'
    BY BoundAssumption DEF WorkerInv, TypeOK, Ripen, Continue, Reclaim, Settle
  <1>3. ASSUME NEW i \in Jobs, queue'[i].status = "CLAIMED", i \notin dropped'
        PROVE  \E h \in Slots : queue'[i].holder = h /\ Keeps(h, i)'
    <2>1. queue[i].status = "CLAIMED" /\ i \notin dropped /\ queue'[i].holder = queue[i].holder
      BY <1>3 DEF WorkerInv, TypeOK, Ripen, Continue, Reclaim, Settle
    <2> QED BY <2>1 DEF WorkerInv, ClaimsKept, Keeps, Ripen, Continue, Reclaim
  <1>4. AskedOnly'
    BY DEF WorkerInv, AskedOnly, Ripen, Continue, Reclaim
  <1> QED BY <1>1, <1>2, <1>3, <1>4 DEF WorkerInv, ClaimsKept

LEMMA ServeClaimKeeps ==
    ASSUME WorkerInv, NEW k \in Slots, ServeClaim(k)
    PROVE  WorkerInv'
  <1>1. Seats'
    BY SeatsUntouched DEF ServeClaim
  <1>2. TypeOK'
    <2>1. queue' \in [Jobs -> [status: {"PENDING", "CLAIMED", "DONE", "FAILED"},
                               holder: Slots \cup {NoSlot}, age: 0..MaxAge]]
      <3>1. CASE UNCHANGED queue
        BY <3>1 DEF WorkerInv, TypeOK
      <3>2. CASE \E j \in Jobs : queue' = [queue EXCEPT ![j].status = "CLAIMED", ![j].holder = k]
        <4>1. PICK j \in Jobs : queue' = [queue EXCEPT ![j].status = "CLAIMED", ![j].holder = k]
          BY <3>2
        <4> DEFINE row == [queue[j] EXCEPT !.status = "CLAIMED", !.holder = k]
        <4>2. row \in [status: {"PENDING", "CLAIMED", "DONE", "FAILED"},
                       holder: Slots \cup {NoSlot}, age: 0..MaxAge]
          BY DEF WorkerInv, TypeOK
        <4>3. queue' = [queue EXCEPT ![j] = row]
          BY <4>1 DEF WorkerInv, TypeOK
        <4> HIDE DEF row
        <4> QED BY <4>2, <4>3 DEF WorkerInv, TypeOK
      <3> QED BY <3>1, <3>2 DEF ServeClaim
    <2>2. request' \in [Slots -> Jobs \cup {"none", "sent", "empty"}]
      BY DEF WorkerInv, TypeOK, ServeClaim
    <2> QED BY <2>1, <2>2 DEF WorkerInv, TypeOK, ServeClaim
  <1>3. request[k] = "sent" /\ slot[k].phase \in {"claiming", "unclaiming"}
    BY DEF WorkerInv, AskedOnly, ServeClaim
  <1>4. ASSUME NEW i \in Jobs, queue'[i].status = "CLAIMED", i \notin dropped'
        PROVE  \E h \in Slots : queue'[i].holder = h /\ Keeps(h, i)'
    <2>1. CASE queue'[i] = queue[i]
      <3>1. PICK h \in Slots : queue[i].holder = h /\ Keeps(h, i)
        BY <1>4, <2>1 DEF WorkerInv, ClaimsKept, ServeClaim
      <3>2. request[h] = i => h # k
        BY <1>3, NameAssumption
      <3>3. h # k => request'[h] = request[h]
        BY DEF ServeClaim, WorkerInv, TypeOK
      <3>4. slot' = slot
        BY DEF ServeClaim
      <3> QED BY <3>1, <3>2, <3>3, <3>4, <2>1 DEF Keeps
    <2>2. CASE queue'[i] # queue[i]
      <3>1. queue'[i].holder = k /\ request'[k] = i
        <4>1. DOMAIN queue = Jobs /\ DOMAIN request = Slots
          BY DEF WorkerInv, TypeOK
        <4>2. PICK j \in Jobs : /\ queue' = [queue EXCEPT ![j].status = "CLAIMED", ![j].holder = k]
                               /\ request' = [request EXCEPT ![k] = j]
          BY <2>2 DEF ServeClaim
        <4>3. j = i
          BY <4>1, <4>2, <2>2
        <4>4. queue[i] \in [status: {"PENDING", "CLAIMED", "DONE", "FAILED"},
                            holder: Slots \cup {NoSlot}, age: 0..MaxAge]
          BY DEF WorkerInv, TypeOK
        <4> QED BY <4>1, <4>2, <4>3, <4>4
      <3> QED BY <3>1, <1>3 DEF Keeps, ServeClaim
    <2> QED BY <2>1, <2>2
  <1>5. AskedOnly'
    BY <1>3 DEF WorkerInv, AskedOnly, ServeClaim, TypeOK
  <1> QED BY <1>1, <1>2, <1>4, <1>5 DEF WorkerInv, ClaimsKept

(* A slot that leaves what others hold alone, and either keeps what it     *)
(* holds, or ends it, or leaves it to the janitor.                         *)
LEMMA OthersKeep ==
    ASSUME WorkerInv, NEW k \in Slots, OneSlot(k),
           \A h \in Slots \ {k} : request'[h] = request[h],
           \A i \in Jobs : queue'[i].status = "CLAIMED" => queue'[i] = queue[i],
           dropped \subseteq dropped',
           \A i \in Jobs :
               queue'[i].status = "CLAIMED" /\ queue'[i].holder = k /\ i \notin dropped'
                   /\ Keeps(k, i) => Keeps(k, i)'
    PROVE  ClaimsKept'
  <1> SUFFICES ASSUME NEW i \in Jobs, queue'[i].status = "CLAIMED", i \notin dropped'
               PROVE  \E h \in Slots : queue'[i].holder = h /\ Keeps(h, i)'
    BY DEF ClaimsKept
  <1>1. queue'[i] = queue[i] /\ i \notin dropped
    OBVIOUS
  <1>2. PICK h \in Slots : queue[i].holder = h /\ Keeps(h, i)
    BY <1>1 DEF WorkerInv, ClaimsKept
  <1>3. CASE h # k
    BY <1>1, <1>2, <1>3 DEF Keeps, OneSlot
  <1>4. CASE h = k
    BY <1>1, <1>2, <1>4
  <1> QED BY <1>3, <1>4

-----------------------------------------------------------------------------
(* The slots.                                                              *)

LEMMA AskKeeps ==
    ASSUME WorkerInv, NEW k \in Slots, Ask(k)
    PROVE  WorkerInv'
  <1>1. slot[k].phase = "idle" /\ slot \in [Slots -> Task] /\ slot[k] \in Task
    BY DEF Ask, WorkerInv, TypeOK
  <1>2. request[k] = "none"
    BY <1>1 DEF WorkerInv, AskedOnly
  <1>3. /\ OneSlot(k) /\ slot' \in [Slots -> Task]
        /\ slot'[k].phase \in {"claiming", "ended"}
        /\ slot'[k].phase = "ended" => request' = request
    <2>1. CASE slot' = [slot EXCEPT ![k].phase = "claiming", ![k].config = cached]
      <3> DEFINE t == [slot[k] EXCEPT !.phase = "claiming", !.config = cached]
      <3>1. cached \in Configs \cup {NoConfig}
        BY DEF WorkerInv, TypeOK
      <3>2. t \in Task /\ t.phase = "claiming"
        BY <1>1, <3>1 DEF Task, Phases
      <3>3. slot' = [slot EXCEPT ![k] = t]
        BY <2>1, <1>1 DEF Task
      <3> HIDE DEF t
      <3> QED BY <3>2, <3>3, <1>1 DEF OneSlot
    <2>2. CASE slot' = [slot EXCEPT ![k] = Ended] /\ UNCHANGED request
      BY <2>2, <1>1, FreshTasks DEF OneSlot, Ended, NoTask
    <2> QED BY <2>1, <2>2 DEF Ask
  <1>4. inflight' = SeatBack(k)
    BY <1>1 DEF Ask, SeatBack
  <1>5. Seats'
    BY <1>3, <1>4, LeavingKeepsSeats DEF WorkerInv
  <1>6. /\ request' \in [Slots -> Jobs \cup {"none", "sent", "empty"}]
        /\ \A h \in Slots \ {k} : request'[h] = request[h]
    BY DEF Ask, WorkerInv, TypeOK
  <1>7. TypeOK'
    BY <1>5, <1>6 DEF WorkerInv, TypeOK, Ask, Seats, SeatType
  <1>8. AskedOnly'
    BY <1>2, <1>3, <1>6 DEF WorkerInv, AskedOnly, OneSlot
  <1>9. \A i \in Jobs : ~Keeps(k, i)
    BY <1>1 DEF Keeps, Holding
  <1>10. ClaimsKept'
    BY <1>3, <1>6, <1>9, OthersKeep DEF Ask
  <1> QED BY <1>5, <1>7, <1>8, <1>10 DEF WorkerInv

LEMMA BeginStep ==
    ASSUME WorkerInv, NEW k \in Slots, Begin(k)
    PROVE  /\ Seats' /\ OneSlot(k)
           /\ slot'[k].job = request[k] /\ slot'[k].phase \in Holding
  <1> DEFINE j == request[k]
  <1>1. /\ slot[k].phase = "claiming" /\ j \in Jobs
        /\ slot \in [Slots -> Task] /\ slot[k] \in Task
    BY DEF Begin, WorkerInv, TypeOK
  <1>2. SeatBack(k) = inflight
    BY <1>1 DEF SeatBack
  <1>3. Seats' /\ OneSlot(k) /\ slot'[k].job = j /\ slot'[k].phase \in Holding
    <2>1. PICK skew \in Clocks :
            LET order == Candidates(slot[k].config, k[1], j)
                young == {p \in order : queue[j].age + skew < MinAge[p]}
                s     == [slot[k] EXCEPT !.job = j, !.later = young # {}]
            IN  \/ order # young /\ GoOn(k, s, order \ young, inflight)
                \/ /\ order = young
                   /\ slot' = [slot EXCEPT ![k] = [s EXCEPT !.phase = "releasing"]]
                   /\ UNCHANGED inflight
      BY DEF Begin
    <2> DEFINE order == Candidates(slot[k].config, k[1], j)
               young == {p \in order : queue[j].age + skew < MinAge[p]}
               s     == [slot[k] EXCEPT !.job = j, !.later = young # {}]
    <2>2. s \in Task /\ s.job = j /\ order \ young \in SUBSET Providers
      BY <1>1 DEF Task, Candidates
    <2>3. CASE order # young
      <3>1. GoOn(k, s, order \ young, inflight)
        BY <2>1, <2>3
      <3> HIDE DEF s, order, young
      <3> QED BY <3>1, <2>2, <1>2, GoingOnKeepsSeats DEF WorkerInv
    <2>4. CASE order = young
      <3> DEFINE t == [s EXCEPT !.phase = "releasing"]
      <3>1. slot' = [slot EXCEPT ![k] = t] /\ inflight' = inflight
        BY <2>1, <2>4
      <3>2. t \in Task /\ t.phase = "releasing" /\ t.job = j
        BY <2>2 DEF Task, Phases
      <3> HIDE DEF t
      <3>3. slot' \in [Slots -> Task] /\ slot'[k] = t /\ OneSlot(k)
        BY <3>1, <3>2, <1>1 DEF OneSlot
      <3>4. Seats'
        BY <3>1, <3>2, <3>3, <1>2, LeavingKeepsSeats DEF WorkerInv
      <3> QED BY <3>2, <3>3, <3>4 DEF Holding
    <2> QED BY <2>3, <2>4
  <1> QED BY <1>3

LEMMA BeginKeeps ==
    ASSUME WorkerInv, NEW k \in Slots, Begin(k)
    PROVE  WorkerInv'
  <1> DEFINE j == request[k]
  <1>1. /\ slot[k].phase = "claiming" /\ j \in Jobs
        /\ slot \in [Slots -> Task] /\ slot[k] \in Task
    BY DEF Begin, WorkerInv, TypeOK
  <1>3. Seats' /\ OneSlot(k) /\ slot'[k].job = j /\ slot'[k].phase \in Holding
    BY BeginStep
  <1>4. request' = [request EXCEPT ![k] = "none"] /\ UNCHANGED <<queue, cached, life, dropped>>
    BY DEF Begin
  <1>5. TypeOK'
    BY <1>3, <1>4 DEF WorkerInv, TypeOK, Seats, SeatType
  <1>6. AskedOnly'
    BY <1>3, <1>4 DEF WorkerInv, AskedOnly, OneSlot, TypeOK
  <1>7. \A h \in Slots \ {k} : request'[h] = request[h]
    BY <1>4 DEF WorkerInv, TypeOK
  <1>8. \A i \in Jobs : Keeps(k, i) => Keeps(k, i)'
    BY <1>1, <1>3 DEF Keeps, Holding
  <1>9. ClaimsKept'
    BY <1>3, <1>4, <1>7, <1>8, OthersKeep
  <1> QED BY <1>3, <1>5, <1>6, <1>9 DEF WorkerInv

LEMMA ProviderFailsStep ==
    ASSUME WorkerInv, NEW k \in Slots, ProviderFails(k)
    PROVE  /\ Seats' /\ OneSlot(k)
           /\ slot'[k].job = slot[k].job /\ slot'[k].phase \in Holding
  <1>1. slot[k].phase = "working" /\ slot \in [Slots -> Task] /\ slot[k] \in Task
    BY DEF ProviderFails, WorkerInv, TypeOK
  <1> DEFINE s == [slot[k] EXCEPT !.failed = @ \cup {slot[k].at}]
  <1>2. GoOn(k, s, slot[k].todo, SeatBack(k))
    BY DEF ProviderFails
  <1>3. slot[k].at \in Providers
    BY <1>1 DEF WorkerInv, Seats, WorkingAt
  <1>4. s \in Task /\ s.job = slot[k].job /\ slot[k].todo \in SUBSET Providers
    BY <1>1, <1>3 DEF Task
  <1> HIDE DEF s
  <1>5. Seats' /\ OneSlot(k) /\ slot'[k].job = slot[k].job /\ slot'[k].phase \in Holding
    BY <1>2, <1>4, GoingOnKeepsSeats DEF WorkerInv
  <1> QED BY <1>5

LEMMA ProviderFailsKeeps ==
    ASSUME WorkerInv, NEW k \in Slots, ProviderFails(k)
    PROVE  WorkerInv'
  <1>1. slot[k].phase = "working"
    BY DEF ProviderFails
  <1>5. Seats' /\ OneSlot(k) /\ slot'[k].job = slot[k].job /\ slot'[k].phase \in Holding
    BY ProviderFailsStep
  <1>6. UNCHANGED <<queue, cached, request, life, dropped>>
    BY DEF ProviderFails
  <1>7. TypeOK'
    BY <1>5, <1>6 DEF WorkerInv, TypeOK, Seats, SeatType
  <1>8. AskedOnly'
    BY <1>1, <1>5, <1>6 DEF WorkerInv, AskedOnly, OneSlot
  <1>9. \A i \in Jobs : Keeps(k, i) => Keeps(k, i)'
    BY <1>1, <1>5, <1>6 DEF Keeps
  <1>10. ClaimsKept'
    BY <1>5, <1>6, <1>9, OthersKeep
  <1> QED BY <1>5, <1>7, <1>8, <1>10 DEF WorkerInv

(* A slot that stops working, or was not working, and the claim it held.   *)
LEMMA LeavingKeeps ==
    ASSUME WorkerInv, NEW k \in Slots, NEW t \in Task, t.phase # "working",
           slot' = [slot EXCEPT ![k] = t], inflight' = SeatBack(k),
           NEW answer \in {request[k], "none"}, request' = [request EXCEPT ![k] = answer],
           answer # "none" => t.phase \in {"claiming", "unclaiming"},
           UNCHANGED <<cached, life>>,
           queue' \in [Jobs -> [status: {"PENDING", "CLAIMED", "DONE", "FAILED"},
                                holder: Slots \cup {NoSlot}, age: 0..MaxAge]],
           \A i \in Jobs : queue'[i].status = "CLAIMED" => queue'[i] = queue[i],
           dropped \subseteq dropped', dropped' \subseteq Jobs,
           \A i \in Jobs :
               queue'[i].status = "CLAIMED" /\ queue'[i].holder = k /\ i \notin dropped'
                   /\ Keeps(k, i) => Keeps(k, i)'
    PROVE  WorkerInv'
  <1>1. /\ slot \in [Slots -> Task]
        /\ request \in [Slots -> Jobs \cup {"none", "sent", "empty"}]
    BY DEF WorkerInv, TypeOK
  <1>2. slot' \in [Slots -> Task] /\ slot'[k] = t /\ OneSlot(k)
    BY <1>1 DEF OneSlot
  <1>3. Seats'
    BY <1>2, LeavingKeepsSeats DEF WorkerInv
  <1>4. /\ request' \in [Slots -> Jobs \cup {"none", "sent", "empty"}]
        /\ request'[k] = answer
        /\ \A h \in Slots \ {k} : request'[h] = request[h]
    BY <1>1
  <1>5. TypeOK'
    BY <1>3, <1>4 DEF WorkerInv, TypeOK, Seats, SeatType
  <1>6. AskedOnly'
    BY <1>2, <1>4 DEF WorkerInv, AskedOnly, OneSlot
  <1>7. ClaimsKept'
    BY <1>2, <1>4, OthersKeep
  <1> QED BY <1>3, <1>5, <1>6, <1>7 DEF WorkerInv

QueueType == [Jobs -> [status: {"PENDING", "CLAIMED", "DONE", "FAILED"},
                       holder: Slots \cup {NoSlot}, age: 0..MaxAge]]

LEMMA SettledType ==
    ASSUME queue \in QueueType, NEW j \in Jobs,
           NEW status \in {"PENDING", "DONE", "FAILED"}, Settle(j, status)
    PROVE  /\ queue' \in QueueType
           /\ \A i \in Jobs : queue'[i].status = "CLAIMED" => queue'[i] = queue[i]
           /\ queue'[j].status # "CLAIMED"
  BY DEF QueueType, Settle

(* A slot that ends: Idle and Ended keep nothing.                          *)
LEMMA EndingKeeps ==
    ASSUME WorkerInv, NEW k \in Slots, NEW t \in {Idle, Ended},
           slot' = [slot EXCEPT ![k] = t], inflight' = SeatBack(k),
           request' = [request EXCEPT ![k] = "none"], UNCHANGED <<cached, life>>,
           queue' \in QueueType,
           \A i \in Jobs : queue'[i].status = "CLAIMED" => queue'[i] = queue[i],
           dropped \subseteq dropped', dropped' \subseteq Jobs,
           \A i \in Jobs :
               queue'[i].status = "CLAIMED" /\ queue'[i].holder = k /\ Keeps(k, i)
                   => i \in dropped'
    PROVE  WorkerInv'
  <1>1. t \in Task /\ t.phase # "working"
    BY FreshTasks DEF Idle, Ended, NoTask
  <1> QED BY <1>1, LeavingKeeps DEF QueueType

LEMMA HeldIsKept ==
    ASSUME NEW k \in Slots, NEW i \in Jobs, slot[k].phase \notin {"claiming", "unclaiming"},
           Keeps(k, i), queue[i].status = "CLAIMED", queue[i].holder = k
    PROVE  Held(k) /\ slot[k].job = i
  BY NameAssumption DEF Keeps, Held

(* Outside of a claim nothing is asked for.                                *)
LEMMA NothingAsked ==
    ASSUME WorkerInv, NEW k \in Slots, slot[k].phase \notin {"claiming", "unclaiming"}
    PROVE  request' = request => request' = [request EXCEPT ![k] = "none"]
  BY DEF WorkerInv, AskedOnly, TypeOK

LEMMA FinishKeeps ==
    ASSUME WorkerInv, NEW k \in Slots, Finish(k) \/ LoseFinish(k) \/ Abandon(k)
    PROVE  WorkerInv'
  <1>1. /\ slot[k].phase \in Holding
        /\ slot' = [slot EXCEPT ![k] = Idle] /\ inflight' = SeatBack(k)
        /\ UNCHANGED <<cached, request, life>>
        /\ slot[k].phase \notin {"claiming", "unclaiming"}
    BY DEF Finish, LoseFinish, Abandon, Holding, SeatBack
  <1>2. queue \in QueueType /\ dropped \subseteq Jobs /\ slot[k] \in Task
    BY DEF WorkerInv, TypeOK, QueueType
  <1>3. request' = [request EXCEPT ![k] = "none"]
    BY <1>1, NothingAsked
  <1>4. Held(k) => slot[k].job \in Jobs
    BY <1>2 DEF Held, Task
  <1>5. CASE Finish(k)
    <2>1. /\ queue' \in QueueType /\ dropped' = dropped
          /\ \A i \in Jobs : queue'[i].status = "CLAIMED" => queue'[i] = queue[i]
          /\ Held(k) => queue'[slot[k].job].status # "CLAIMED"
      <3>1. CASE ~Held(k)
        BY <3>1, <1>2, <1>5 DEF Finish
      <3>2. CASE Held(k)
        <4>1. PICK status \in Outcomes(slot[k].phase) : Settle(slot[k].job, status)
          BY <3>2, <1>5 DEF Finish
        <4>2. status \in {"PENDING", "DONE", "FAILED"}
          BY <1>5 DEF Outcomes, Finish
        <4> QED BY <4>1, <4>2, <3>2, <1>2, <1>4, <1>5, SettledType DEF Finish
      <3> QED BY <3>1, <3>2
    <2>2. ASSUME NEW i \in Jobs, queue'[i].status = "CLAIMED", queue'[i].holder = k, Keeps(k, i)
          PROVE  FALSE
      BY <2>1, <2>2, <1>1, HeldIsKept
    <2> QED BY <2>1, <2>2, <1>1, <1>2, <1>3, EndingKeeps
  <1>6. CASE LoseFinish(k) \/ Abandon(k)
    <2>1. queue' = queue /\ dropped' \subseteq Jobs /\ dropped \subseteq dropped'
      BY <1>2, <1>4, <1>6 DEF LoseFinish, Abandon, Forsaken
    <2>2. ASSUME NEW i \in Jobs, queue'[i].status = "CLAIMED", queue'[i].holder = k, Keeps(k, i)
          PROVE  i \in dropped'
      <3>1. Held(k) /\ slot[k].job = i
        BY <2>1, <2>2, <1>1, HeldIsKept
      <3> QED BY <3>1, <1>6 DEF LoseFinish, Abandon, Forsaken
    <2> QED BY <2>1, <2>2, <1>1, <1>2, <1>3, EndingKeeps
  <1> QED BY <1>5, <1>6

LEMMA ProduceKeeps ==
    ASSUME WorkerInv, NEW k \in Slots, Produce(k)
    PROVE  WorkerInv'
  <1> DEFINE t == [slot[k] EXCEPT !.phase = "submitting", !.at = NoOne, !.todo = {}]
  <1>1. /\ slot \in [Slots -> Task] /\ slot[k] \in Task /\ queue \in QueueType
        /\ dropped \subseteq Jobs /\ slot[k].phase = "working"
    BY DEF WorkerInv, TypeOK, QueueType, Produce
  <1>2. t \in Task /\ t.phase = "submitting" /\ t.job = slot[k].job
    BY <1>1 DEF Task, Phases
  <1>3. slot' = [slot EXCEPT ![k] = t]
    BY <1>1 DEF Produce, Task
  <1> HIDE DEF t
  <1>4. request' = [request EXCEPT ![k] = "none"]
    BY <1>1, NothingAsked DEF Produce
  <1>5. slot'[k] = t
    BY <1>1, <1>3
  <1>6. \A i \in Jobs : Keeps(k, i) => Keeps(k, i)'
    BY <1>1, <1>2, <1>5 DEF Keeps, Holding
  <1> QED BY <1>1, <1>2, <1>3, <1>4, <1>6, LeavingKeeps DEF Produce, QueueType

LEMMA UnansweredKeeps ==
    ASSUME WorkerInv, NEW k \in Slots, NothingToDo(k) \/ LoseClaim(k)
    PROVE  WorkerInv'
  <1>1. /\ slot[k].phase \in {"claiming", "unclaiming"}
        /\ request' = [request EXCEPT ![k] = "none"]
        /\ UNCHANGED <<cached, life, queue>> /\ inflight' = SeatBack(k)
    BY DEF NothingToDo, LoseClaim, SeatBack
  <1>2. PICK t \in {Idle, Ended} : slot' = [slot EXCEPT ![k] = t]
    BY DEF NothingToDo, LoseClaim
  <1>3. queue \in QueueType /\ dropped \subseteq Jobs
    BY DEF WorkerInv, TypeOK, QueueType
  <1>4. dropped \subseteq dropped' /\ dropped' \subseteq Jobs
    BY <1>3 DEF NothingToDo, LoseClaim
  <1>5. ASSUME NEW i \in Jobs, queue'[i].holder = k, Keeps(k, i)
        PROVE  i \in dropped'
    <2>1. request[k] = i
      BY <1>1, <1>5 DEF Keeps, Holding
    <2> QED BY <2>1, <1>1, <1>5, NameAssumption DEF NothingToDo, LoseClaim
  <1> QED BY <1>1, <1>2, <1>3, <1>4, <1>5, EndingKeeps

LEMMA HandOverKeeps ==
    ASSUME WorkerInv, NEW k \in Slots, HandOver(k)
    PROVE  WorkerInv'
  <1> DEFINE t == [slot[k] EXCEPT !.phase = "handing", !.job = request[k]]
  <1>1. /\ slot \in [Slots -> Task] /\ slot[k] \in Task /\ queue \in QueueType
        /\ dropped \subseteq Jobs /\ slot[k].phase = "unclaiming" /\ request[k] \in Jobs
    BY DEF WorkerInv, TypeOK, QueueType, HandOver
  <1>2. t \in Task /\ t.phase = "handing" /\ t.job = request[k]
    BY <1>1 DEF Task, Phases
  <1>3. slot' = [slot EXCEPT ![k] = t]
    BY <1>1 DEF HandOver, Task
  <1> HIDE DEF t
  <1>4. slot'[k] = t /\ inflight' = SeatBack(k)
    BY <1>1, <1>3 DEF HandOver, SeatBack
  <1>5. \A i \in Jobs : Keeps(k, i) => Keeps(k, i)'
    BY <1>1, <1>2, <1>4 DEF Keeps, Holding
  <1> QED BY <1>1, <1>2, <1>3, <1>4, <1>5, LeavingKeeps DEF HandOver, QueueType

LEMMA HandBackKeeps ==
    ASSUME WorkerInv, NEW k \in Slots, HandBack(k)
    PROVE  WorkerInv'
  <1>1. /\ slot[k].phase = "handing" /\ slot' = [slot EXCEPT ![k] = Ended]
        /\ UNCHANGED <<cached, request, life>> /\ inflight' = SeatBack(k)
    BY DEF HandBack, SeatBack
  <1>2. queue \in QueueType /\ dropped \subseteq Jobs /\ slot[k] \in Task
    BY DEF WorkerInv, TypeOK, QueueType
  <1>3. request' = [request EXCEPT ![k] = "none"]
    BY <1>1, NothingAsked
  <1>4. Held(k) => slot[k].job \in Jobs
    BY <1>2 DEF Held, Task
  <1>5. CASE Held(k) /\ Settle(slot[k].job, "PENDING") /\ UNCHANGED dropped
    <2>1. /\ queue' \in QueueType /\ queue'[slot[k].job].status # "CLAIMED"
          /\ \A i \in Jobs : queue'[i].status = "CLAIMED" => queue'[i] = queue[i]
      BY <1>2, <1>4, <1>5, SettledType
    <2>2. ASSUME NEW i \in Jobs, queue'[i].status = "CLAIMED", queue'[i].holder = k, Keeps(k, i)
          PROVE  FALSE
      BY <2>1, <2>2, <1>1, HeldIsKept
    <2> QED BY <2>1, <2>2, <1>1, <1>2, <1>3, <1>5, EndingKeeps
  <1>6. CASE /\ UNCHANGED queue
             /\ \/ ~Held(k) /\ UNCHANGED dropped
                \/ dropped' = dropped \cup Forsaken(k)
    <2>1. dropped' \subseteq Jobs /\ dropped \subseteq dropped'
      BY <1>2, <1>4, <1>6 DEF Forsaken
    <2>2. ASSUME NEW i \in Jobs, queue'[i].status = "CLAIMED", queue'[i].holder = k, Keeps(k, i)
          PROVE  i \in dropped'
      <3>1. Held(k) /\ slot[k].job = i
        BY <2>2, <1>1, <1>6, HeldIsKept
      <3> QED BY <3>1, <1>6 DEF Forsaken
    <2> QED BY <2>1, <2>2, <1>1, <1>2, <1>3, <1>6, EndingKeeps
  <1> QED BY <1>5, <1>6 DEF HandBack

(* The supervisor starts slots that sit nowhere and hold nothing.          *)
LEMMA SuperviseKeeps ==
    ASSUME WorkerInv, Supervise
    PROVE  WorkerInv'
  <1>1. slot \in [Slots -> Task] /\ cached' \in Configs \cup {NoConfig}
    BY DEF WorkerInv, TypeOK, Supervise
  <1>2. \A k \in Slots : slot'[k] = slot[k] \/ (Missing(k) /\ slot'[k] = Idle)
    BY DEF Supervise
  <1>3. slot' \in [Slots -> Task]
    BY <1>1, <1>2, FreshTasks DEF Supervise
  <1>4. \A k \in Slots : slot[k].phase \notin {"none", "ended"} => slot'[k] = slot[k]
    BY <1>2 DEF Missing
  <1>5. \A k \in Slots : slot'[k].phase = "working" => slot'[k] = slot[k]
    BY <1>2 DEF Idle, NoTask
  <1>6. \A p : Users(p)' = Users(p)
    BY <1>4, <1>5 DEF Users
  <1>7. SeatType' /\ WorkingAt' /\ SeatsCounted'
    BY <1>3, <1>5, <1>6 DEF WorkerInv, Seats, SeatType, WorkingAt, SeatsCounted, Supervise
  <1>8. LimitsKept'
    <2> SUFFICES ASSUME NEW p \in Providers, NEW U \in SUBSET Users(p), U # {}
                 PROVE  \E k \in U : Cardinality(U) <= slot'[k].config[p]
      BY <1>6 DEF LimitsKept, Bounded
    <2>1. PICK k \in U : Cardinality(U) <= slot[k].config[p]
      BY DEF WorkerInv, Seats, LimitsKept, Bounded
    <2>2. slot'[k] = slot[k]
      BY <1>4 DEF Users
    <2> QED BY <2>1, <2>2
  <1>9. UNCHANGED <<queue, request, inflight, life, dropped>>
    BY DEF Supervise
  <1>10. TypeOK' /\ AskedOnly'
    BY <1>1, <1>3, <1>4, <1>9 DEF WorkerInv, TypeOK, AskedOnly
  <1>11. \A k \in Slots, j \in Jobs : Keeps(k, j) => Keeps(k, j)'
    BY <1>4, <1>9 DEF Keeps, Holding
  <1>12. ClaimsKept'
    BY <1>9, <1>11 DEF WorkerInv, ClaimsKept
  <1> QED BY <1>7, <1>8, <1>10, <1>12 DEF WorkerInv, Seats

LEMMA NobodyWorks ==
    ASSUME \A k \in Slots : slot'[k].phase # "working", slot' \in [Slots -> Task],
           inflight' = [p \in Providers |-> 0]
    PROVE  Seats'
  <1>1. \A p : Users(p)' = {}
    BY DEF Users
  <1> QED BY <1>1, FS_EmptySet DEF Seats, SeatType, WorkingAt, SeatsCounted, LimitsKept, Bounded

LEMMA CancelledTask ==
    ASSUME NEW s \in Task
    PROVE  /\ Cancelled(s) \in Task /\ Cancelled(s).phase # "working"
           /\ s.phase = "claiming" => Cancelled(s).phase = "unclaiming"
           /\ s.phase \in Holding => Cancelled(s).phase = "handing" /\ Cancelled(s).job = s.job
  <1>1. CASE s.phase = "claiming"
    BY <1>1 DEF Cancelled, Task, Phases, Holding
  <1>2. CASE s.phase \in Holding
    <2> DEFINE t == [s EXCEPT !.phase = "handing", !.at = NoOne, !.todo = {}]
    <2>1. Cancelled(s) = t
      BY <1>2 DEF Cancelled, Holding
    <2>2. t \in Task /\ t.phase = "handing" /\ t.job = s.job
      BY DEF Task, Phases
    <2> QED BY <2>1, <2>2, <1>2 DEF Holding
  <1>3. CASE s.phase \notin Holding \cup {"claiming"}
    <2>1. Cancelled(s) = Ended /\ Ended.phase = "ended"
      BY <1>3 DEF Cancelled, Ended, NoTask
    <2> QED BY <2>1, <1>3, FreshTasks
  <1> QED BY <1>1, <1>2, <1>3

(* Stop finds the slots up: none is being stopped yet.                     *)
StoppingOnly == life = "up" => \A k \in Slots : slot[k].phase \notin {"unclaiming", "handing"}

LEMMA StopKeeps ==
    ASSUME WorkerInv, StoppingOnly, Stop
    PROVE  WorkerInv'
  <1>1. slot \in [Slots -> Task] /\ slot' = [k \in Slots |-> Cancelled(slot[k])]
    BY DEF WorkerInv, TypeOK, Stop
  <1>2. slot' \in [Slots -> Task] /\ \A k \in Slots : slot'[k].phase # "working"
    BY <1>1, CancelledTask
  <1>3. inflight' = [p \in Providers |-> 0]
    <2>1. \A p \in Providers : Cardinality(Users(p)) \in Nat
      BY UsersFinite
    <2> QED BY <2>1 DEF Stop, WorkerInv, Seats, SeatsCounted
  <1>4. Seats'
    BY <1>2, <1>3, NobodyWorks
  <1>5. UNCHANGED <<queue, cached, request, dropped>> /\ life' = "stopping"
    BY DEF Stop
  <1>6. \A k \in Slots : slot[k].phase \notin {"unclaiming", "handing"}
    BY DEF StoppingOnly, Stop
  <1>7. ASSUME NEW k \in Slots
        PROVE  /\ slot[k].phase = "claiming" => slot'[k].phase = "unclaiming"
               /\ slot[k].phase \in Holding => slot'[k].phase = "handing" /\ slot'[k].job = slot[k].job
    BY <1>1, CancelledTask
  <1>8. TypeOK' /\ AskedOnly'
    BY <1>2, <1>4, <1>5, <1>6, <1>7 DEF WorkerInv, TypeOK, AskedOnly, Seats, SeatType
  <1>9. \A k \in Slots, j \in Jobs : Keeps(k, j) => Keeps(k, j)'
    BY <1>5, <1>6, <1>7 DEF Keeps
  <1>10. ClaimsKept'
    BY <1>5, <1>9 DEF WorkerInv, ClaimsKept
  <1> QED BY <1>4, <1>8, <1>10 DEF WorkerInv

LEMMA FreshKeeps ==
    ASSUME WorkerInv, Restart \/ Kill
    PROVE  WorkerInv'
  <1>1. /\ slot' = [k \in Slots |-> NoTask] /\ request' = [k \in Slots |-> "none"]
        /\ inflight' = [p \in Providers |-> 0] /\ cached' = NoConfig /\ life' = "up" /\ queue' = queue
    BY DEF Restart, Kill, Fresh
  <1>2. Seats'
    BY <1>1, FreshTasks, NobodyWorks DEF NoTask
  <1>3. \A j \in Jobs : queue[j].status = "CLAIMED" => j \in dropped'
    <2>1. CASE Restart
      <3>1. \A k \in Slots, j \in Jobs : slot[k].phase = "ended" => ~Keeps(k, j)
        BY DEF Keeps, Holding
      <3> QED BY <3>1, <2>1 DEF Restart, Stopped, WorkerInv, ClaimsKept
    <2>2. CASE Kill
      BY <2>2 DEF Kill
    <2> QED BY <2>1, <2>2
  <1>4. dropped' \subseteq Jobs
    BY DEF Restart, Kill, WorkerInv, TypeOK
  <1>5. TypeOK' /\ AskedOnly' /\ ClaimsKept'
    BY <1>1, <1>2, <1>3, <1>4, FreshTasks
      DEF WorkerInv, TypeOK, AskedOnly, ClaimsKept, Seats, SeatType
  <1> QED BY <1>2, <1>5 DEF WorkerInv

LEMMA NextStopping ==
    ASSUME WorkerInv, StoppingOnly, [Next]_vars
    PROVE  StoppingOnly'
  <1> SUFFICES ASSUME life' = "up", NEW h \in Slots
               PROVE  slot'[h].phase \notin {"unclaiming", "handing"}
    BY DEF StoppingOnly
  <1> USE DEF Idle, Ended, NoTask
  <1>1. slot \in [Slots -> Task]
    BY DEF WorkerInv, TypeOK
  <1>2. life = "up" => slot[h].phase \notin {"unclaiming", "handing"}
    BY DEF StoppingOnly
  <1>3. CASE UNCHANGED vars \/ (\E j \in Jobs : Ripen(j) \/ Continue(j) \/ Reclaim(j))
             \/ (\E k \in Slots : ServeClaim(k))
    BY <1>2, <1>3 DEF vars, Ripen, Continue, Reclaim, ServeClaim
  <1>4. CASE Supervise \/ Restart \/ Kill \/ Stop
    BY <1>2, <1>4 DEF Supervise, Restart, Kill, Fresh, Stop
  <1>5. ASSUME NEW k \in Slots, Slot(k)
        PROVE  slot'[h].phase \notin {"unclaiming", "handing"}
    <2>1. life = "up" /\ slot[k].phase \notin {"unclaiming", "handing"}
      BY <1>5 DEF StoppingOnly, Slot, Ask, Begin, NothingToDo, LoseClaim, ProviderFails, Produce,
                  Finish, LoseFinish, Abandon, HandOver, HandBack
    <2>2. CASE Begin(k)
      <3>1. Seats' /\ OneSlot(k) /\ slot'[k].phase \in Holding
        BY <2>2, BeginStep
      <3> QED BY <3>1, <1>2, <2>1 DEF Holding, OneSlot
    <2>3. CASE ProviderFails(k)
      <3>1. OneSlot(k) /\ slot'[k].phase \in Holding
        BY <2>3, ProviderFailsStep
      <3> QED BY <3>1, <1>2, <2>1 DEF Holding, OneSlot
    <2>4. CASE Ask(k)
      BY <2>4, <1>1, <1>2, <2>1 DEF Ask, Task
    <2>5. CASE Produce(k)
      BY <2>5, <1>1, <1>2, <2>1 DEF Produce, Task
    <2>6. CASE NothingToDo(k) \/ LoseClaim(k) \/ Finish(k) \/ LoseFinish(k) \/ Abandon(k)
               \/ HandOver(k) \/ HandBack(k)
      BY <2>6, <1>1, <1>2, <2>1
        DEF NothingToDo, LoseClaim, Finish, LoseFinish, Abandon, HandOver, HandBack
    <2> QED BY <1>5, <2>2, <2>3, <2>4, <2>5, <2>6 DEF Slot
  <1>6. CASE \E k \in Slots : Slot(k)
    BY <1>5, <1>6
  <1> QED BY <1>3, <1>4, <1>6 DEF Next

LEMMA NextKeeps ==
    ASSUME WorkerInv, StoppingOnly, [Next]_vars
    PROVE  WorkerInv'
  <1>1. CASE UNCHANGED vars
    <2>1. Seats'
      BY <1>1, SeatsUntouched DEF vars
    <2> QED BY <1>1, <2>1 DEF vars, WorkerInv, TypeOK, ClaimsKept, AskedOnly, Keeps
  <1>2. ASSUME NEW j \in Jobs, Ripen(j) \/ Continue(j) \/ Reclaim(j)
        PROVE  WorkerInv'
    BY <1>2, WikiSteps
  <1>3. ASSUME NEW k \in Slots, ServeClaim(k) \/ Slot(k)
        PROVE  WorkerInv'
    BY <1>3, ServeClaimKeeps, AskKeeps, BeginKeeps, UnansweredKeeps, ProviderFailsKeeps,
       ProduceKeeps, FinishKeeps, HandOverKeeps, HandBackKeeps DEF Slot
  <1>4. CASE Supervise \/ Stop \/ Restart \/ Kill
    BY <1>4, SuperviseKeeps, StopKeeps, FreshKeeps
  <1> QED BY <1>1, <1>2, <1>3, <1>4 DEF Next

LEMMA Invariance == Spec => [](WorkerInv /\ StoppingOnly)
  <1>1. Init => WorkerInv /\ StoppingOnly
    BY InitInv DEF Init, StoppingOnly, NoTask
  <1>2. WorkerInv /\ StoppingOnly /\ [Next]_vars => (WorkerInv /\ StoppingOnly)'
    BY NextKeeps, NextStopping
  <1> QED BY <1>1, <1>2, PTL DEF Spec

(* Every variable keeps its type (TypeOK of Worker).                       *)
THEOREM WorkerTypeCorrect == Spec => []TypeOK
  <1>1. WorkerInv => TypeOK
    BY DEF WorkerInv
  <1> QED BY <1>1, Invariance, PTL

(* Gate.inflight is the number of tasks that are working with a provider:  *)
(* no seat is lost or given back twice, however a task ends.               *)
THEOREM EverySeatIsCounted == Spec => []SeatsCounted
  <1>1. WorkerInv => SeatsCounted
    BY DEF WorkerInv, Seats
  <1> QED BY <1>1, Invariance, PTL

(* No provider is given more work at a time than one of the configs in     *)
(* use for it allows, with any number of seats, slots and config changes.  *)
THEOREM NoProviderIsOverloaded == Spec => []WithinLimits
  <1>1. WorkerInv => WithinLimits
    BY DEF WorkerInv, Seats, LimitsKept, Bounded, WithinLimits
  <1> QED BY <1>1, Invariance, PTL

(* An orderly stop leaves no claim behind that the network did not lose.   *)
THEOREM StopHandsBack == Spec => []HandedBack
  <1>1. ASSUME WorkerInv PROVE HandedBack
    <2>1. \A k \in Slots, j \in Jobs : slot[k].phase = "ended" => ~Keeps(k, j)
      BY DEF Keeps, Holding
    <2> QED BY <1>1, <2>1 DEF WorkerInv, HandedBack, Stopped, ClaimsKept
  <1> QED BY <1>1, Invariance, PTL

-----------------------------------------------------------------------------
(* What is still to be tried while nobody was busy or too young.           *)
Eligible(s) == {p \in Providers : s.config[p] > 0 /\ (s.job \in Chores => p \in Background)}

Outlook(s) ==
    /\ s.phase = "working" /\ ~s.busy /\ ~s.later => Eligible(s) \ s.failed \subseteq s.todo \cup {s.at}
    /\ s.phase = "failing" => s.failed # {} /\ Eligible(s) \subseteq s.failed

LEMMA GoingOnKeepsOutlook ==
    ASSUME slot \in [Slots -> Task], NEW k \in Slots, NEW s \in Task,
           NEW rest \in SUBSET Providers, NEW seats, GoOn(k, s, rest, seats),
           ~s.busy /\ ~s.later => Eligible(s) \ s.failed \subseteq rest,
           rest = {} => s.failed # {}
    PROVE  Outlook(slot'[k]) /\ OneSlot(k)
  <1>1. CASE {p \in rest : Free(s.config, seats, p)} = {}
    <2> DEFINE t == [s EXCEPT !.phase = Verdict(s, rest), !.at = NoOne, !.todo = {}]
    <2>1. slot' = [slot EXCEPT ![k] = t]
      BY <1>1 DEF GoOn
    <2>2. /\ t.phase = Verdict(s, rest) /\ t.failed = s.failed
          /\ t.job = s.job /\ t.config = s.config
      BY DEF Task
    <2>3. t.phase # "working"
      BY <2>2 DEF Verdict
    <2>4. t.phase = "failing" => ~s.busy /\ ~s.later /\ rest = {}
      BY <2>2 DEF Verdict
    <2> HIDE DEF t
    <2>5. Eligible(t) = Eligible(s)
      BY <2>2 DEF Eligible
    <2>6. Outlook(t)
      BY <2>2, <2>3, <2>4, <2>5 DEF Outlook
    <2> QED BY <2>1, <2>6 DEF OneSlot
  <1>2. CASE {p \in rest : Free(s.config, seats, p)} # {}
    <2>1. PICK p \in rest :
            slot' = [slot EXCEPT ![k] = [s EXCEPT !.phase = "working", !.at = p,
                          !.todo = {q \in rest : Before(k[1], p, q)},
                          !.busy = @ \/ \E q \in rest : Before(k[1], q, p)]]
      BY <1>2 DEF GoOn
    <2> DEFINE t == [s EXCEPT !.phase = "working", !.at = p,
                          !.todo = {q \in rest : Before(k[1], p, q)},
                          !.busy = @ \/ \E q \in rest : Before(k[1], q, p)]
    <2>2. slot' = [slot EXCEPT ![k] = t]
      BY <2>1
    <2>3. /\ t.phase = "working" /\ t.at = p /\ t.todo = {q \in rest : Before(k[1], p, q)}
          /\ t.busy = (s.busy \/ \E q \in rest : Before(k[1], q, p))
          /\ t.failed = s.failed /\ t.later = s.later /\ t.job = s.job /\ t.config = s.config
      BY DEF Task
    <2> HIDE DEF t
    <2>4. Eligible(t) = Eligible(s)
      BY <2>3 DEF Eligible
    <2>5. \A q \in rest : q = p \/ Before(k[1], p, q) \/ Before(k[1], q, p)
      <3> SUFFICES ASSUME NEW q \in rest, q # p
                   PROVE  Before(k[1], p, q) \/ Before(k[1], q, p)
        OBVIOUS
      <3>1. Place[p] \in Nat /\ Place[q] \in Nat /\ Place[p] # Place[q]
        BY PlaceAssumption
      <3> QED BY <3>1 DEF Before
    <2>6. Outlook(t)
      BY <2>3, <2>4, <2>5 DEF Outlook
    <2> QED BY <2>2, <2>6 DEF OneSlot
  <1> QED BY <1>1, <1>2

LEMMA BeginOutlook ==
    ASSUME WorkerInv, NEW k \in Slots, Begin(k)
    PROVE  Outlook(slot'[k])
  <1> DEFINE j == request[k]
  <1>1. j \in Jobs /\ slot \in [Slots -> Task] /\ slot[k] \in Task
    BY DEF Begin, WorkerInv, TypeOK
  <1>2. PICK skew \in Clocks :
          LET order == Candidates(slot[k].config, k[1], j)
              young == {p \in order : queue[j].age + skew < MinAge[p]}
              s     == [slot[k] EXCEPT !.job = j, !.later = young # {}]
          IN  \/ order # young /\ GoOn(k, s, order \ young, inflight)
              \/ /\ order = young
                 /\ slot' = [slot EXCEPT ![k] = [s EXCEPT !.phase = "releasing"]]
                 /\ UNCHANGED inflight
    BY DEF Begin
  <1> DEFINE order == Candidates(slot[k].config, k[1], j)
             young == {p \in order : queue[j].age + skew < MinAge[p]}
             s     == [slot[k] EXCEPT !.job = j, !.later = young # {}]
  <1>3. CASE order # young
    <2>1. GoOn(k, s, order \ young, inflight)
      BY <1>2, <1>3
    <2>2. order \ young \in SUBSET Providers /\ order \ young # {}
      BY <1>3 DEF Candidates
    <2>3. s \in Task /\ s.job = j /\ s.config = slot[k].config /\ s.later = (young # {})
      BY <1>1 DEF Task
    <2>4. Eligible(s) \subseteq order
      BY <2>3 DEF Eligible, Candidates
    <2> HIDE DEF s, order, young
    <2>5. ~s.later => Eligible(s) \ s.failed \subseteq order \ young
      BY <2>3, <2>4
    <2> QED BY <2>1, <2>2, <2>3, <2>5, <1>1, GoingOnKeepsOutlook
  <1>4. CASE order = young
    <2>1. slot' = [slot EXCEPT ![k] = [s EXCEPT !.phase = "releasing"]]
      BY <1>2, <1>4
    <2>2. slot'[k].phase = "releasing"
      BY <2>1, <1>1 DEF Task
    <2> QED BY <2>2 DEF Outlook
  <1> QED BY <1>3, <1>4

LEMMA ProviderFailsOutlook ==
    ASSUME WorkerInv, NEW k \in Slots, ProviderFails(k), Outlook(slot[k])
    PROVE  Outlook(slot'[k])
  <1>1. slot[k].phase = "working" /\ slot \in [Slots -> Task] /\ slot[k] \in Task
    BY DEF ProviderFails, WorkerInv, TypeOK
  <1> DEFINE s == [slot[k] EXCEPT !.failed = @ \cup {slot[k].at}]
  <1>2. GoOn(k, s, slot[k].todo, SeatBack(k))
    BY DEF ProviderFails
  <1>3. slot[k].at \in Providers
    BY <1>1 DEF WorkerInv, Seats, WorkingAt
  <1>4. s \in Task /\ slot[k].todo \in SUBSET Providers
    BY <1>1, <1>3 DEF Task
  <1>5. /\ s.failed = slot[k].failed \cup {slot[k].at} /\ s.busy = slot[k].busy
        /\ s.later = slot[k].later /\ s.job = slot[k].job /\ s.config = slot[k].config
    BY <1>1 DEF Task
  <1> HIDE DEF s
  <1>6. Eligible(s) = Eligible(slot[k])
    BY <1>5 DEF Eligible
  <1>7. ~s.busy /\ ~s.later => Eligible(s) \ s.failed \subseteq slot[k].todo
    BY <1>1, <1>5, <1>6 DEF Outlook
  <1> QED BY <1>1, <1>2, <1>4, <1>5, <1>7, GoingOnKeepsOutlook

Outlooks == \A k \in Slots : Outlook(slot[k])

LEMMA NextOutlooks ==
    ASSUME WorkerInv, Outlooks, [Next]_vars
    PROVE  Outlooks'
  <1> SUFFICES ASSUME NEW h \in Slots PROVE Outlook(slot'[h])
    BY DEF Outlooks, Outlook, Eligible
  <1>1. slot \in [Slots -> Task] /\ Outlook(slot[h])
    BY DEF WorkerInv, TypeOK, Outlooks
  <1>2. CASE UNCHANGED slot
    BY <1>1, <1>2
  <1>3. CASE slot'[h].phase \notin {"working", "failing"}
    BY <1>3 DEF Outlook
  <1>4. CASE Supervise
    <2>1. slot'[h] = slot[h] \/ slot'[h].phase = "idle"
      BY <1>4 DEF Supervise, Idle, NoTask
    <2> QED BY <2>1, <1>1, <1>3
  <1>5. CASE Stop \/ Restart \/ Kill
    <2>1. CASE Stop
      <3>1. slot'[h] = Cancelled(slot[h]) /\ slot[h] \in Task
        BY <2>1, <1>1 DEF Stop
      <3>2. slot'[h].phase \notin {"working", "failing"}
        BY <3>1 DEF Cancelled, Ended, NoTask, Task, Holding
      <3> QED BY <3>2, <1>3
    <2>2. CASE Restart \/ Kill
      BY <2>2, <1>3 DEF Restart, Kill, Fresh, NoTask
    <2> QED BY <1>5, <2>1, <2>2
  <1>6. ASSUME NEW k \in Slots, Slot(k)
        PROVE  Outlook(slot'[h])
    <2>1. CASE Begin(k)
      <3>1. OneSlot(k)
        BY <2>1, BeginStep
      <3> QED BY <3>1, <1>1, <2>1, BeginOutlook DEF OneSlot
    <2>2. CASE ProviderFails(k)
      <3>1. OneSlot(k)
        BY <2>2, ProviderFailsStep
      <3> QED BY <3>1, <1>1, <2>2, ProviderFailsOutlook DEF OneSlot, Outlooks
    <2>3. CASE Ask(k) \/ Produce(k) \/ HandOver(k)
      <3>1. slot[k] \in Task
        BY <1>1
      <3>2. h # k => slot'[h] = slot[h]
        BY <2>3, <1>1 DEF Ask, Produce, HandOver
      <3>3. slot'[k].phase \in {"claiming", "ended", "submitting", "handing"}
        BY <2>3, <3>1, <1>1 DEF Ask, Produce, HandOver, Task, Ended, NoTask
      <3> QED BY <3>2, <3>3, <1>1, <1>3
    <2>4. CASE NothingToDo(k) \/ LoseClaim(k) \/ Finish(k) \/ LoseFinish(k) \/ Abandon(k) \/ HandBack(k)
      <3>1. \E t \in {Idle, Ended} : slot' = [slot EXCEPT ![k] = t]
        BY <2>4 DEF NothingToDo, LoseClaim, Finish, LoseFinish, Abandon, HandBack
      <3>2. slot'[h] = slot[h] \/ slot'[h].phase \in {"idle", "ended"}
        BY <3>1, <1>1 DEF Idle, Ended, NoTask
      <3> QED BY <3>2, <1>1, <1>3
    <2> QED BY <1>6, <2>1, <2>2, <2>3, <2>4 DEF Slot
  <1>7. CASE \/ \E j \in Jobs : Ripen(j) \/ Continue(j) \/ Reclaim(j)
             \/ \E k \in Slots : ServeClaim(k)
    BY <1>7, <1>2 DEF Ripen, Continue, Reclaim, ServeClaim
  <1>8. CASE \E k \in Slots : Slot(k)
    BY <1>6, <1>8
  <1>9. CASE UNCHANGED vars
    BY <1>2, <1>9 DEF vars
  <1> QED BY <1>4, <1>5, <1>7, <1>8, <1>9 DEF Next

(* A failure is reported, and an attempt used up, only when every provider *)
(* that may do the job failed on it under this claim.                      *)
THEOREM FailureIsUnanimous == Spec => []FailsWhenNobodyIsLeft
  <1>1. Init => Outlooks
    BY DEF Init, Outlooks, Outlook, NoTask
  <1>2. WorkerInv /\ Outlooks /\ [Next]_vars => Outlooks'
    BY NextOutlooks
  <1>3. Outlooks => FailsWhenNobodyIsLeft
    BY DEF Outlooks, Outlook, Eligible, FailsWhenNobodyIsLeft
  <1> QED BY <1>1, <1>2, <1>3, Invariance, PTL DEF Spec

(* Seats are counted right, and none is taken beyond what a config grants. *)
THEOREM SeatsStayInOrder == Spec => []SeatsInOrder
  BY EverySeatIsCounted, NoProviderIsOverloaded, PTL DEF SeatsInOrder

-----------------------------------------------------------------------------

\* The first of those for which something fails.
LEMMA Least ==
  ASSUME NEW S \in SUBSET Nat, S # {}
  PROVE  \E n \in S : \A m \in S : n <= m
  <1>1. PICK n \in S : \A y \in S : ~(<<y, n>> \in OpToRel(<, Nat))
    BY NatLessThanWellFounded, WFMin
  <1>2. \A y \in S : ~(y < n)
    BY <1>1 DEF OpToRel
  <1> QED BY <1>2

\* What is built one step at a time, from what was built so far and the number of
\* the step.
Builds(f, V, base, step, n) ==
    f \in [0..n -> V] /\ f[0] = base /\ \A i \in 1..n : f[i] = step[<<f[i - 1], i>>]

LEMMA BuildsAlike ==
  ASSUME NEW V, NEW base, NEW step, NEW n \in Nat, NEW m \in Nat, NEW f, NEW g,
         Builds(f, V, base, step, n), Builds(g, V, base, step, m)
  PROVE  \A i \in 0..n : i \in 0..m => f[i] = g[i]
  <1> DEFINE Differ == {i \in 0..n : i \in 0..m /\ f[i] # g[i]}
  <1>1. SUFFICES ASSUME Differ # {} PROVE FALSE
    OBVIOUS
  <1>2. PICK i \in Differ : \A j \in Differ : i <= j
    <2>1. Differ \in SUBSET Nat
      OBVIOUS
    <2> HIDE DEF Differ
    <2> QED BY <1>1, <2>1, Least
  <1>3. i # 0 /\ i \in 1..n /\ i \in 1..m /\ i - 1 \in 0..n /\ i - 1 \in 0..m
    BY <1>2 DEF Builds
  <1>4. f[i - 1] = g[i - 1]
    BY <1>2, <1>3
  <1>5. f[i] = g[i]
    BY <1>3, <1>4 DEF Builds
  <1> QED BY <1>2, <1>5

Steps(step, V) == step \in [V \X Nat -> V]
BuiltFor(f, V, base, step) == f \in [Nat -> V] /\ f[0] = base /\ \A n \in Nat : n # 0 => f[n] = step[<<f[n - 1], n>>]

LEMMA Built ==
  ASSUME NEW V, NEW base \in V, NEW step, Steps(step, V)
  PROVE  \E f : BuiltFor(f, V, base, step)
  <1> DEFINE Fails == {n \in Nat : ~ \E f : Builds(f, V, base, step, n)}
  <1>1. Fails = {}
    <2>1. SUFFICES ASSUME Fails # {} PROVE FALSE
      OBVIOUS
    <2>2. PICK n \in Fails : \A m \in Fails : n <= m
      <3>1. Fails \in SUBSET Nat
        OBVIOUS
      <3> HIDE DEF Fails
      <3> QED BY <2>1, <3>1, Least
    <2>3. n # 0
      <3>1. Builds([i \in 0..0 |-> base], V, base, step, 0)
        BY DEF Builds
      <3> QED BY <2>2, <3>1
    <2>4. PICK g : Builds(g, V, base, step, n - 1)
      <3>1. n - 1 \in Nat /\ n - 1 \notin Fails
        BY <2>2, <2>3
      <3> QED BY <3>1
    <2> DEFINE next == [i \in 0..n |-> IF i = n THEN step[<<g[n - 1], n>>] ELSE g[i]]
    <2>5. Builds(next, V, base, step, n)
      <3>1. n \in Nat /\ n - 1 \in 0..(n - 1) /\ g[n - 1] \in V
        BY <2>2, <2>3, <2>4 DEF Builds
      <3>2. step[<<g[n - 1], n>>] \in V
        BY <3>1 DEF Steps
      <3>3. next \in [0..n -> V] /\ next[0] = base
        BY <2>3, <2>4, <3>1, <3>2 DEF Builds
      <3>4. ASSUME NEW i \in 1..n PROVE next[i] = step[<<next[i - 1], i>>]
        <4>1. next[i - 1] = g[i - 1]
          BY <3>1
        <4>2. CASE i = n
          BY <3>1, <4>1, <4>2
        <4>3. CASE i # n
          <5>1. i \in 1..(n - 1)
            BY <3>1, <4>3
          <5> QED BY <2>4, <4>1, <4>3, <5>1 DEF Builds
        <4> QED BY <4>2, <4>3
      <3> QED BY <3>3, <3>4 DEF Builds
    <2> QED BY <2>2, <2>5
  <1> DEFINE piece == [n \in Nat |-> CHOOSE f : Builds(f, V, base, step, n)]
             whole == [n \in Nat |-> piece[n][n]]
  <1>2. \A n \in Nat : Builds(piece[n], V, base, step, n)
    BY <1>1
  <1> HIDE DEF piece
  <1>3. whole \in [Nat -> V] /\ whole[0] = base
    BY <1>2 DEF Builds
  <1>4. ASSUME NEW n \in Nat, n # 0 PROVE whole[n] = step[<<whole[n - 1], n>>]
    <2>1. n - 1 \in Nat /\ n - 1 \in 0..n /\ n - 1 \in 0..(n - 1) /\ n \in 1..n
      BY <1>4
    <2>2. piece[n - 1][n - 1] = piece[n][n - 1]
      <3>1. Builds(piece[n - 1], V, base, step, n - 1) /\ Builds(piece[n], V, base, step, n)
        BY <1>2, <2>1
      <3> DEFINE p == piece[n - 1]
                 q == piece[n]
                 m == n - 1
      <3> HIDE DEF p, q, m
      <3>2. Builds(p, V, base, step, m) /\ Builds(q, V, base, step, n) /\ m \in Nat
        BY <2>1, <3>1 DEF p, q, m
      <3>3. \A i \in 0..m : i \in 0..n => p[i] = q[i]
        BY <3>2, BuildsAlike
      <3> QED BY <2>1, <3>3 DEF p, q, m
    <2>3. piece[n][n] = step[<<piece[n][n - 1], n>>]
      BY <1>2, <2>1 DEF Builds
    <2> QED BY <2>1, <2>2, <2>3
  <1> HIDE DEF whole
  <1> QED BY <1>3, <1>4 DEF BuiltFor

\* The groups of the first segments.
GroupsUpTo(texts) == CHOOSE f : f = [n \in Nat |-> IF n = 0 THEN <<>> ELSE Joining(texts, f[n - 1], n)]

LEMMA GroupedIs ==
  ASSUME NEW texts
  PROVE  Grouped(texts) = GroupsUpTo(texts)[Len(texts)]
  BY DEF Grouped, GroupsUpTo

LEMMA JoiningAdds ==
  ASSUME NEW texts, NEW groups \in Seq(Seq(Nat)), NEW n \in Nat
  PROVE  /\ Joining(texts, groups, n) \in Seq(Seq(Nat))
         /\ \A g \in DOMAIN Joining(texts, groups, n) : \A i \in ToSet(Joining(texts, groups, n)[g]) :
               i = n \/ \E h \in DOMAIN groups : i \in ToSet(groups[h])
  <1>1. CASE groups # <<>> /\ Length(texts, Last(groups)) + texts[n] <= GroupLength
    <2> DEFINE last == groups[Len(groups)]
    <2>1. Len(groups) \in DOMAIN groups /\ last \in Seq(Nat) /\ Len(groups) \in Nat \ {0} /\ DOMAIN groups = 1..Len(groups)
      BY <1>1
    <2>2. Front(groups) = SubSeq(groups, 1, Len(groups) - 1) /\ Last(groups) = last
      BY DEF Front, Last
    <2>3. Front(groups) \in Seq(Seq(Nat)) /\ Len(Front(groups)) = Len(groups) - 1
      BY <2>1, <2>2
    <2>4. \A g \in 1..(Len(groups) - 1) : Front(groups)[g] = groups[g]
      BY <2>1, <2>2
    <2> HIDE DEF last
    <2> DEFINE longer == Append(last, n)
    <2>5. longer \in Seq(Nat) /\ \A i \in ToSet(longer) : i = n \/ i \in ToSet(last)
      BY <2>1 DEF ToSet
    <2>6. Joining(texts, groups, n) = Append(Front(groups), longer)
      BY <1>1, <2>2 DEF Joining
    <2> HIDE DEF longer
    <2>7. Joining(texts, groups, n) \in Seq(Seq(Nat))
      BY <2>3, <2>5, <2>6
    <2>8. ASSUME NEW g \in DOMAIN Joining(texts, groups, n)
          PROVE  Joining(texts, groups, n)[g] = longer \/ (g \in DOMAIN groups /\ Joining(texts, groups, n)[g] = groups[g])
      <3>1. g \in 1..Len(groups)
        BY <2>1, <2>3, <2>5, <2>6
      <3>2. CASE g = Len(groups)
        BY <2>1, <2>3, <2>5, <2>6, <3>2
      <3>3. CASE g # Len(groups)
        <4>1. g \in 1..(Len(groups) - 1)
          BY <2>1, <3>1, <3>3
        <4>2. Append(Front(groups), longer)[g] = Front(groups)[g]
          BY <2>1, <2>3, <2>5, <4>1
        <4>3. Front(groups)[g] = groups[g]
          BY <2>4, <4>1
        <4>4. g \in DOMAIN groups
          BY <2>1, <3>1
        <4> QED BY <2>6, <4>2, <4>3, <4>4
      <3> QED BY <3>2, <3>3
    <2> QED BY <2>1, <2>5, <2>7, <2>8 DEF last
  <1>2. CASE ~(groups # <<>> /\ Length(texts, Last(groups)) + texts[n] <= GroupLength)
    <2>1. Joining(texts, groups, n) = Append(groups, <<n>>)
      BY <1>2 DEF Joining
    <2>2. <<n>> \in Seq(Nat) /\ \A i \in ToSet(<<n>>) : i = n
      BY DEF ToSet
    <2>3. Joining(texts, groups, n) \in Seq(Seq(Nat))
      BY <2>1, <2>2
    <2>4. \A g \in DOMAIN Joining(texts, groups, n) :
             Joining(texts, groups, n)[g] = <<n>> \/ (g \in DOMAIN groups /\ Joining(texts, groups, n)[g] = groups[g])
      BY <2>1
    <2> QED BY <2>2, <2>3, <2>4
  <1> QED BY <1>1, <1>2

\* grouped names only segments that there are.
LEMMA GroupsWithin ==
  ASSUME NEW texts \in Seq(Nat)
  PROVE  /\ Grouped(texts) \in Seq(Seq(Nat))
         /\ \A g \in DOMAIN Grouped(texts) : ToSet(Grouped(texts)[g]) \subseteq 1..Len(texts)
  <1> DEFINE V    == Seq(Seq(Nat))
             step == [at \in V \X Nat |-> Joining(texts, at[1], at[2])]
             f    == GroupsUpTo(texts)
             Far  == {n \in Nat : \E g \in DOMAIN f[n] : ~(ToSet(f[n][g]) \subseteq 1..n)}
  <1>1. step \in [V \X Nat -> V]
    BY JoiningAdds
  <1>2. <<>> \in V
    OBVIOUS
  <1>3. PICK h \in [Nat -> V] : h[0] = <<>> /\ \A n \in Nat : n # 0 => h[n] = step[<<h[n - 1], n>>]
    <2>1. Steps(step, V)
      BY <1>1 DEF Steps
    <2> HIDE DEF V, step
    <2>2. PICK h : BuiltFor(h, V, <<>>, step)
      BY <1>2, <2>1, Built
    <2> QED BY <2>2 DEF BuiltFor
  <1>4. h = [n \in Nat |-> IF n = 0 THEN <<>> ELSE Joining(texts, h[n - 1], n)]
    <2>1. \A n \in Nat : n # 0 => step[<<h[n - 1], n>>] = Joining(texts, h[n - 1], n)
      <3>1. \A n \in Nat : n # 0 => n - 1 \in Nat /\ h[n - 1] \in V
        OBVIOUS
      <3> QED BY <3>1
    <2> HIDE DEF step
    <2> QED BY <1>3, <2>1
  <1>5. f = [n \in Nat |-> IF n = 0 THEN <<>> ELSE Joining(texts, f[n - 1], n)]
    BY <1>4 DEF GroupsUpTo
  <1> HIDE DEF f
  <1>6. \A n \in Nat : f[n] \in V
    <2>1. SUFFICES ASSUME {n \in Nat : f[n] \notin V} # {} PROVE FALSE
      OBVIOUS
    <2>2. PICK n \in Nat : f[n] \notin V /\ \A m \in Nat : f[m] \notin V => n <= m
      BY <2>1, Least
    <2>3. n # 0 /\ n - 1 \in Nat
      BY <1>2, <1>5, <2>2
    <2>4. f[n - 1] \in V
      BY <2>2, <2>3
    <2>5. f[n] = Joining(texts, f[n - 1], n)
      BY <1>5, <2>3
    <2> QED BY <2>2, <2>4, <2>5, JoiningAdds
  <1>7. Far = {}
    <2>1. SUFFICES ASSUME Far # {} PROVE FALSE
      OBVIOUS
    <2>2. PICK n \in Far : \A m \in Far : n <= m
      <3>1. Far \in SUBSET Nat
        OBVIOUS
      <3> HIDE DEF Far
      <3> QED BY <2>1, <3>1, Least
    <2>3. n # 0 /\ n \in Nat /\ n - 1 \in Nat
      BY <1>5, <2>2
    <2>4. n - 1 \notin Far
      BY <2>2, <2>3
    <2>5. f[n] = Joining(texts, f[n - 1], n) /\ f[n - 1] \in V
      BY <1>5, <1>6, <2>3
    <2>6. PICK g \in DOMAIN f[n] : ~(ToSet(f[n][g]) \subseteq 1..n)
      BY <2>2
    <2>7. PICK i \in ToSet(f[n][g]) : i \notin 1..n
      BY <2>6
    <2>8. i = n \/ \E k \in DOMAIN f[n - 1] : i \in ToSet(f[n - 1][k])
      BY <2>3, <2>5, <2>6, <2>7, JoiningAdds
    <2>9. i = n \/ i \in 1..(n - 1)
      BY <2>3, <2>4, <2>8
    <2> QED BY <2>3, <2>7, <2>9
  <1>8. Len(texts) \in Nat /\ Grouped(texts) = f[Len(texts)]
    BY GroupedIs DEF f
  <1> QED BY <1>6, <1>7, <1>8

-----------------------------------------------------------------------------
Plans == {p \in Seq(Lengths) : Len(p) <= MaxSegments}

RunStates == [stage: {"off", "group", "report"}, maker: Makers \cup {NoCheckpoint}, failed: SUBSET Makers, group: Nat,
              plan: Plans, with: Stages \cup {0}, found: Partial(Item), credit: Partial(Makers)]

Rows == [status: {"pending", "claimed", "done", "failed"}, holder: Runs \cup {NoCheckpoint}, moved: BOOLEAN,
         saved: Saves \cup {NoCheckpoint}, note: Partial(Item), plan: Plans, with: Stages \cup {0},
         credited: Makers \cup {NoCheckpoint}]

CheckpointTypeOK ==
    /\ segments \in Plans /\ segments # <<>> /\ stages \in Stages /\ claims \in Nat
    /\ jobRow \in Rows /\ run \in [Runs -> RunStates]

\* A session only grows.
Grows(texts, longer) == Len(texts) <= Len(longer) /\ \A n \in 1..Len(texts) : texts[n] <= longer[n]

\* Texts that have become no longer than those of the plan.
WithinPlan(hashes, texts) == \A n \in DOMAIN hashes : n \in 1..Len(texts) /\ hashes[n] <= texts[n]

\* What a checkpoint says of its items.
SavedSound(saved, texts) ==
    saved # NoCheckpoint =>
        /\ DOMAIN saved.hashes = DOMAIN saved.items /\ DOMAIN saved.credit = DOMAIN saved.items
        /\ WithinPlan(saved.hashes, texts)
        /\ \A n \in DOMAIN saved.items : /\ saved.items[n].of = saved.hashes[n]
                                         /\ saved.items[n].with = saved.digest
                                         /\ saved.items[n].by = saved.credit[n]

\* What a worker has found is of its plan, and it knows who wrote it, except
\* between a group and its report.
RunSound(r, texts) ==
    r.stage # "off" =>
        /\ r.maker \in Makers /\ r.with \in Stages /\ r.group # 0 /\ Grows(r.plan, texts)
        /\ \A n \in DOMAIN r.found : n \in 1..Len(r.plan) /\ r.found[n].of = r.plan[n] /\ r.found[n].with = r.with
        /\ DOMAIN r.credit \subseteq DOMAIN r.found
        /\ \A n \in DOMAIN r.found : r.found[n].by = IF n \in DOMAIN r.credit THEN r.credit[n] ELSE r.maker
        /\ r.stage = "group" => DOMAIN r.credit = DOMAIN r.found

\* Who holds the claim has taken over all of the checkpoint that is of use to it.
Resumes(r, saved) ==
    r.stage # "off" /\ saved # NoCheckpoint =>
        WithinPlan(saved.hashes, r.plan) /\ Usable(saved, r.plan, r.with) \subseteq DOMAIN r.found

CheckpointInv ==
    /\ CheckpointTypeOK /\ NoteIsOfItsPlan /\ CreditIsWeakest
    /\ SavedSound(jobRow.saved, segments)
    /\ \A w \in Runs : RunSound(run[w], segments)
    /\ \A w \in Runs : jobRow.holder = w => Resumes(run[w], jobRow.saved)

-----------------------------------------------------------------------------
LEMMA BoundsAre == /\ MaxSegments \in Nat \ {0} /\ MaxLength \in Nat \ {0} /\ MaxStages \in Nat \ {0}
                   /\ Lengths \subseteq Nat /\ Numbers \subseteq Nat /\ Stages \subseteq Nat
  <1>1. \A b \in {MaxSegments, MaxLength, MaxStages} : b \in Nat \ {0}
    BY CheckpointBounds
  <1>2. MaxSegments \in Nat \ {0} /\ MaxLength \in Nat \ {0} /\ MaxStages \in Nat \ {0}
    BY <1>1
  <1> QED BY <1>2 DEF Lengths, Numbers, Stages

LEMMA PlanIs ==
  ASSUME NEW p \in Plans
  PROVE  /\ p \in Seq(Nat) /\ Len(p) \in Nat /\ Len(p) <= MaxSegments /\ DOMAIN p = 1..Len(p)
         /\ \A n : n \in 1..Len(p) => p[n] \in Lengths /\ p[n] \in Nat /\ n \in Numbers /\ n \in Nat
  <1>1. p \in Seq(Lengths) /\ Len(p) <= MaxSegments /\ Len(p) \in Nat
    BY DEF Plans
  <1>2. p \in Seq(Nat)
    <2>1. p \in [1..Len(p) -> Lengths]
      BY <1>1
    <2>2. p \in [1..Len(p) -> Nat]
      BY <2>1, BoundsAre
    <2> QED BY <1>1, <2>2
  <1>3. \A n : n \in 1..Len(p) => p[n] \in Lengths /\ n \in Numbers /\ n \in Nat
    BY <1>1, BoundsAre DEF Numbers
  <1> QED BY <1>1, <1>2, <1>3, BoundsAre

LEMMA PartialIs ==
  ASSUME NEW V, NEW f
  PROVE  f \in Partial(V) <=> f \in [DOMAIN f -> V] /\ DOMAIN f \subseteq Numbers
  BY DEF Partial, Numbers

LEMMA WithIs ==
  ASSUME NEW V, NEW f \in Partial(V), NEW g \in Partial(V)
  PROVE  With(f, g) \in Partial(V) /\ DOMAIN With(f, g) = DOMAIN f \cup DOMAIN g
  <1>1. f \in [DOMAIN f -> V] /\ DOMAIN f \subseteq Numbers /\ g \in [DOMAIN g -> V] /\ DOMAIN g \subseteq Numbers
    BY PartialIs
  <1>2. With(f, g) \in [DOMAIN f \cup DOMAIN g -> V] /\ DOMAIN With(f, g) = DOMAIN f \cup DOMAIN g
    BY <1>1 DEF With
  <1> QED BY <1>1, <1>2, PartialIs

LEMMA KeptIs ==
  ASSUME NEW V, NEW f \in Partial(V), NEW S
  PROVE  /\ Kept(f, S) \in Partial(V) /\ DOMAIN Kept(f, S) = DOMAIN f \cap S
         /\ \A n : n \in DOMAIN f \cap S => Kept(f, S)[n] = f[n]
  <1>1. f \in [DOMAIN f -> V] /\ DOMAIN f \subseteq Numbers
    BY PartialIs
  <1>2. Kept(f, S) \in [DOMAIN f \cap S -> V] /\ DOMAIN Kept(f, S) = DOMAIN f \cap S
    BY <1>1 DEF Kept
  <1>3. \A n : n \in DOMAIN f \cap S => Kept(f, S)[n] = f[n]
    BY DEF Kept
  <1>4. Kept(f, S) \in Partial(V)
    BY <1>1, <1>2, PartialIs
  <1> QED BY <1>2, <1>3, <1>4

LEMMA NothingIs == ASSUME NEW V PROVE Nothing \in Partial(V) /\ DOMAIN Nothing = {}
  BY PartialIs DEF Nothing

LEMMA RunFields ==
  ASSUME NEW r \in RunStates
  PROVE  /\ r.stage \in {"off", "group", "report"} /\ r.maker \in Makers \cup {NoCheckpoint}
         /\ r.failed \subseteq Makers /\ r.group \in Nat /\ r.plan \in Plans /\ r.with \in Stages \cup {0}
         /\ r.found \in Partial(Item) /\ r.credit \in Partial(Makers)
  BY DEF RunStates

LEMMA RowFields ==
  ASSUME NEW row \in Rows
  PROVE  /\ row.status \in {"pending", "claimed", "done", "failed"} /\ row.holder \in Runs \cup {NoCheckpoint}
         /\ row.moved \in BOOLEAN /\ row.saved \in Saves \cup {NoCheckpoint} /\ row.note \in Partial(Item)
         /\ row.plan \in Plans /\ row.with \in Stages \cup {0} /\ row.credited \in Makers \cup {NoCheckpoint}
  BY DEF Rows

LEMMA GrowsOn ==
  ASSUME NEW a \in Plans, NEW b \in Plans, NEW c \in Plans, Grows(a, b), Grows(b, c)
  PROVE  Grows(a, c)
  <1>1. Len(a) \in Nat /\ Len(b) \in Nat /\ Len(c) \in Nat /\ Len(a) <= Len(b) /\ Len(b) <= Len(c)
    BY PlanIs DEF Grows
  <1>2. ASSUME NEW n \in 1..Len(a) PROVE a[n] <= c[n]
    <2>1. n \in 1..Len(b) /\ n \in 1..Len(c)
      BY <1>1
    <2>2. a[n] \in Nat /\ b[n] \in Nat /\ c[n] \in Nat
      BY <2>1, PlanIs
    <2>3. a[n] <= b[n] /\ b[n] <= c[n]
      BY <2>1 DEF Grows
    <2> QED BY <2>2, <2>3
  <1> QED BY <1>1, <1>2 DEF Grows

LEMMA WithinOn ==
  ASSUME NEW hashes \in Partial(Lengths), NEW b \in Plans, NEW c \in Plans, WithinPlan(hashes, b), Grows(b, c)
  PROVE  WithinPlan(hashes, c)
  <1>1. Len(b) \in Nat /\ Len(c) \in Nat /\ Len(b) <= Len(c)
    BY PlanIs DEF Grows
  <1>2. ASSUME NEW n \in DOMAIN hashes PROVE n \in 1..Len(c) /\ hashes[n] <= c[n]
    <2>1. n \in 1..Len(b) /\ hashes[n] <= b[n]
      BY DEF WithinPlan
    <2>2. n \in 1..Len(c) /\ b[n] <= c[n]
      BY <1>1, <2>1 DEF Grows
    <2>3. hashes[n] \in Lengths
      BY PartialIs
    <2>4. hashes[n] \in Nat /\ b[n] \in Nat /\ c[n] \in Nat
      BY <2>1, <2>2, <2>3, PlanIs, BoundsAre
    <2> QED BY <2>1, <2>2, <2>4
  <1> QED BY <1>2 DEF WithinPlan

LEMMA SelfGrows == ASSUME NEW a \in Plans PROVE Grows(a, a)
  BY PlanIs DEF Grows

\* The weakest of a few.
LEMMA WeakestIs ==
  ASSUME NEW f \in Partial(Makers), NEW k \in Nat, DOMAIN f \subseteq 1..k, NEW m \in Makers
  PROVE  LET names == {f[n] : n \in DOMAIN f} \cup {m}
         IN  Weakest(names) \in names /\ \A o \in names : Weakness[o] <= Weakness[Weakest(names)]
  <1> DEFINE upTo(j) == {f[n] : n \in DOMAIN f \cap 1..j} \cup {m}
             NoBest  == {j \in Nat : ~ \E o \in upTo(j) : \A q \in upTo(j) : Weakness[q] <= Weakness[o]}
  <1>1. \A q \in Makers : Weakness[q] \in Nat
    BY WeaknessAssumption
  <1>2. \A n \in DOMAIN f : f[n] \in Makers
    BY PartialIs
  <1>3. NoBest = {}
    <2>1. SUFFICES ASSUME NoBest # {} PROVE FALSE
      OBVIOUS
    <2>2. PICK j \in NoBest : \A i \in NoBest : j <= i
      <3>1. NoBest \in SUBSET Nat
        OBVIOUS
      <3> HIDE DEF NoBest
      <3> QED BY <2>1, <3>1, Least
    <2>3. j # 0
      <3>1. upTo(0) = {m}
        OBVIOUS
      <3>2. 0 \notin NoBest
        BY <1>1, <3>1
      <3> QED BY <2>2, <3>2
    <2>4. j - 1 \in Nat /\ j - 1 \notin NoBest /\ j \in Nat
      BY <2>2, <2>3
    <2>5. PICK o \in upTo(j - 1) : \A q \in upTo(j - 1) : Weakness[q] <= Weakness[o]
      BY <2>4
    <2>6. upTo(j) = upTo(j - 1) \cup (IF j \in DOMAIN f THEN {f[j]} ELSE {})
      <3>1. 1..j = 1..(j - 1) \cup {j}
        BY <2>4, <2>3
      <3> QED BY <3>1
    <2>7. o \in Makers /\ \A q \in upTo(j - 1) : q \in Makers
      BY <1>2
    <2> HIDE DEF upTo
    <2>8. CASE j \in DOMAIN f /\ Weakness[o] < Weakness[f[j]]
      <3>1. f[j] \in upTo(j) /\ \A q \in upTo(j) : Weakness[q] <= Weakness[f[j]]
        BY <1>1, <1>2, <2>5, <2>6, <2>7, <2>8
      <3> QED BY <2>2, <3>1
    <2>9. CASE ~(j \in DOMAIN f /\ Weakness[o] < Weakness[f[j]])
      <3>1. o \in upTo(j) /\ \A q \in upTo(j) : Weakness[q] <= Weakness[o]
        BY <1>1, <1>2, <2>5, <2>6, <2>7, <2>9
      <3> QED BY <2>2, <3>1
    <2> QED BY <2>8, <2>9
  <1>4. upTo(k) = {f[n] : n \in DOMAIN f} \cup {m}
    OBVIOUS
  <1>5. \E o \in upTo(k) : \A q \in upTo(k) : Weakness[q] <= Weakness[o]
    BY <1>3
  <1> HIDE DEF upTo
  <1> QED BY <1>4, <1>5 DEF Weakest

-----------------------------------------------------------------------------
LEMMA OffIs ==
  ASSUME NEW texts, NEW saved
  PROVE  Off \in RunStates /\ RunSound(Off, texts) /\ Resumes(Off, saved)
  <1>1. Nothing \in Partial(Item) /\ Nothing \in Partial(Makers) /\ <<>> \in Plans
    BY NothingIs, BoundsAre DEF Plans
  <1>2. Off \in RunStates /\ Off.stage = "off"
    BY <1>1 DEF Off, RunStates
  <1> QED BY <1>2 DEF RunSound, Resumes

LEMMA CreditedIs ==
  ASSUME NEW w \in Runs, run[w] \in RunStates, run[w].maker \in Makers, NEW found \in Partial(Item),
         DOMAIN run[w].credit \subseteq DOMAIN found
  PROVE  /\ Credited(w, found) \in Partial(Makers) /\ DOMAIN Credited(w, found) = DOMAIN found
         /\ \A n : n \in DOMAIN found =>
               Credited(w, found)[n] = IF n \in DOMAIN run[w].credit THEN run[w].credit[n] ELSE run[w].maker
  <1> DEFINE new    == [n \in DOMAIN found |-> run[w].maker]
             credit == run[w].credit
  <1>1. new \in Partial(Makers) /\ DOMAIN new = DOMAIN found /\ \A n \in DOMAIN found : new[n] = run[w].maker
    BY PartialIs
  <1>2. credit \in Partial(Makers)
    BY RunFields
  <1>3. Credited(w, found) = With(credit, new)
    BY DEF Credited
  <1> HIDE DEF new, credit
  <1>4. /\ With(credit, new) \in Partial(Makers) /\ DOMAIN With(credit, new) = DOMAIN credit \cup DOMAIN new
        /\ \A n : n \in DOMAIN credit => With(credit, new)[n] = credit[n]
        /\ \A n : n \in DOMAIN new \ DOMAIN credit => With(credit, new)[n] = new[n]
    <2>1. credit \in Partial(Makers) /\ new \in Partial(Makers)
      BY <1>1, <1>2
    <2>2. With(credit, new) \in Partial(Makers) /\ DOMAIN With(credit, new) = DOMAIN credit \cup DOMAIN new
      BY ONLY <2>1, WithIs, Zenon
    <2> QED BY <2>2 DEF With
  <1> QED BY <1>1, <1>3, <1>4 DEF credit

\* What a worker adds, at once or before its provider fails.
LEMMA FoundIs ==
  ASSUME NEW w \in Runs, run[w] \in RunStates, run[w].maker \in Makers, run[w].with \in Stages, run[w].group # 0,
         run[w].group <= Len(Grouped(run[w].plan)), NEW S \in SUBSET Unwritten(w)
  PROVE  LET more == With(run[w].found, WrittenNow(w, S))
         IN  /\ more \in Partial(Item) /\ DOMAIN more = DOMAIN run[w].found \cup S
             /\ \A n \in DOMAIN run[w].found : more[n] = run[w].found[n]
             /\ \A n \in S : /\ n \in 1..Len(run[w].plan) /\ n \notin DOMAIN run[w].found
                             /\ more[n].of = run[w].plan[n] /\ more[n].with = run[w].with
                             /\ more[n].by = run[w].maker
  <1> DEFINE texts  == run[w].plan
             found == run[w].found
             new   == WrittenNow(w, S)
  <1>1. texts \in Plans /\ found \in Partial(Item) /\ run[w].with \in Stages /\ run[w].group \in Nat
    BY RunFields
  <1>2. S \subseteq 1..Len(texts) /\ \A n \in S : n \notin DOMAIN found
    <2>1. Grouped(texts) \in Seq(Seq(Nat)) /\ \A g \in DOMAIN Grouped(texts) : ToSet(Grouped(texts)[g]) \subseteq 1..Len(texts)
      BY <1>1, PlanIs, GroupsWithin
    <2>2. run[w].group \in DOMAIN Grouped(texts)
      BY <1>1, <2>1
    <2> QED BY <2>1, <2>2 DEF Unwritten
  <1>3. \A n : n \in S => texts[n] \in Lengths /\ n \in Numbers
    BY <1>1, <1>2, PlanIs
  <1>4. /\ new \in Partial(Item) /\ DOMAIN new = S
        /\ \A n \in S : new[n] = [of |-> texts[n], with |-> run[w].with, by |-> run[w].maker]
    <2>1. new = [n \in S |-> [of |-> texts[n], with |-> run[w].with, by |-> run[w].maker]]
      BY DEF WrittenNow
    <2>2. \A n \in S : [of |-> texts[n], with |-> run[w].with, by |-> run[w].maker] \in Item
      BY <1>1, <1>3 DEF Item
    <2> HIDE DEF new, texts
    <2>3. new \in [S -> Item] /\ DOMAIN new = S
      BY <2>1, <2>2
    <2> QED BY <1>3, <2>1, <2>3, PartialIs
  <1> HIDE DEF new, texts, found
  <1>5. /\ With(found, new) \in Partial(Item) /\ DOMAIN With(found, new) = DOMAIN found \cup DOMAIN new
        /\ \A n : n \in DOMAIN found => With(found, new)[n] = found[n]
        /\ \A n : n \in DOMAIN new \ DOMAIN found => With(found, new)[n] = new[n]
    <2>1. found \in Partial(Item) /\ new \in Partial(Item)
      BY <1>1, <1>4
    <2>2. With(found, new) \in Partial(Item) /\ DOMAIN With(found, new) = DOMAIN found \cup DOMAIN new
      BY ONLY <2>1, WithIs, Zenon
    <2> QED BY <2>2 DEF With
  <1>6. \A n \in S : With(found, new)[n] = [of |-> texts[n], with |-> run[w].with, by |-> run[w].maker]
    BY <1>2, <1>4, <1>5
  <1> QED BY <1>2, <1>4, <1>5, <1>6 DEF new, texts, found

LEMMA NoteStands ==
  ASSUME NoteIsOfItsPlan, CreditIsWeakest,
         jobRow'.note = jobRow.note, jobRow'.plan = jobRow.plan, jobRow'.with = jobRow.with, jobRow'.credited = jobRow.credited
  PROVE  NoteIsOfItsPlan' /\ CreditIsWeakest'
  BY DEF NoteIsOfItsPlan, CreditIsWeakest

\* What stops runs, and takes the claim or the checkpoint away, if anything.
LEMMA WithdrawKeeps ==
  ASSUME CheckpointInv, UNCHANGED segments, stages' \in Stages, claims' \in Nat,
         jobRow' \in Rows, jobRow'.note = jobRow.note, jobRow'.plan = jobRow.plan, jobRow'.with = jobRow.with,
         jobRow'.credited = jobRow.credited, jobRow'.saved \in {jobRow.saved, NoCheckpoint},
         jobRow'.holder \in {jobRow.holder, NoCheckpoint},
         run' \in [Runs -> RunStates], \A w \in Runs : run'[w] \in {run[w], Off}
  PROVE  CheckpointInv'
  <1>1. CheckpointTypeOK'
    BY DEF CheckpointInv, CheckpointTypeOK
  <1>2. NoteIsOfItsPlan' /\ CreditIsWeakest'
    BY NoteStands DEF CheckpointInv
  <1>3. SavedSound(jobRow.saved, segments)'
    BY DEF CheckpointInv, SavedSound
  <1>4. \A w \in Runs : RunSound(run'[w], segments)
    BY OffIs DEF CheckpointInv
  <1>5. ASSUME NEW w \in Runs, jobRow'.holder = w PROVE Resumes(run'[w], jobRow'.saved)
    <2>1. jobRow.holder = w
      BY <1>5, NoCheckpointAssumption
    <2>2. Resumes(run[w], jobRow.saved)
      BY <2>1 DEF CheckpointInv
    <2>3. CASE run'[w] = Off
      BY <2>3, OffIs
    <2>4. CASE run'[w] = run[w]
      BY <2>2, <2>4 DEF Resumes
    <2> QED BY <2>3, <2>4
  <1> QED BY <1>1, <1>2, <1>3, <1>4, <1>5 DEF CheckpointInv

\* What goes on with one run.
LEMMA RunKeeps ==
  ASSUME CheckpointInv, UNCHANGED <<segments, stages, jobRow, claims>>, NEW w \in Runs, NEW r \in RunStates,
         run' = [run EXCEPT ![w] = r], RunSound(r, segments), jobRow.holder = w => Resumes(r, jobRow.saved)
  PROVE  CheckpointInv'
  <1>1. run \in [Runs -> RunStates]
    BY DEF CheckpointInv, CheckpointTypeOK
  <1>2. run' \in [Runs -> RunStates] /\ run'[w] = r /\ \A v \in Runs : v # w => run'[v] = run[v]
    BY <1>1
  <1>3. CheckpointTypeOK'
    BY <1>2 DEF CheckpointInv, CheckpointTypeOK
  <1>4. NoteIsOfItsPlan' /\ CreditIsWeakest'
    BY NoteStands DEF CheckpointInv
  <1>5. \A v \in Runs : RunSound(run'[v], segments) /\ (jobRow.holder = v => Resumes(run'[v], jobRow.saved))
    BY <1>2 DEF CheckpointInv
  <1> QED BY <1>3, <1>4, <1>5 DEF CheckpointInv

-----------------------------------------------------------------------------
LEMMA GoesOnKeeps ==
  ASSUME CheckpointInv, NEW new \in Plans, new # <<>>, Grows(segments, new), GoesOn(new)
  PROVE  CheckpointInv'
  <1>1. segments \in Plans /\ jobRow \in Rows /\ run \in [Runs -> RunStates]
    BY DEF CheckpointInv, CheckpointTypeOK
  <1>2. PICK moved \in BOOLEAN, status \in {"pending", "claimed", "done", "failed"} :
          jobRow' = [jobRow EXCEPT !.moved = moved, !.status = status]
    <2>1. (jobRow.status = "claimed") \in BOOLEAN
      OBVIOUS
    <2>2. (IF jobRow.status \in {"done", "failed"} THEN "pending" ELSE jobRow.status) \in {"pending", "claimed", "done", "failed"}
      BY <1>1, RowFields
    <2> QED BY <2>1, <2>2 DEF GoesOn
  <1>3. /\ jobRow' \in Rows /\ jobRow'.note = jobRow.note /\ jobRow'.plan = jobRow.plan /\ jobRow'.with = jobRow.with
        /\ jobRow'.credited = jobRow.credited /\ jobRow'.saved = jobRow.saved /\ jobRow'.holder = jobRow.holder
    BY <1>1, <1>2 DEF Rows
  <1>4. CheckpointTypeOK'
    BY <1>3 DEF GoesOn, CheckpointInv, CheckpointTypeOK
  <1>5. NoteIsOfItsPlan' /\ CreditIsWeakest'
    BY <1>3, NoteStands DEF CheckpointInv
  <1>6. SavedSound(jobRow'.saved, segments')
    <2>1. CASE jobRow.saved = NoCheckpoint
      BY <1>3, <2>1 DEF SavedSound
    <2>2. CASE jobRow.saved # NoCheckpoint
      <3>1. jobRow.saved \in Saves /\ SavedSound(jobRow.saved, segments)
        BY <1>1, <2>2, RowFields DEF CheckpointInv
      <3>2. jobRow.saved.hashes \in Partial(Lengths) /\ WithinPlan(jobRow.saved.hashes, segments)
        BY <2>2, <3>1 DEF Saves, SavedSound
      <3>3. WithinPlan(jobRow.saved.hashes, new)
        BY <1>1, <3>2, WithinOn
      <3> QED BY <1>3, <3>1, <3>3 DEF SavedSound, GoesOn
    <2> QED BY <2>1, <2>2
  <1>7. ASSUME NEW w \in Runs PROVE RunSound(run'[w], segments') /\ (jobRow'.holder = w => Resumes(run'[w], jobRow'.saved))
    <2>1. run'[w] = run[w] /\ run[w].plan \in Plans /\ segments' = new
      BY <1>1, RunFields DEF GoesOn
    <2>2. RunSound(run[w], segments) /\ (jobRow.holder = w => Resumes(run[w], jobRow.saved))
      BY DEF CheckpointInv
    <2>3. RunSound(run[w], new)
      <3>1. Grows(run[w].plan, segments) => Grows(run[w].plan, new)
        BY <1>1, <2>1, GrowsOn
      <3> QED BY <2>2, <3>1 DEF RunSound
    <2> QED BY <1>3, <2>1, <2>2, <2>3
  <1> QED BY <1>4, <1>5, <1>6, <1>7 DEF CheckpointInv

LEMMA SayMoreKeeps == ASSUME CheckpointInv, SayMore \/ AskAnother PROVE CheckpointInv'
  <1> DEFINE k == Len(segments)
  <1>1. segments \in Plans /\ segments # <<>>
    BY DEF CheckpointInv, CheckpointTypeOK
  <1>2. segments \in Seq(Lengths) /\ k \in Nat \ {0} /\ k <= MaxSegments /\ \A n \in 1..k : segments[n] \in Nat
    <2>1. segments \in Seq(Lengths) /\ k <= MaxSegments
      BY <1>1 DEF Plans
    <2> QED BY <1>1, <2>1, PlanIs
  <1>3. CASE AskAnother
    <2> DEFINE new == Append(segments, 1)
    <2>1. k < MaxSegments /\ GoesOn(new)
      BY <1>3 DEF AskAnother
    <2>2. 1 \in Lengths
      BY BoundsAre DEF Lengths
    <2>3. new \in Seq(Lengths) /\ new # <<>> /\ Len(new) = k + 1 /\ \A n \in 1..k : new[n] = segments[n]
      BY <1>2, <2>2
    <2> HIDE DEF new
    <2>4. Grows(segments, new)
      BY <1>2, <2>3 DEF Grows
    <2>5. new \in Plans
      BY <1>2, <2>1, <2>3, BoundsAre DEF Plans
    <2> QED BY <2>1, <2>3, <2>4, <2>5, GoesOnKeeps
  <1>4. CASE SayMore
    <2> DEFINE longer == segments[k] + 1
               new    == Append(Front(segments), longer)
    <2>1. segments[k] \in Nat /\ Last(segments) = segments[k] /\ Front(segments) = SubSeq(segments, 1, k - 1)
      BY <1>2 DEF Last, Front
    <2>2. segments[k] < MaxLength /\ GoesOn(new)
      BY <1>4, <2>1 DEF SayMore
    <2>3. longer \in Lengths /\ segments[k] <= longer
      BY <2>1, <2>2, BoundsAre DEF Lengths
    <2> HIDE DEF longer
    <2>4. Front(segments) \in Seq(Lengths) /\ Len(Front(segments)) = k - 1 /\ \A n \in 1..(k - 1) : Front(segments)[n] = segments[n]
      <3>1. k - 1 \in Nat /\ k - 1 <= Len(segments)
        BY <1>2
      <3> DEFINE j == k - 1
      <3>2. j \in Nat /\ j <= Len(segments) /\ Front(segments) = SubSeq(segments, 1, j) /\ segments \in Seq(Lengths)
        BY <1>2, <2>1, <3>1
      <3> HIDE DEF k, j
      <3>3. Front(segments) \in Seq(Lengths) /\ Len(Front(segments)) = k - 1
        <4>1. SubSeq(segments, 1, j) \in Seq(Lengths)
          BY <3>2
        <4>2. Len(SubSeq(segments, 1, j)) = j
          BY <3>2
        <4> QED BY <3>2, <4>1, <4>2 DEF j
      <3>4. \A n \in 1..(k - 1) : Front(segments)[n] = segments[n]
        BY <1>2, <2>1, <3>1
      <3> QED BY <3>3, <3>4
    <2> HIDE DEF k
    <2>5. new \in Seq(Lengths) /\ Len(new) = k /\ new[k] = longer /\ \A n \in 1..(k - 1) : new[n] = segments[n]
      BY <1>2, <2>3, <2>4
    <2> HIDE DEF new
    <2>6. Grows(segments, new)
      <3>1. ASSUME NEW n \in 1..k PROVE segments[n] <= new[n]
        <4>1. segments[n] \in Nat /\ (n = k \/ n \in 1..(k - 1))
          BY <1>2
        <4> QED BY <2>3, <2>5, <4>1
      <3> QED BY <1>2, <2>5, <3>1 DEF Grows, k
    <2>7. new \in Plans /\ new # <<>>
      BY <1>2, <2>5 DEF Plans
    <2> QED BY <2>2, <2>6, <2>7, GoesOnKeeps
  <1> QED BY <1>3, <1>4

LEMMA ReturnedIs ==
  ASSUME CheckpointTypeOK, NEW status \in {"pending", "claimed", "done", "failed"}
  PROVE  LET row == Returned(status)
         IN  /\ row \in Rows /\ row.note = jobRow.note /\ row.plan = jobRow.plan /\ row.with = jobRow.with
             /\ row.credited = jobRow.credited /\ row.saved = jobRow.saved /\ row.holder = NoCheckpoint
             /\ row.status = status
  BY DEF Returned, CheckpointTypeOK, Rows

LEMMA JanitorKeeps == ASSUME CheckpointInv, ChangePrompts \/ ReclaimRun \/ RetryFailed \/ StartOver PROVE CheckpointInv'
  <1>1. CheckpointTypeOK /\ jobRow \in Rows /\ run \in [Runs -> RunStates] /\ stages \in Stages /\ claims \in Nat
    BY DEF CheckpointInv, CheckpointTypeOK
  <1>2. CASE ChangePrompts
    <2>1. stages' \in Stages
      BY <1>1, <1>2, BoundsAre DEF ChangePrompts, Stages
    <2> QED BY <1>1, <1>2, <2>1, WithdrawKeeps DEF ChangePrompts
  <1>3. CASE ReclaimRun \/ RetryFailed
    <2>1. UNCHANGED <<segments, stages, run, claims>> /\ jobRow' = Returned("pending")
      BY <1>3 DEF ReclaimRun, RetryFailed
    <2> QED BY <1>1, <2>1, ReturnedIs, WithdrawKeeps
  <1>4. CASE StartOver
    <2>1. UNCHANGED <<segments, stages, run, claims>>
      BY <1>4 DEF StartOver
    <2>2. CASE jobRow' = [Returned("pending") EXCEPT !.saved = NoCheckpoint]
      <3> DEFINE row == Returned("pending")
      <3>1. row \in Rows /\ row.note = jobRow.note /\ row.plan = jobRow.plan /\ row.with = jobRow.with
            /\ row.credited = jobRow.credited /\ row.holder = NoCheckpoint
        BY <1>1, ReturnedIs
      <3>2. jobRow' = [row EXCEPT !.saved = NoCheckpoint]
        BY <2>2
      <3> HIDE DEF row
      <3>3. /\ jobRow' \in Rows /\ jobRow'.note = jobRow.note /\ jobRow'.plan = jobRow.plan /\ jobRow'.with = jobRow.with
            /\ jobRow'.credited = jobRow.credited /\ jobRow'.saved = NoCheckpoint /\ jobRow'.holder = NoCheckpoint
        BY <3>1, <3>2 DEF Rows
      <3> QED BY <1>1, <2>1, <3>3, WithdrawKeeps
    <2>3. CASE jobRow' = [jobRow EXCEPT !.saved = NoCheckpoint]
      <3>1. /\ jobRow' \in Rows /\ jobRow'.note = jobRow.note /\ jobRow'.plan = jobRow.plan /\ jobRow'.with = jobRow.with
            /\ jobRow'.credited = jobRow.credited /\ jobRow'.saved = NoCheckpoint /\ jobRow'.holder = jobRow.holder
        BY <1>1, <2>3 DEF Rows
      <3> QED BY <1>1, <2>1, <3>1, WithdrawKeeps
    <2> QED BY <1>4, <2>2, <2>3 DEF StartOver
  <1> QED BY <1>2, <1>3, <1>4

LEMMA CrashKeeps == ASSUME CheckpointInv, NEW w \in Runs, Crash(w) PROVE CheckpointInv'
  <1>1. jobRow \in Rows /\ run \in [Runs -> RunStates] /\ stages \in Stages /\ claims \in Nat /\ Off \in RunStates
    BY OffIs DEF CheckpointInv, CheckpointTypeOK
  <1>2. run' = [run EXCEPT ![w] = Off] /\ UNCHANGED <<segments, stages, jobRow, claims>>
    BY DEF Crash
  <1>3. run' \in [Runs -> RunStates] /\ \A v \in Runs : run'[v] \in {run[v], Off}
    BY <1>1, <1>2
  <1> QED BY <1>1, <1>2, <1>3, WithdrawKeeps

-----------------------------------------------------------------------------
\* Of what a run may use of a checkpoint.
LEMMA UsableIs ==
  ASSUME NEW saved \in Saves, NEW texts \in Plans, NEW with, saved # NoCheckpoint,
         SavedSound(saved, texts)
  PROVE  /\ Usable(saved, texts, with) \subseteq DOMAIN saved.items
         /\ \A n : n \in Usable(saved, texts, with) =>
               /\ n \in 1..Len(texts) /\ saved.items[n].of = texts[n] /\ saved.items[n].with = with
               /\ saved.items[n].by = saved.credit[n]
  BY DEF Usable, SavedSound, WithinPlan

LEMMA ClaimKeeps == ASSUME CheckpointInv, NEW w \in Runs, NEW m \in Makers, ClaimRun(w, m) PROVE CheckpointInv'
  <1> DEFINE saved  == jobRow.saved
             usable == Usable(saved, segments, stages)
             found  == IF usable = {} THEN Nothing ELSE Kept(saved.items, usable)
             credit == IF usable = {} THEN Nothing ELSE Kept(saved.credit, usable)
             r      == [Off EXCEPT !.stage = "group", !.maker = m, !.group = 1, !.plan = segments, !.with = stages,
                                   !.found = found, !.credit = credit]
  <1>1. CheckpointTypeOK /\ segments \in Plans /\ jobRow \in Rows /\ run \in [Runs -> RunStates] /\ stages \in Stages /\ claims \in Nat
        /\ SavedSound(saved, segments)
    BY DEF CheckpointInv, CheckpointTypeOK
  <1>2. /\ jobRow' = [jobRow EXCEPT !.status = "claimed", !.holder = w, !.moved = FALSE]
        /\ run' = [run EXCEPT ![w] = r] /\ claims' = claims + 1 /\ UNCHANGED <<segments, stages>>
    BY DEF ClaimRun
  <1>3. /\ found \in Partial(Item) /\ credit \in Partial(Makers) /\ DOMAIN found = usable /\ DOMAIN credit = usable
        /\ \A n : n \in usable => /\ n \in 1..Len(segments) /\ found[n].of = segments[n] /\ found[n].with = stages
                                   /\ found[n].by = credit[n]
    <2>1. CASE usable = {}
      BY <2>1, NothingIs
    <2>2. CASE usable # {}
      <3>1. saved # NoCheckpoint /\ saved \in Saves
        BY <1>1, <2>2, RowFields DEF Usable
      <3>2. /\ usable \subseteq DOMAIN saved.items
            /\ \A n : n \in usable => /\ n \in 1..Len(segments) /\ saved.items[n].of = segments[n]
                                       /\ saved.items[n].with = stages /\ saved.items[n].by = saved.credit[n]
        BY <1>1, <3>1, UsableIs
      <3>3. saved.items \in Partial(Item) /\ saved.credit \in Partial(Makers) /\ DOMAIN saved.credit = DOMAIN saved.items
        BY <1>1, <3>1 DEF Saves, SavedSound
      <3> DEFINE items  == saved.items
                 makers == saved.credit
      <3>4. found = Kept(items, usable) /\ credit = Kept(makers, usable)
        BY <2>2
      <3>5. items \in Partial(Item) /\ makers \in Partial(Makers) /\ usable \subseteq DOMAIN items /\ DOMAIN makers = DOMAIN items
            /\ \A n : n \in usable => items[n].by = makers[n] /\ n \in 1..Len(segments) /\ items[n].of = segments[n] /\ items[n].with = stages
        BY <3>2, <3>3
      <3> HIDE DEF items, makers, usable, found, credit
      <3>6. Kept(items, usable) \in Partial(Item) /\ DOMAIN Kept(items, usable) = DOMAIN items \cap usable
        BY ONLY <3>5, KeptIs, Zenon
      <3>7. Kept(makers, usable) \in Partial(Makers) /\ DOMAIN Kept(makers, usable) = DOMAIN makers \cap usable
        BY ONLY <3>5, KeptIs, Zenon
      <3>8. \A n : n \in usable => Kept(items, usable)[n] = items[n] /\ Kept(makers, usable)[n] = makers[n]
        BY <3>5 DEF Kept
      <3>9. DOMAIN items \cap usable = usable /\ DOMAIN makers \cap usable = usable
        BY <3>5
      <3> QED BY <3>4, <3>5, <3>6, <3>7, <3>8, <3>9
    <2> QED BY <2>1, <2>2
  <1> HIDE DEF found, credit
  <1>4. /\ r \in RunStates /\ r.stage = "group" /\ r.maker = m /\ r.group = 1 /\ r.plan = segments /\ r.with = stages
        /\ r.found = found /\ r.credit = credit
    BY <1>1, <1>3, OffIs DEF RunStates
  <1> HIDE DEF r
  <1>5. /\ jobRow' \in Rows /\ jobRow'.note = jobRow.note /\ jobRow'.plan = jobRow.plan /\ jobRow'.with = jobRow.with
        /\ jobRow'.credited = jobRow.credited /\ jobRow'.saved = saved /\ jobRow'.holder = w
    BY <1>1, <1>2 DEF Rows
  <1>6. run' \in [Runs -> RunStates] /\ run'[w] = r /\ \A v \in Runs : v # w => run'[v] = run[v]
    BY <1>1, <1>2, <1>4
  <1>7. CheckpointTypeOK'
    BY <1>1, <1>2, <1>5, <1>6 DEF CheckpointTypeOK
  <1>8. NoteIsOfItsPlan' /\ CreditIsWeakest'
    BY <1>5, NoteStands DEF CheckpointInv
  <1>9. SavedSound(jobRow'.saved, segments')
    BY <1>1, <1>2, <1>5
  <1>10. RunSound(r, segments)
    <2>1. Grows(segments, segments)
      BY <1>1, SelfGrows
    <2> QED BY <1>1, <1>3, <1>4, <2>1 DEF RunSound
  <1>11. Resumes(r, saved)
    BY <1>1, <1>3, <1>4 DEF Resumes, SavedSound
  <1>12. \A v \in Runs : RunSound(run'[v], segments')
    BY <1>2, <1>6, <1>10 DEF CheckpointInv
  <1>13. \A v \in Runs : jobRow'.holder = v => Resumes(run'[v], jobRow'.saved)
    BY <1>5, <1>6, <1>11
  <1> QED BY <1>7, <1>8, <1>9, <1>12, <1>13 DEF CheckpointInv

\* Of a run that is at a group.
LEMMA AtGroup ==
  ASSUME CheckpointInv, NEW w \in Runs, run[w].stage = "group"
  PROVE  /\ run[w] \in RunStates /\ run[w].maker \in Makers /\ run[w].with \in Stages
         /\ run[w].group # 0 /\ run[w].group \in Nat
         /\ Grows(run[w].plan, segments) /\ DOMAIN run[w].credit = DOMAIN run[w].found
         /\ \A n : n \in DOMAIN run[w].found =>
               /\ n \in 1..Len(run[w].plan) /\ run[w].found[n].of = run[w].plan[n] /\ run[w].found[n].with = run[w].with
               /\ run[w].found[n].by = run[w].credit[n]
         /\ jobRow.holder = w => Resumes(run[w], jobRow.saved)
  <1>1. run[w] \in RunStates /\ RunSound(run[w], segments) /\ (jobRow.holder = w => Resumes(run[w], jobRow.saved))
    BY DEF CheckpointInv, CheckpointTypeOK
  <1> QED BY <1>1, RunFields DEF RunSound

LEMMA SummarizeKeeps == ASSUME CheckpointInv, NEW w \in Runs, Summarize(w) PROVE CheckpointInv'
  <1>1. run[w].stage = "group" /\ run[w].group <= Len(Grouped(run[w].plan)) /\ UNCHANGED <<segments, stages, jobRow, claims>>
    BY DEF Summarize
  <1>2. run \in [Runs -> RunStates]
    BY DEF CheckpointInv, CheckpointTypeOK
  <1>3. CASE run' = [run EXCEPT ![w].group = @ + 1]
    <2> DEFINE r == [run[w] EXCEPT !.group = @ + 1]
    <2>1. run' = [run EXCEPT ![w] = r]
      BY <1>2, <1>3
    <2>2. run[w] \in RunStates /\ run[w].group \in Nat
      BY <1>1, AtGroup
    <2>3. /\ r \in RunStates /\ r.group # 0 /\ r.stage = run[w].stage /\ r.maker = run[w].maker /\ r.plan = run[w].plan
          /\ r.with = run[w].with /\ r.found = run[w].found /\ r.credit = run[w].credit
      BY <2>2 DEF RunStates
    <2> HIDE DEF r
    <2>4. RunSound(r, segments)
      BY <2>3 DEF RunSound, CheckpointInv
    <2>5. jobRow.holder = w => Resumes(r, jobRow.saved)
      BY <2>3 DEF Resumes, CheckpointInv
    <2> QED BY <1>1, <2>1, <2>3, <2>4, <2>5, RunKeeps
  <1>4. ASSUME NEW S \in SUBSET Unwritten(w),
               run' = [run EXCEPT ![w].found = With(@, WrittenNow(w, S)), ![w].stage = "report"]
        PROVE  CheckpointInv'
    <2> DEFINE more == With(run[w].found, WrittenNow(w, S))
               r    == [run[w] EXCEPT !.found = more, !.stage = "report"]
    <2>1. run' = [run EXCEPT ![w] = r]
      BY <1>2, <1>4
    <2>2. /\ run[w] \in RunStates /\ run[w].maker \in Makers /\ run[w].with \in Stages /\ run[w].group # 0
          /\ Grows(run[w].plan, segments) /\ DOMAIN run[w].credit = DOMAIN run[w].found
          /\ \A n : n \in DOMAIN run[w].found =>
               /\ n \in 1..Len(run[w].plan) /\ run[w].found[n].of = run[w].plan[n] /\ run[w].found[n].with = run[w].with
               /\ run[w].found[n].by = run[w].credit[n]
          /\ jobRow.holder = w => Resumes(run[w], jobRow.saved)
      BY <1>1, AtGroup
    <2>3. /\ more \in Partial(Item) /\ DOMAIN more = DOMAIN run[w].found \cup S
          /\ \A n \in DOMAIN run[w].found : more[n] = run[w].found[n]
          /\ \A n \in S : /\ n \in 1..Len(run[w].plan) /\ n \notin DOMAIN run[w].found
                          /\ more[n].of = run[w].plan[n] /\ more[n].with = run[w].with /\ more[n].by = run[w].maker
      BY <1>1, <2>2, FoundIs
    <2> HIDE DEF more
    <2>4. /\ r \in RunStates /\ r.group = run[w].group /\ r.stage = "report" /\ r.maker = run[w].maker /\ r.plan = run[w].plan
          /\ r.with = run[w].with /\ r.found = more /\ r.credit = run[w].credit
      BY <2>2, <2>3 DEF RunStates
    <2> HIDE DEF r
    <2>5. RunSound(r, segments)
      BY <2>2, <2>3, <2>4 DEF RunSound
    <2>6. jobRow.holder = w => Resumes(r, jobRow.saved)
      BY <1>1, <2>2, <2>3, <2>4 DEF Resumes
    <2> QED BY <1>1, <2>1, <2>4, <2>5, <2>6, RunKeeps
  <1> QED BY <1>3, <1>4 DEF Summarize

\* What a report leaves of a run.
LEMMA ReportedIs ==
  ASSUME CheckpointInv, NEW w \in Runs, run[w].stage = "report"
  PROVE  LET r == [run[w] EXCEPT !.stage = "group", !.group = @ + 1, !.credit = Credited(w, run[w].found)]
         IN  /\ Reported(w) = [run EXCEPT ![w] = r] /\ r \in RunStates /\ RunSound(r, segments)
             /\ r.stage = "group" /\ r.found = run[w].found /\ r.plan = run[w].plan /\ r.with = run[w].with
             /\ Credited(w, run[w].found) \in Partial(Makers)
             /\ DOMAIN Credited(w, run[w].found) = DOMAIN run[w].found
             /\ \A n : n \in DOMAIN run[w].found => run[w].found[n].by = Credited(w, run[w].found)[n]
  <1> DEFINE credit == Credited(w, run[w].found)
             r      == [run[w] EXCEPT !.stage = "group", !.group = @ + 1, !.credit = credit]
  <1>1. run \in [Runs -> RunStates] /\ run[w] \in RunStates /\ RunSound(run[w], segments)
    BY DEF CheckpointInv, CheckpointTypeOK
  <1>2. /\ run[w].maker \in Makers /\ run[w].with \in Stages /\ run[w].group \in Nat /\ Grows(run[w].plan, segments) /\ run[w].found \in Partial(Item)
        /\ DOMAIN run[w].credit \subseteq DOMAIN run[w].found
        /\ \A n : n \in DOMAIN run[w].found =>
              /\ n \in 1..Len(run[w].plan) /\ run[w].found[n].of = run[w].plan[n] /\ run[w].found[n].with = run[w].with
              /\ run[w].found[n].by = IF n \in DOMAIN run[w].credit THEN run[w].credit[n] ELSE run[w].maker
    BY <1>1, RunFields DEF RunSound
  <1>3. /\ credit \in Partial(Makers) /\ DOMAIN credit = DOMAIN run[w].found
        /\ \A n : n \in DOMAIN run[w].found =>
              credit[n] = IF n \in DOMAIN run[w].credit THEN run[w].credit[n] ELSE run[w].maker
    BY <1>1, <1>2, CreditedIs
  <1>4. Reported(w) = [run EXCEPT ![w] = r]
    BY <1>1 DEF Reported
  <1> HIDE DEF credit
  <1>5. /\ r \in RunStates /\ r.stage = "group" /\ r.maker = run[w].maker /\ r.plan = run[w].plan
        /\ r.with = run[w].with /\ r.found = run[w].found /\ r.credit = credit /\ r.group # 0
    <2>1. run[w] \in RunStates /\ run[w].group + 1 \in Nat /\ run[w].group + 1 # 0 /\ credit \in Partial(Makers)
      BY <1>1, <1>2, <1>3
    <2>2. r = [run[w] EXCEPT !.stage = "group", !.group = run[w].group + 1, !.credit = credit]
      BY <1>1
    <2> HIDE DEF r
    <2> DEFINE next == run[w].group + 1
    <2>3. next \in Nat /\ next # 0 /\ r = [run[w] EXCEPT !.stage = "group", !.group = next, !.credit = credit]
      BY <2>1, <2>2
    <2> HIDE DEF next
    <2> QED BY <2>1, <2>3 DEF RunStates
  <1>6. \A n : n \in DOMAIN run[w].found => run[w].found[n].by = credit[n]
    BY <1>2, <1>3
  <1> HIDE DEF r
  <1>7. RunSound(r, segments)
    BY <1>2, <1>3, <1>5, <1>6 DEF RunSound
  <1> QED BY <1>3, <1>4, <1>5, <1>6, <1>7 DEF credit, r

LEMMA LoseReportKeeps == ASSUME CheckpointInv, NEW w \in Runs, LoseReport(w) PROVE CheckpointInv'
  <1> DEFINE r == [run[w] EXCEPT !.stage = "group", !.group = @ + 1, !.credit = Credited(w, run[w].found)]
  <1>1. run[w].stage = "report" /\ run' = Reported(w) /\ UNCHANGED <<segments, stages, jobRow, claims>>
    BY DEF LoseReport
  <1>2. /\ Reported(w) = [run EXCEPT ![w] = r] /\ r \in RunStates /\ RunSound(r, segments)
        /\ r.found = run[w].found /\ r.plan = run[w].plan /\ r.with = run[w].with
    BY <1>1, ReportedIs
  <1> HIDE DEF r
  <1>3. jobRow.holder = w => Resumes(r, jobRow.saved)
    BY <1>1, <1>2 DEF Resumes, CheckpointInv
  <1> QED BY <1>1, <1>2, <1>3, RunKeeps

LEMMA ReportKeeps == ASSUME CheckpointInv, NEW w \in Runs, Report(w) PROVE CheckpointInv'
  <1> DEFINE credit == Credited(w, run[w].found)
             r      == [run[w] EXCEPT !.stage = "group", !.group = @ + 1, !.credit = credit]
             hashes == [n \in DOMAIN run[w].found |-> run[w].plan[n]]
             saved  == [digest |-> run[w].with, items |-> run[w].found, hashes |-> hashes, credit |-> credit]
  <1>1. run[w].stage = "report" /\ UNCHANGED <<segments, stages, claims>>
    BY DEF Report
  <1>2. /\ CheckpointTypeOK /\ run \in [Runs -> RunStates] /\ run[w] \in RunStates /\ RunSound(run[w], segments)
        /\ segments \in Plans /\ stages \in Stages /\ claims \in Nat /\ jobRow \in Rows
    BY DEF CheckpointInv, CheckpointTypeOK
  <1>3. CASE jobRow.holder = w
    <2>1. jobRow' = [jobRow EXCEPT !.saved = saved] /\ run' = Reported(w)
      BY <1>3 DEF Report, Save, SavedOf
    <2>2. /\ Reported(w) = [run EXCEPT ![w] = r] /\ r \in RunStates /\ RunSound(r, segments)
          /\ r.found = run[w].found /\ r.plan = run[w].plan /\ r.with = run[w].with
          /\ credit \in Partial(Makers) /\ DOMAIN credit = DOMAIN run[w].found
          /\ \A n : n \in DOMAIN run[w].found => run[w].found[n].by = credit[n]
      BY <1>1, ReportedIs
    <2>3. /\ run[w].plan \in Plans /\ run[w].with \in Stages /\ run[w].found \in Partial(Item) /\ Grows(run[w].plan, segments)
          /\ \A n : n \in DOMAIN run[w].found =>
                n \in 1..Len(run[w].plan) /\ run[w].found[n].of = run[w].plan[n] /\ run[w].found[n].with = run[w].with
      BY <1>1, <1>2, RunFields DEF RunSound
    <2>4. /\ hashes \in Partial(Lengths) /\ DOMAIN hashes = DOMAIN run[w].found
          /\ \A n : n \in DOMAIN run[w].found => hashes[n] = run[w].plan[n]
      <3>1. \A n : n \in DOMAIN run[w].found => run[w].plan[n] \in Lengths /\ n \in Numbers
        BY <2>3, PlanIs
      <3> QED BY <3>1, PartialIs
    <2> HIDE DEF credit, r, hashes
    <2>5. saved \in Saves /\ saved.digest = run[w].with /\ saved.items = run[w].found /\ saved.hashes = hashes /\ saved.credit = credit
      BY <2>2, <2>3, <2>4 DEF Saves
    <2> HIDE DEF saved
    <2>6. WithinPlan(hashes, run[w].plan)
      <3>1. \A n : n \in DOMAIN run[w].found => run[w].plan[n] \in Nat
        BY <2>3, PlanIs
      <3> QED BY <2>3, <2>4, <3>1 DEF WithinPlan
    <2>7. WithinPlan(hashes, segments)
      BY <1>2, <2>3, <2>4, <2>6, WithinOn
    <2>8. SavedSound(saved, segments)
      BY <2>2, <2>3, <2>4, <2>5, <2>7 DEF SavedSound
    <2>9. Resumes(r, saved)
      BY <2>2, <2>5, <2>6 DEF Resumes, Usable
    <2>10. /\ jobRow' \in Rows /\ jobRow'.note = jobRow.note /\ jobRow'.plan = jobRow.plan /\ jobRow'.with = jobRow.with
           /\ jobRow'.credited = jobRow.credited /\ jobRow'.saved = saved /\ jobRow'.holder = w
      BY <1>2, <1>3, <2>1, <2>5 DEF Rows
    <2>11. run' \in [Runs -> RunStates] /\ run'[w] = r /\ \A v \in Runs : v # w => run'[v] = run[v]
      BY <1>2, <2>1, <2>2
    <2>12. CheckpointTypeOK'
      BY <1>1, <1>2, <2>10, <2>11 DEF CheckpointTypeOK
    <2>13. NoteIsOfItsPlan' /\ CreditIsWeakest'
      BY <2>10, NoteStands DEF CheckpointInv
    <2>14. SavedSound(jobRow'.saved, segments')
      BY <1>1, <2>8, <2>10
    <2>15. \A v \in Runs : RunSound(run'[v], segments')
      BY <1>1, <2>2, <2>11 DEF CheckpointInv
    <2>16. \A v \in Runs : jobRow'.holder = v => Resumes(run'[v], jobRow'.saved)
      BY <2>9, <2>10, <2>11
    <2> QED BY <2>12, <2>13, <2>14, <2>15, <2>16 DEF CheckpointInv
  <1>4. CASE jobRow.holder # w
    <2>1. run' = [run EXCEPT ![w] = Off] /\ UNCHANGED jobRow /\ Off \in RunStates
      BY <1>4, OffIs DEF Report
    <2>2. run' \in [Runs -> RunStates] /\ \A v \in Runs : run'[v] \in {run[v], Off}
      BY <1>2, <2>1
    <2> QED BY <1>1, <1>2, <2>1, <2>2, WithdrawKeeps
  <1> QED BY <1>3, <1>4

LEMMA MakerFailsKeeps == ASSUME CheckpointInv, NEW w \in Runs, MakerFails(w) PROVE CheckpointInv'
  <1>1. run[w].stage = "group" /\ run[w].group <= Len(Grouped(run[w].plan)) /\ UNCHANGED <<segments, stages, claims>>
    BY DEF MakerFails
  <1>2. /\ CheckpointTypeOK /\ run \in [Runs -> RunStates] /\ stages \in Stages /\ claims \in Nat /\ jobRow \in Rows
    BY DEF CheckpointInv, CheckpointTypeOK
  <1>3. /\ run[w] \in RunStates /\ run[w].maker \in Makers /\ run[w].with \in Stages /\ run[w].group # 0 /\ run[w].failed \subseteq Makers
        /\ Grows(run[w].plan, segments) /\ DOMAIN run[w].credit = DOMAIN run[w].found
        /\ \A n : n \in DOMAIN run[w].found =>
             /\ n \in 1..Len(run[w].plan) /\ run[w].found[n].of = run[w].plan[n] /\ run[w].found[n].with = run[w].with
             /\ run[w].found[n].by = run[w].credit[n]
        /\ jobRow.holder = w => Resumes(run[w], jobRow.saved)
    BY <1>1, AtGroup, RunFields
  <1> DEFINE tried == run[w].failed \cup {run[w].maker}
  <1>4. ASSUME NEW S \in SUBSET Unwritten(w), NEW m \in Makers \ tried, UNCHANGED jobRow,
               run' = [run EXCEPT ![w] = [@ EXCEPT !.maker = m, !.failed = tried, !.group = 1,
                                                   !.found = With(run[w].found, WrittenNow(w, S)),
                                                   !.credit = CreditedOnFailure(w, With(run[w].found, WrittenNow(w, S)))]]
        PROVE  CheckpointInv'
    <2> DEFINE more   == With(run[w].found, WrittenNow(w, S))
               credit == Credited(w, more)
               r      == [run[w] EXCEPT !.maker = m, !.failed = tried, !.group = 1, !.found = more, !.credit = credit]
    <2>1. run' = [run EXCEPT ![w] = r]
      BY <1>2, <1>4 DEF CreditedOnFailure
    <2>2. /\ more \in Partial(Item) /\ DOMAIN more = DOMAIN run[w].found \cup S
          /\ \A n \in DOMAIN run[w].found : more[n] = run[w].found[n]
          /\ \A n \in S : /\ n \in 1..Len(run[w].plan) /\ n \notin DOMAIN run[w].found
                          /\ more[n].of = run[w].plan[n] /\ more[n].with = run[w].with /\ more[n].by = run[w].maker
      BY <1>1, <1>3, FoundIs
    <2> HIDE DEF more
    <2>3. DOMAIN run[w].credit \subseteq DOMAIN more
      BY <1>3, <2>2
    <2>4. /\ credit \in Partial(Makers) /\ DOMAIN credit = DOMAIN more
          /\ \A n : n \in DOMAIN more => credit[n] = IF n \in DOMAIN run[w].credit THEN run[w].credit[n] ELSE run[w].maker
      BY <1>3, <2>2, <2>3, CreditedIs
    <2> HIDE DEF credit
    <2>5. tried \subseteq Makers
      BY <1>3
    <2> HIDE DEF tried
    <2>6. /\ r \in RunStates /\ r.group = 1 /\ r.stage = "group" /\ r.maker = m /\ r.plan = run[w].plan
          /\ r.with = run[w].with /\ r.found = more /\ r.credit = credit
      BY <1>1, <1>3, <2>2, <2>4, <2>5 DEF RunStates
    <2> HIDE DEF r
    <2>7. \A n : n \in DOMAIN more =>
            n \in 1..Len(run[w].plan) /\ more[n].of = run[w].plan[n] /\ more[n].with = run[w].with /\ more[n].by = credit[n]
      BY <1>3, <2>2, <2>4
    <2>8. RunSound(r, segments)
      BY <1>3, <2>4, <2>6, <2>7 DEF RunSound
    <2>9. jobRow.holder = w => Resumes(r, jobRow.saved)
      BY <1>1, <1>3, <2>2, <2>6 DEF Resumes
    <2> QED BY <1>1, <1>4, <2>1, <2>6, <2>8, <2>9, RunKeeps
  <1>5. ASSUME run' = [run EXCEPT ![w] = Off],
               jobRow' \in IF jobRow.holder = w THEN {Returned("pending"), Returned("failed")} ELSE {jobRow}
        PROVE  CheckpointInv'
    <2>1. run' \in [Runs -> RunStates] /\ \A v \in Runs : run'[v] \in {run[v], Off}
      BY <1>2, <1>5, OffIs
    <2>2. /\ jobRow' \in Rows /\ jobRow'.note = jobRow.note /\ jobRow'.plan = jobRow.plan /\ jobRow'.with = jobRow.with
          /\ jobRow'.credited = jobRow.credited /\ jobRow'.saved = jobRow.saved /\ jobRow'.holder \in {jobRow.holder, NoCheckpoint}
      <3>1. jobRow' = jobRow \/ jobRow' = Returned("pending") \/ jobRow' = Returned("failed")
        BY <1>5
      <3> QED BY <1>2, <3>1, ReturnedIs
    <2> QED BY <1>1, <1>2, <2>1, <2>2, WithdrawKeeps
  <1> QED BY <1>4, <1>5 DEF MakerFails

LEMMA SubmitKeeps == ASSUME CheckpointInv, NEW w \in Runs, SubmitNote(w) PROVE CheckpointInv'
  <1>1. run[w].stage = "group" /\ run' = [run EXCEPT ![w] = Off] /\ UNCHANGED <<segments, stages, claims>>
    BY DEF SubmitNote
  <1>2. /\ CheckpointTypeOK /\ run \in [Runs -> RunStates] /\ stages \in Stages /\ claims \in Nat /\ jobRow \in Rows
    BY DEF CheckpointInv, CheckpointTypeOK
  <1>3. run' \in [Runs -> RunStates] /\ run'[w] = Off /\ \A v \in Runs : run'[v] \in {run[v], Off}
    BY <1>1, <1>2, OffIs
  <1>4. CASE jobRow.holder # w
    <2>1. UNCHANGED jobRow
      BY <1>4 DEF SubmitNote
    <2> QED BY <1>1, <1>2, <1>3, <2>1, WithdrawKeeps
  <1>5. CASE jobRow.holder = w
    <2> DEFINE status == IF jobRow.moved THEN "pending" ELSE "done"
               row    == Returned(status)
               saved  == IF jobRow.moved THEN jobRow.saved ELSE NoCheckpoint
    <2>1. /\ row \in Rows /\ row.saved = jobRow.saved /\ row.holder = NoCheckpoint
      BY <1>2, ReturnedIs
    <2>2. jobRow' = [row EXCEPT !.saved = saved, !.note = run[w].found, !.plan = run[w].plan, !.with = run[w].with,
                                !.credited = CreditFor(w)]
      BY <1>5, <2>1 DEF SubmitNote
    <2>3. /\ run[w] \in RunStates /\ run[w].maker \in Makers /\ run[w].with \in Stages /\ DOMAIN run[w].credit = DOMAIN run[w].found
          /\ \A n : n \in DOMAIN run[w].found =>
               /\ n \in 1..Len(run[w].plan) /\ run[w].found[n].of = run[w].plan[n] /\ run[w].found[n].with = run[w].with
               /\ run[w].found[n].by = run[w].credit[n]
      BY <1>1, AtGroup
    <2>4. /\ run[w].plan \in Plans /\ run[w].with \in Stages /\ run[w].found \in Partial(Item) /\ run[w].credit \in Partial(Makers)
      BY <2>3, RunFields
    <2>5. saved \in Saves \cup {NoCheckpoint} /\ saved \in {jobRow.saved, NoCheckpoint}
      BY <1>2, RowFields
    <2> DEFINE credit == run[w].credit
               names  == {credit[n] : n \in DOMAIN credit} \cup {run[w].maker}
    <2>6. CreditFor(w) \in names /\ \A o \in names : Weakness[o] <= Weakness[CreditFor(w)]
      <3> DEFINE k == Len(run[w].plan)
                 m == run[w].maker
      <3>1. credit \in Partial(Makers) /\ k \in Nat /\ DOMAIN credit \subseteq 1..k /\ m \in Makers
        BY <2>3, <2>4
      <3>2. CreditFor(w) = Weakest(names)
        BY DEF CreditFor
      <3>3. names = {credit[n] : n \in DOMAIN credit} \cup {m}
        OBVIOUS
      <3> HIDE DEF credit, k, m, names
      <3>4. Weakest(names) \in names /\ \A o \in names : Weakness[o] <= Weakness[Weakest(names)]
        BY <3>1, <3>3, WeakestIs
      <3> QED BY <3>2, <3>4
    <2>7. CreditFor(w) \in Makers
      <3>1. \A n \in DOMAIN credit : credit[n] \in Makers
        BY <2>4, PartialIs
      <3> QED BY <2>3, <2>6, <3>1
    <2>8. \A n \in DOMAIN run[w].found : Weakness[run[w].found[n].by] <= Weakness[CreditFor(w)]
      <3>1. \A n \in DOMAIN run[w].found : run[w].found[n].by \in names
        BY <2>3
      <3> HIDE DEF names
      <3> QED BY <2>6, <3>1
    <2> HIDE DEF row, saved, names, credit
    <2>9. /\ jobRow' \in Rows /\ jobRow'.saved = saved /\ jobRow'.note = run[w].found /\ jobRow'.plan = run[w].plan
          /\ jobRow'.with = run[w].with /\ jobRow'.credited = CreditFor(w) /\ jobRow'.holder = NoCheckpoint
      BY <2>1, <2>2, <2>4, <2>5, <2>7 DEF Rows
    <2>10. CheckpointTypeOK'
      BY <1>1, <1>2, <1>3, <2>9 DEF CheckpointTypeOK
    <2>11. NoteIsOfItsPlan'
      <3>1. Len(run[w].plan) \in Nat
        BY <2>4, PlanIs
      <3> QED BY <2>3, <2>9, <3>1 DEF NoteIsOfItsPlan
    <2>12. CreditIsWeakest'
      BY <2>8, <2>9 DEF CreditIsWeakest
    <2>13. SavedSound(jobRow'.saved, segments')
      BY <1>1, <2>5, <2>9 DEF SavedSound, CheckpointInv
    <2>14. \A v \in Runs : RunSound(run'[v], segments')
      BY <1>1, <1>3, OffIs DEF CheckpointInv
    <2>15. \A v \in Runs : jobRow'.holder = v => Resumes(run'[v], jobRow'.saved)
      BY <2>9, NoCheckpointAssumption
    <2> QED BY <2>10, <2>11, <2>12, <2>13, <2>14, <2>15 DEF CheckpointInv
  <1> QED BY <1>4, <1>5

LEMMA CheckpointInitially == CheckpointInit => CheckpointInv
  <1> SUFFICES ASSUME CheckpointInit PROVE CheckpointInv
    OBVIOUS
  <1>1. Nothing \in Partial(Item) /\ DOMAIN Nothing = {} /\ <<>> \in Plans
    BY NothingIs, BoundsAre DEF Plans
  <1>2. segments \in Plans /\ segments # <<>> /\ stages \in Stages /\ claims \in Nat
    <2>1. <<1>> \in Seq(Lengths) /\ Len(<<1>>) = 1 /\ 1 <= MaxSegments
      BY BoundsAre DEF Lengths
    <2> QED BY <2>1, BoundsAre DEF CheckpointInit, Plans, Stages
  <1>3. run \in [Runs -> RunStates] /\ \A w \in Runs : run[w] = Off
    BY OffIs DEF CheckpointInit
  <1>4. jobRow \in Rows /\ jobRow.note = Nothing /\ jobRow.saved = NoCheckpoint /\ jobRow.holder = NoCheckpoint
    BY <1>1 DEF CheckpointInit, NewSession, Rows
  <1>5. CheckpointTypeOK
    BY <1>2, <1>3, <1>4 DEF CheckpointTypeOK
  <1>6. NoteIsOfItsPlan /\ CreditIsWeakest
    BY <1>1, <1>4 DEF NoteIsOfItsPlan, CreditIsWeakest
  <1>7. SavedSound(jobRow.saved, segments)
    BY <1>4 DEF SavedSound
  <1>8. \A w \in Runs : RunSound(run[w], segments) /\ Resumes(run[w], jobRow.saved)
    BY <1>3, OffIs
  <1> QED BY <1>5, <1>6, <1>7, <1>8 DEF CheckpointInv

\* The inductive invariant: what a run takes over, finds and reports is of its
\* plan, and nobody who wrote a part of it is forgotten.
THEOREM CheckpointInvariant == CheckpointSpec => []CheckpointInv
  <1>1. CheckpointInv /\ [CheckpointNext]_checkpointVars => CheckpointInv'
    <2> SUFFICES ASSUME CheckpointInv, [CheckpointNext]_checkpointVars PROVE CheckpointInv'
      OBVIOUS
    <2>1. CASE CheckpointNext
      BY <2>1, SayMoreKeeps, JanitorKeeps, ClaimKeeps, SummarizeKeeps, ReportKeeps, LoseReportKeeps, MakerFailsKeeps,
         SubmitKeeps, CrashKeeps DEF CheckpointNext
    <2>2. CASE UNCHANGED checkpointVars
      <3>1. jobRow \in Rows /\ run \in [Runs -> RunStates] /\ stages \in Stages /\ claims \in Nat
        BY DEF CheckpointInv, CheckpointTypeOK
      <3> QED BY <2>2, <3>1, WithdrawKeeps DEF checkpointVars
    <2> QED BY <2>1, <2>2
  <1> QED BY <1>1, CheckpointInitially, PTL DEF CheckpointSpec

-----------------------------------------------------------------------------
\* What a report of the claim's holder saves includes what was of use before.
LEMMA ReportSavesMore ==
  ASSUME CheckpointInv, NEW w \in Runs, Report(w), jobRow.holder = w, run[w].with = stages, NEW n \in Usable(jobRow.saved, segments, stages)
  PROVE  n \in Usable(jobRow'.saved, segments, stages)
  <1> DEFINE old  == jobRow.saved
             texts == run[w].plan
  <1>1. /\ run[w] \in RunStates /\ RunSound(run[w], segments) /\ Resumes(run[w], old) /\ SavedSound(old, segments)
        /\ segments \in Plans /\ jobRow \in Rows /\ run[w].stage = "report"
    BY DEF CheckpointInv, CheckpointTypeOK, Report
  <1>2. old # NoCheckpoint /\ n \in DOMAIN old.items /\ old.digest = stages /\ old.hashes[n] = segments[n]
    BY DEF Usable
  <1>3. /\ texts \in Plans /\ Grows(texts, segments) /\ run[w].found \in Partial(Item) /\ run[w].with \in Stages
        /\ run[w].maker \in Makers /\ DOMAIN run[w].credit \subseteq DOMAIN run[w].found
        /\ \A k : k \in DOMAIN run[w].found => k \in 1..Len(texts)
    BY <1>1, RunFields DEF RunSound
  <1>4. n \in 1..Len(texts) /\ old.hashes[n] <= texts[n] /\ Usable(old, texts, run[w].with) \subseteq DOMAIN run[w].found
    BY <1>1, <1>2 DEF Resumes, SavedSound, WithinPlan
  <1>5. n \in 1..Len(segments) /\ texts[n] = segments[n] /\ n <= Len(texts) /\ n <= Len(segments)
    <2>1. n \in 1..Len(segments) /\ texts[n] <= segments[n] /\ n <= Len(texts) /\ n <= Len(segments)
      BY <1>1, <1>3, <1>4, PlanIs DEF Grows
    <2>2. texts[n] \in Nat /\ segments[n] \in Nat
      BY <1>1, <1>3, <1>4, <2>1, PlanIs
    <2> QED BY <1>2, <1>4, <2>1, <2>2
  <1>6. n \in DOMAIN run[w].found
    BY <1>2, <1>4, <1>5 DEF Usable
  <1> DEFINE credit == Credited(w, run[w].found)
             hashes == [k \in DOMAIN run[w].found |-> texts[k]]
             saved  == [digest |-> run[w].with, items |-> run[w].found, hashes |-> hashes, credit |-> credit]
  <1>7. jobRow'.saved = saved
    BY <1>1 DEF Report, Save, SavedOf, Rows
  <1>8. credit \in Partial(Makers)
    BY <1>1, <1>3, CreditedIs
  <1>9. hashes \in Partial(Lengths) /\ hashes[n] = texts[n]
    <2>1. \A k : k \in DOMAIN run[w].found => texts[k] \in Lengths /\ k \in Numbers
      BY <1>3, PlanIs
    <2> QED BY <1>6, <2>1, PartialIs
  <1> HIDE DEF credit, hashes
  <1>10. saved \in Saves /\ saved.digest = run[w].with /\ saved.items = run[w].found /\ saved.hashes = hashes
    BY <1>3, <1>8, <1>9 DEF Saves
  <1> HIDE DEF saved
  <1>11. saved # NoCheckpoint
    BY <1>10, NoCheckpointAssumption
  <1> QED BY <1>5, <1>6, <1>7, <1>9, <1>10, <1>11 DEF Usable

LEMMA UsableStays ==
  ASSUME CheckpointInv, CheckpointNext, jobRow.status \in {"pending", "claimed"}, jobRow'.status \in {"pending", "claimed"},
         ~ \E w \in Runs : run[w] # Off /\ run[w].with # stages, segments' = segments
  PROVE  Usable(jobRow.saved, segments, stages) \subseteq Usable(jobRow'.saved, segments, stages)
  <1>1. CheckpointTypeOK /\ jobRow \in Rows
    BY DEF CheckpointInv, CheckpointTypeOK
  <1>2. \A status \in {"pending", "claimed", "done", "failed"} : Returned(status).saved = jobRow.saved /\ Returned(status).status = status
    BY <1>1, ReturnedIs
  <1>3. CASE SayMore \/ AskAnother
    BY <1>1, <1>3 DEF SayMore, AskAnother, GoesOn, Rows
  <1>4. CASE ChangePrompts \/ ReclaimRun \/ RetryFailed
    BY <1>2, <1>4 DEF ChangePrompts, ReclaimRun, RetryFailed
  <1>5. ~StartOver
    BY DEF StartOver
  <1>6. ASSUME NEW w \in Runs, NEW m \in Makers, ClaimRun(w, m) PROVE jobRow'.saved = jobRow.saved
    BY <1>1, <1>6 DEF ClaimRun, Rows
  <1>7. ASSUME NEW w \in Runs, Summarize(w) \/ LoseReport(w) \/ Crash(w) PROVE jobRow'.saved = jobRow.saved
    BY <1>7 DEF Summarize, LoseReport, Crash
  <1>8. ASSUME NEW w \in Runs, MakerFails(w) PROVE jobRow'.saved = jobRow.saved
    <2>1. jobRow' = jobRow \/ jobRow' = Returned("pending") \/ jobRow' = Returned("failed")
      BY <1>8 DEF MakerFails
    <2> QED BY <1>2, <2>1
  <1>9. ASSUME NEW w \in Runs, SubmitNote(w) PROVE jobRow'.saved = jobRow.saved
    <2>1. CASE jobRow.holder = w
      <3> DEFINE row == Returned(IF jobRow.moved THEN "pending" ELSE "done")
      <3>1. row \in Rows /\ row.saved = jobRow.saved /\ row.status = IF jobRow.moved THEN "pending" ELSE "done"
        BY <1>1, ReturnedIs
      <3>2. jobRow' = [row EXCEPT !.saved = IF jobRow.moved THEN row.saved ELSE NoCheckpoint, !.note = run[w].found,
                                  !.plan = run[w].plan, !.with = run[w].with, !.credited = CreditFor(w)]
        BY <1>9, <2>1, <3>1 DEF SubmitNote
      <3> HIDE DEF row
      <3>3. jobRow'.status = row.status /\ jobRow'.saved = IF jobRow.moved THEN row.saved ELSE NoCheckpoint
        BY <3>1, <3>2 DEF Rows
      <3> QED BY <3>1, <3>3
    <2>2. CASE jobRow.holder # w
      BY <1>9, <2>2 DEF SubmitNote
    <2> QED BY <2>1, <2>2
  <1>10. ASSUME NEW w \in Runs, Report(w)
         PROVE  Usable(jobRow.saved, segments, stages) \subseteq Usable(jobRow'.saved, segments, stages)
    <2>1. CASE jobRow.holder = w
      <3>1. run[w] # Off
        BY <1>10 DEF Report, Off
      <3>2. run[w].with = stages
        BY <3>1
      <3> QED BY <1>10, <2>1, <3>2, ReportSavesMore
    <2>2. CASE jobRow.holder # w
      BY <1>10, <2>2 DEF Report
    <2> QED BY <2>1, <2>2
  <1> QED BY <1>3, <1>4, <1>5, <1>6, <1>7, <1>8, <1>9, <1>10 DEF CheckpointNext

\* A run that is resumed, however often and by whomever, ends in a note of its
\* plan that says who wrote it, and does nothing again that was reported
\* (produce_session, SessionCheckpoint, Progress).
THEOREM RunsAlwaysResume == CheckpointSpec => RunsResume
  <1>1. CheckpointInv => NoteIsOfItsPlan /\ CreditIsWeakest
    BY DEF CheckpointInv
  <1>2. CheckpointInv /\ [CheckpointNext]_checkpointVars =>
          [LET usable == Usable(jobRow.saved, segments, stages)
               foreign == \E w \in Runs : run[w] # Off /\ run[w].with # stages
           IN jobRow.status \in {"pending", "claimed"} /\ jobRow'.status \in {"pending", "claimed"} /\ ~foreign /\ segments' = segments
              => usable \subseteq Usable(jobRow'.saved, segments, stages)]_<<segments, jobRow, run>>
    BY UsableStays DEF checkpointVars
  <1>3. CheckpointSpec => DoneStaysDone
    BY <1>2, CheckpointInvariant, PTL DEF CheckpointSpec, DoneStaysDone
  <1> QED BY <1>1, <1>3, CheckpointInvariant, PTL DEF RunsResume


-----------------------------------------------------------------------------
(* Splitting: the plan.                                                    *)

Hows  == {"path", "continue", "llm"}
Filed == [how : Hows, project : Owners]

\* Rows of a plan when a project that is meant has one of these names: each is of
\* one of them, and a reply is with the last request before it that was decided.
FollowsDecided(rows, n, project) ==
    LET before == {m \in 1..n : rows[m].how # "llm"}
    IN before # {} => \E m \in before : (\A k \in before : k <= m) /\ project = rows[m].project

RowsSound(rows, names) ==
    /\ \A n \in 1..Len(rows) : rows[n].project \in names
    /\ \A n \in 1..Len(rows) : rows[n].how = "continue" => FollowsDecided(rows, n - 1, rows[n].project)

LEMMA ContainerNamed == Container \in Names \cup {Own} /\ Container \in Owners
  <1>1. CASE Scoped("container") = {}
    BY <1>1, OwnIsAProject DEF Container
  <1>2. CASE Scoped("container") # {}
    <2>1. Container \in Scoped("container")
      BY <1>2 DEF Container
    <2>2. Scoped("container") \subseteq Names
      BY DEF Scoped, Names
    <2> QED BY <2>1, <2>2 DEF Names
  <1> QED BY <1>1, <1>2

LEMMA DecidedIs ==
  ASSUME NEW text, NEW previous \in Names \cup {Own}
  PROVE  LET row == Decided(text, previous)
         IN /\ row \in Filed /\ row.project \in Names \cup {Own}
            /\ row.how = "continue" => row.project = previous
  <1> DEFINE row == Decided(text, previous)
  <1>1. CASE Leading(text) # {}
    <2> DEFINE first == CHOOSE o \in Leading(text) : TRUE
    <2>1. first \in Scoped("part")
      BY <1>1 DEF Leading
    <2>2. first \in Names /\ first \in Owners
      BY <2>1 DEF Scoped, Names
    <2>3. row = [how |-> "path", project |-> first]
      BY <1>1 DEF Decided, Row
    <2> HIDE DEF first, row
    <2>4. row.how = "path" /\ row.project = first
      BY <2>3
    <2> QED BY <2>2, <2>3, <2>4 DEF Filed, Hows, row
  <1>2. CASE Leading(text) = {} /\ Total(text) = 0 /\ text.short
    <2>1. row = [how |-> "continue", project |-> previous]
      BY <1>2 DEF Decided, Row
    <2>2. previous \in Owners
      BY OwnIsAProject DEF Names
    <2> QED BY <2>1, <2>2 DEF Filed, Hows
  <1>3. CASE Leading(text) = {} /\ ~(Total(text) = 0 /\ text.short)
    <2>1. row = [how |-> "llm", project |-> Container]
      BY <1>3 DEF Decided, Row
    <2> QED BY <2>1, ContainerNamed DEF Filed, Hows
  <1> QED BY <1>1, <1>2, <1>3

\* What the loop of plan has after n requests.
LoopStates == [rows : Seq(Filed), previous : Names \cup {Own}]

LoopSound(s, n) ==
    /\ Len(s.rows) = n /\ RowsSound(s.rows, Names \cup {Own})
    /\ FollowsDecided(s.rows, n, s.previous)

LEMMA StartSound == Unsplit \in LoopStates /\ LoopSound(Unsplit, 0)
  <1>1. Unsplit.rows = <<>> /\ Unsplit.previous = Container /\ Unsplit \in LoopStates
    BY ContainerNamed DEF Unsplit, LoopStates
  <1> QED BY <1>1 DEF LoopSound, RowsSound, FollowsDecided

LEMMA PlacedIs ==
  ASSUME NEW text, NEW s \in LoopStates
  PROVE  Placed(text, s) \in LoopStates
  <1> DEFINE row == Decided(text, s.previous)
  <1>1. s.rows \in Seq(Filed) /\ s.previous \in Names \cup {Own}
    BY DEF LoopStates
  <1>2. row \in Filed /\ row.project \in Names \cup {Own}
    BY <1>1, DecidedIs
  <1> HIDE DEF row
  <1>3. Append(s.rows, row) \in Seq(Filed)
    BY <1>1, <1>2
  <1>4. Placed(text, s) = [rows |-> Append(s.rows, row), previous |-> IF row.how = "llm" THEN s.previous ELSE row.project]
    BY DEF Placed, row
  <1> QED BY <1>1, <1>2, <1>3, <1>4 DEF LoopStates

LEMMA PlacedSound ==
  ASSUME NEW text, NEW s \in LoopStates, NEW n \in Nat, LoopSound(s, n)
  PROVE  LoopSound(Placed(text, s), n + 1)
  <1> DEFINE row   == Decided(text, s.previous)
             rows  == s.rows
             more  == Append(rows, row)
             next  == IF row.how = "llm" THEN s.previous ELSE row.project
             named == Names \cup {Own}
  <1>1. rows \in Seq(Filed) /\ s.previous \in named /\ Len(rows) = n /\ RowsSound(rows, named) /\ FollowsDecided(rows, n, s.previous)
    BY DEF LoopStates, LoopSound
  <1>2. row \in Filed /\ row.project \in named /\ (row.how = "continue" => row.project = s.previous)
    BY <1>1, DecidedIs
  <1>3. Placed(text, s).rows = more /\ Placed(text, s).previous = next
    BY DEF Placed
  <1> HIDE DEF row, rows, named
  <1>4. Len(more) = n + 1 /\ more[n + 1] = row /\ \A m \in 1..n : more[m] = rows[m]
    BY <1>1, <1>2
  <1> HIDE DEF more
  <1>5. \A k \in 0..n : \A project : FollowsDecided(rows, k, project) => FollowsDecided(more, k, project)
    <2> TAKE k \in 0..n
    <2>1. TAKE project
    <2>2. HAVE FollowsDecided(rows, k, project)
    <2>3. {m \in 1..k : rows[m].how # "llm"} = {m \in 1..k : more[m].how # "llm"}
      BY <1>4
    <2>4. \A m \in 1..k : more[m] = rows[m]
      BY <1>4
    <2> QED BY <2>2, <2>3, <2>4 DEF FollowsDecided
  <1>6. RowsSound(more, named)
    <2>1. \A m \in 1..(n + 1) : more[m].project \in named
      <3>1. \A m \in 1..n : more[m].project \in named
        BY <1>1, <1>4 DEF RowsSound
      <3> QED BY <1>2, <1>4, <3>1
    <2>2. ASSUME NEW m \in 1..(n + 1), more[m].how = "continue" PROVE FollowsDecided(more, m - 1, more[m].project)
      <3>1. CASE m = n + 1
        <4>1. more[m].project = s.previous /\ m - 1 = n /\ n \in 0..n
          BY <1>2, <1>4, <2>2, <3>1
        <4> QED BY <1>1, <1>5, <4>1
      <3>2. CASE m # n + 1
        <4>1. m \in 1..n /\ m - 1 \in 0..n /\ more[m] = rows[m]
          BY <1>4, <3>2
        <4>2. FollowsDecided(rows, m - 1, rows[m].project)
          BY <1>1, <2>2, <4>1 DEF RowsSound
        <4> QED BY <1>5, <4>1, <4>2
      <3> QED BY <3>1, <3>2
    <2> QED BY <1>4, <2>1, <2>2 DEF RowsSound
  <1>7. FollowsDecided(more, n + 1, next)
    <2>1. CASE row.how # "llm"
      <3>1. n + 1 \in {m \in 1..(n + 1) : more[m].how # "llm"} /\ next = more[n + 1].project
        BY <1>4, <2>1
      <3> HIDE DEF next
      <3> QED BY <3>1 DEF FollowsDecided
    <2>2. CASE row.how = "llm"
      <3>1. next = s.previous
        BY <2>2
      <3>2. FollowsDecided(more, n, s.previous)
        <4>1. n \in 0..n
          OBVIOUS
        <4> QED BY <1>1, <1>5, <4>1
      <3>3. {m \in 1..(n + 1) : more[m].how # "llm"} = {m \in 1..n : more[m].how # "llm"}
        BY <1>4, <2>2
      <3> HIDE DEF next
      <3> QED BY <3>1, <3>2, <3>3 DEF FollowsDecided
    <2> QED BY <2>1, <2>2
  <1> QED BY <1>3, <1>4, <1>6, <1>7 DEF LoopSound, named

\* The loop after each request.
Loop == CHOOSE f : f = [n \in Nat |-> IF n = 0 THEN Unsplit ELSE Placed(session[n], f[n - 1])]

LEMMA SplitSound ==
  ASSUME session \in Seq(Texts)
  PROVE  Split \in Seq(Filed) /\ Len(Split) = Len(session) /\ RowsSound(Split, Names \cup {Own})
  <1> DEFINE move == [at \in LoopStates \X Nat |-> Placed(session[at[2]], at[1])]
  <1>1. PICK h : BuiltFor(h, LoopStates, Unsplit, move)
    <2>1. Steps(move, LoopStates)
      BY PlacedIs DEF Steps
    <2> HIDE DEF move
    <2> QED BY <2>1, StartSound, Built
  <1>2. \A n \in Nat : h[n] \in LoopStates
    BY <1>1 DEF BuiltFor
  <1>3. h[0] = Unsplit /\ \A n \in Nat : n # 0 => h[n] = Placed(session[n], h[n - 1])
    <2>1. \A n \in Nat : n # 0 => move[<<h[n - 1], n>>] = Placed(session[n], h[n - 1])
      <3>1. \A n \in Nat : n # 0 => n - 1 \in Nat /\ h[n - 1] \in LoopStates
        BY <1>2
      <3> QED BY <3>1
    <2> HIDE DEF move
    <2> QED BY <1>1, <2>1 DEF BuiltFor
  <1>4. h = [n \in Nat |-> IF n = 0 THEN Unsplit ELSE Placed(session[n], h[n - 1])]
    <2>1. h \in [Nat -> LoopStates]
      BY <1>1 DEF BuiltFor
    <2> QED BY <1>3, <2>1
  <1>5. Loop = [n \in Nat |-> IF n = 0 THEN Unsplit ELSE Placed(session[n], Loop[n - 1])]
    BY <1>4 DEF Loop
  <1> DEFINE Fails == {n \in Nat : ~(Loop[n] \in LoopStates /\ LoopSound(Loop[n], n))}
  <1>6. Fails = {}
    <2>1. SUFFICES ASSUME Fails # {} PROVE FALSE
      OBVIOUS
    <2>2. PICK n \in Fails : \A m \in Fails : n <= m
      <3>1. Fails \in SUBSET Nat
        OBVIOUS
      <3> HIDE DEF Fails
      <3> QED BY <2>1, <3>1, Least
    <2>3. n # 0 /\ n \in Nat /\ n - 1 \in Nat
      BY <1>5, <2>2, StartSound
    <2>4. Loop[n - 1] \in LoopStates /\ LoopSound(Loop[n - 1], n - 1)
      BY <2>2, <2>3
    <2>5. Loop[n] = Placed(session[n], Loop[n - 1])
      BY <1>5, <2>3
    <2>6. Loop[n] \in LoopStates
      BY <2>4, <2>5, PlacedIs
    <2>7. LoopSound(Loop[n], (n - 1) + 1)
      BY <2>3, <2>4, <2>5, PlacedSound
    <2>8. (n - 1) + 1 = n
      BY <2>3
    <2> QED BY <2>2, <2>6, <2>7, <2>8
  <1>7. Split = Loop[Len(session)].rows
    BY DEF Split, Loop
  <1>8. Loop[Len(session)] \in LoopStates /\ LoopSound(Loop[Len(session)], Len(session))
    BY <1>6
  <1> HIDE DEF Fails
  <1> QED BY <1>7, <1>8 DEF LoopStates, LoopSound

-----------------------------------------------------------------------------
(* Splitting: what is handed out, filed and submitted.                     *)

SplittingTypeOK ==
    /\ session \in Seq(Texts) /\ filed \in Seq(Owners)
    /\ plan \in [rows : Seq(Filed), names : SUBSET Owners]

Allowed == plan.names \cup {Own}

\* A plan is of all requests, and until there is one nothing is filed.
PlanSound ==
    /\ RowsSound(plan.rows, Allowed)
    /\ plan.rows = <<>> \/ Len(plan.rows) = Len(session)
    /\ plan = NoPlan => filed = <<>> /\ notes = Unnoted

\* The worker does as the plan says, where it says something.
FiledSound ==
    /\ Len(filed) <= Len(plan.rows)
    /\ \A n \in 1..Len(filed) : /\ filed[n] \in Allowed
                                /\ plan.rows[n].how # "llm" => filed[n] = plan.rows[n].project

\* A note has what was filed under its project, once everything was.
NotesSound ==
    \A o \in DOMAIN notes : /\ notes[o] \subseteq 1..Len(session)
                            /\ notes[o] # {} => o \in Allowed
                            /\ plan.rows # <<>> => \A n \in notes[o] : Len(filed) = Len(plan.rows) /\ filed[n] = o

SplittingInv == SplittingTypeOK /\ PlanSound /\ FiledSound /\ NotesSound

LEMMA EmptyNotes == ASSUME notes = Unnoted PROVE NotesSound
  BY DEF Unnoted, NotesSound

LEMMA EmptyNotesNext == ASSUME notes' = Unnoted PROVE NotesSound'
  BY DEF Unnoted, NotesSound

LEMMA NoPlanIs == NoPlan \in [rows : Seq(Filed), names : SUBSET Owners] /\ NoPlan.rows = <<>> /\ NoPlan.names = {}
  BY DEF NoPlan

LEMMA SplittingStarts == SplittingInit => SplittingInv
  <1> SUFFICES ASSUME SplittingInit PROVE SplittingInv
    OBVIOUS
  <1>1. session \in Seq(Texts) /\ plan = NoPlan /\ filed = <<>> /\ notes = Unnoted
    BY DEF SplittingInit
  <1>2. SplittingTypeOK
    BY <1>1, NoPlanIs DEF SplittingTypeOK
  <1>3. PlanSound /\ FiledSound
    BY <1>1, NoPlanIs DEF PlanSound, FiledSound, RowsSound
  <1> QED BY <1>1, <1>2, <1>3, EmptyNotes DEF SplittingInv

LEMMA ClaimSplitKeeps == ASSUME SplittingInv, ClaimSplit PROVE SplittingInv'
  <1>1. plan = NoPlan /\ filed = <<>> /\ notes = Unnoted /\ session \in Seq(Texts)
    BY DEF SplittingInv, SplittingTypeOK, PlanSound, ClaimSplit
  <1>2. UNCHANGED <<entry, session, filed, notes>>
    BY DEF ClaimSplit
  <1> DEFINE rows == IF Scoped("part") = {} THEN <<>> ELSE Split
  <1>3. plan' = [rows |-> rows, names |-> Names]
    BY DEF ClaimSplit
  <1>4. rows \in Seq(Filed) /\ RowsSound(rows, Names \cup {Own}) /\ (rows = <<>> \/ Len(rows) = Len(session))
    <2>1. CASE Scoped("part") = {}
      BY <2>1 DEF RowsSound
    <2>2. CASE Scoped("part") # {}
      BY <1>1, <2>2, SplitSound
    <2> QED BY <2>1, <2>2
  <1> HIDE DEF rows
  <1>5. plan'.rows = rows /\ plan'.names = Names /\ Names \in SUBSET Owners
    BY <1>3 DEF Names
  <1>6. SplittingTypeOK'
    BY <1>1, <1>2, <1>3, <1>4, <1>5 DEF SplittingTypeOK
  <1>7. PlanSound'
    BY <1>1, <1>2, <1>4, <1>5 DEF PlanSound, Allowed, Unnoted
  <1>8. FiledSound'
    <2>1. filed' = <<>> /\ Len(rows) \in Nat
      BY <1>1, <1>2, <1>4
    <2> QED BY <1>5, <2>1 DEF FiledSound
  <1>9. notes' = Unnoted
    BY <1>1, <1>2
  <1> QED BY <1>6, <1>7, <1>8, <1>9, EmptyNotesNext DEF SplittingInv

LEMMA FileNextKeeps == ASSUME SplittingInv, FileNext PROVE SplittingInv'
  <1> DEFINE n   == Len(filed) + 1
             row == plan.rows[n]
  <1>1. /\ Len(filed) < Len(plan.rows) /\ notes = Unnoted /\ UNCHANGED <<entry, session, plan, notes>>
        /\ filed \in Seq(Owners) /\ plan.rows \in Seq(Filed) /\ plan.names \subseteq Owners
    BY DEF SplittingInv, SplittingTypeOK, FileNext
  <1>2. n \in 1..Len(plan.rows) /\ row \in Filed /\ row.project \in Allowed
    BY <1>1 DEF SplittingInv, PlanSound, RowsSound
  <1>3. PICK name \in Allowed : filed' = Append(filed, name) /\ (row.how # "llm" => name = row.project)
    <2>1. CASE row.how # "llm" /\ filed' = Append(filed, row.project)
      BY <1>2, <2>1
    <2>2. ASSUME row.how = "llm", NEW choice \in Owners \cup {Foreign}, filed' = Append(filed, Chosen(choice))
          PROVE  \E name \in Allowed : filed' = Append(filed, name) /\ (row.how # "llm" => name = row.project)
      <3>1. Previous \in Allowed
        <4>1. CASE filed = <<>>
          BY <4>1 DEF Previous, Allowed
        <4>2. CASE filed # <<>>
          <5>1. Len(filed) \in 1..Len(filed) /\ Previous = filed[Len(filed)]
            BY <1>1, <4>2 DEF Previous, Last
          <5> QED BY <5>1 DEF SplittingInv, FiledSound
        <4> QED BY <4>1, <4>2
      <3>2. Chosen(choice) \in Allowed
        BY <3>1 DEF Chosen, Allowed
      <3> QED BY <2>2, <3>2
    <2>3. \/ row.how # "llm" /\ filed' = Append(filed, row.project)
          \/ row.how = "llm" /\ \E choice \in Owners \cup {Foreign} : filed' = Append(filed, Chosen(choice))
      BY DEF FileNext
    <2> HIDE DEF row
    <2> QED BY <2>1, <2>2, <2>3
  <1>4. name \in Owners
    BY <1>1, OwnIsAProject DEF Allowed
  <1>5. SplittingTypeOK'
    BY <1>1, <1>3, <1>4 DEF SplittingInv, SplittingTypeOK
  <1>6. plan # NoPlan
    BY <1>1, NoPlanIs
  <1>7. PlanSound'
    BY <1>1, <1>6 DEF SplittingInv, PlanSound, Allowed
  <1>8. FiledSound'
    <2>1. Len(filed') = n /\ n <= Len(plan.rows) /\ Len(filed) \in Nat
      BY <1>1, <1>2, <1>3, <1>4
    <2>2. ASSUME NEW m \in 1..n PROVE filed'[m] \in Allowed /\ (plan.rows[m].how # "llm" => filed'[m] = plan.rows[m].project)
      <3>1. CASE m = n
        BY <1>1, <1>3, <1>4, <3>1
      <3>2. CASE m # n
        <4>1. m \in 1..Len(filed)
          BY <2>1, <3>2
        <4>2. filed'[m] = filed[m]
          BY <1>1, <1>3, <1>4, <4>1
        <4> QED BY <4>1, <4>2 DEF SplittingInv, FiledSound
      <3> QED BY <3>1, <3>2
    <2> HIDE DEF n
    <2> QED BY <1>1, <2>1, <2>2 DEF FiledSound, Allowed
  <1>9. notes' = Unnoted
    BY <1>1
  <1> QED BY <1>5, <1>7, <1>8, <1>9, EmptyNotesNext DEF SplittingInv

LEMMA ShareKeeps == ASSUME SplittingInv, Share PROVE SplittingInv'
  <1>1. PICK items \in (SUBSET DOMAIN session) \ {{}} :
           notes' = IF filed = <<>> THEN [Unnoted EXCEPT ![Own] = items]
                    ELSE [o \in Owners \cup Range(filed) |-> {n \in items : filed[n] = o}]
    BY DEF Share
  <1>2. plan # NoPlan /\ Len(filed) = Len(plan.rows) /\ UNCHANGED <<entry, session, plan, filed>>
    BY DEF Share
  <1>3. /\ session \in Seq(Texts) /\ filed \in Seq(Owners) /\ plan.rows \in Seq(Filed)
        /\ items \subseteq 1..Len(session)
    BY <1>1 DEF SplittingInv, SplittingTypeOK
  <1>4. SplittingTypeOK' /\ PlanSound' /\ FiledSound'
    BY <1>2 DEF SplittingInv, SplittingTypeOK, PlanSound, FiledSound, Allowed
  <1>5. NotesSound'
    <2>1. CASE filed = <<>>
      <3>1. plan.rows = <<>>
        BY <1>2, <1>3, <2>1
      <3>2. DOMAIN notes' = Owners /\ \A o \in Owners : notes'[o] = IF o = Own THEN items ELSE {}
        BY <1>1, <2>1, OwnIsAProject DEF Unnoted
      <3> QED BY <1>2, <1>3, <3>1, <3>2 DEF NotesSound, Allowed
    <2>2. CASE filed # <<>>
      <3>1. plan.rows # <<>> /\ Len(plan.rows) = Len(session)
        BY <1>2, <1>3, <2>2 DEF SplittingInv, PlanSound
      <3>2. \A o \in DOMAIN notes' : notes'[o] = {n \in items : filed[n] = o}
        BY <1>1, <2>2
      <3>3. \A n \in items : filed[n] \in Allowed
        BY <1>2, <1>3, <3>1 DEF SplittingInv, FiledSound
      <3> QED BY <1>2, <1>3, <3>1, <3>2, <3>3 DEF NotesSound, Allowed
    <2> QED BY <2>1, <2>2
  <1> QED BY <1>4, <1>5 DEF SplittingInv

LEMMA SplitAgainKeeps == ASSUME SplittingInv, SplitAgain PROVE SplittingInv'
  <1>1. plan' = NoPlan /\ filed' = <<>> /\ notes' = Unnoted
    BY DEF SplitAgain
  <1>2. session' \in Seq(Texts)
    BY DEF SplitAgain, SplittingInv, SplittingTypeOK
  <1>3. SplittingTypeOK'
    BY <1>1, <1>2, NoPlanIs DEF SplittingTypeOK
  <1>4. PlanSound' /\ FiledSound'
    BY <1>1, NoPlanIs DEF PlanSound, FiledSound, RowsSound, Unnoted
  <1> QED BY <1>1, <1>3, <1>4, EmptyNotesNext DEF SplittingInv

LEMMA SplittingKeeps == ASSUME SplittingInv, [SplittingNext]_splittingVars PROVE SplittingInv'
  <1>1. ASSUME NEW o \in Owners, NEW scope \in Scopes, WriteEntry(o, scope) PROVE SplittingInv'
    BY <1>1 DEF WriteEntry, SplittingInv, SplittingTypeOK, PlanSound, FiledSound, NotesSound, Allowed, Unnoted
  <1>2. CASE FilingFails
    <2>1. notes' = Unnoted /\ filed' = <<>> /\ UNCHANGED <<session, plan, notes>>
      BY <1>2 DEF FilingFails
    <2>2. SplittingTypeOK' /\ PlanSound'
      BY <2>1 DEF SplittingInv, SplittingTypeOK, PlanSound, Allowed
    <2>3. FiledSound'
      BY <2>1 DEF SplittingInv, SplittingTypeOK, FiledSound
    <2> QED BY <2>1, <2>2, <2>3, EmptyNotesNext DEF SplittingInv
  <1>3. CASE UNCHANGED splittingVars
    BY <1>3 DEF splittingVars, SplittingInv, SplittingTypeOK, PlanSound, FiledSound, NotesSound, Allowed, Unnoted
  <1> QED BY <1>1, <1>2, <1>3, ClaimSplitKeeps, FileNextKeeps, ShareKeeps, SplitAgainKeeps DEF SplittingNext

LEMMA LargestIs == ASSUME NEW S \in SUBSET Nat, NEW m \in S, \A k \in S : k <= m PROVE Max(S) = m
  <1>1. \A y \in S : m >= y
    OBVIOUS
  <1>2. \A x \in S : (\A y \in S : x >= y) => x = m
    OBVIOUS
  <1> QED BY <1>1, <1>2 DEF Max

LEMMA FiledIsByPlan == SplittingInv => FiledByPlan
  <1> SUFFICES ASSUME SplittingInv PROVE FiledByPlan
    OBVIOUS
  <1>1. OnlyNamedProjects
    BY DEF SplittingInv, NotesSound, OnlyNamedProjects, Allowed
  <1>2. ASSUME NEW o \in DOMAIN notes, NEW n \in notes[o], IsReply(n), NEW before,
               before = {m \in 1..(n - 1) : ~AskedOfModel(m)}
        PROVE  /\ n \in 1..Len(plan.rows) /\ before \in SUBSET Nat
               /\ before # {} => /\ Max(before) \in before /\ o = filed[Max(before)]
                                 /\ \A m \in before : m <= Max(before)
    <2>1. plan.rows # <<>> /\ plan.rows[n].how = "continue"
      BY <1>2 DEF IsReply
    <2>2. /\ n \in 1..Len(session) /\ Len(filed) = Len(plan.rows) /\ filed[n] = o
          /\ Len(plan.rows) = Len(session)
      BY <2>1 DEF SplittingInv, NotesSound, PlanSound
    <2>3. n \in 1..Len(plan.rows) /\ n \in 1..Len(filed) /\ Len(plan.rows) \in Nat
      BY <2>2 DEF SplittingInv, SplittingTypeOK
    <2>4. o = plan.rows[n].project
      BY <2>1, <2>2, <2>3 DEF SplittingInv, FiledSound
    <2>5. FollowsDecided(plan.rows, n - 1, o)
      BY <2>1, <2>3, <2>4 DEF SplittingInv, PlanSound, RowsSound
    <2>6. before = {m \in 1..(n - 1) : plan.rows[m].how # "llm"}
      BY <1>2, <2>1 DEF AskedOfModel
    <2>7. before \in SUBSET Nat
      BY <2>6
    <2>8. ASSUME before # {}
          PROVE  Max(before) \in before /\ o = filed[Max(before)] /\ \A m \in before : m <= Max(before)
      <3>1. PICK m \in before : (\A k \in before : k <= m) /\ o = plan.rows[m].project
        BY <2>5, <2>6, <2>8 DEF FollowsDecided
      <3>2. Max(before) = m
        BY <2>7, <3>1, LargestIs
      <3>3. m \in 1..(n - 1) /\ plan.rows[m].how # "llm"
        BY <2>6, <3>1
      <3>4. m \in 1..Len(filed)
        BY <2>3, <3>3
      <3>5. filed[m] = plan.rows[m].project
        BY <3>3, <3>4 DEF SplittingInv, FiledSound
      <3> QED BY <3>1, <3>2, <3>5
    <2> QED BY <2>3, <2>7, <2>8
  <1>3. RepliesFollow
    <2> SUFFICES ASSUME NEW o \in DOMAIN notes, NEW n \in notes[o], IsReply(n), n > 1, ~AskedOfModel(n - 1)
                 PROVE  o = filed[n - 1]
      BY DEF RepliesFollow
    <2> DEFINE before == {m \in 1..(n - 1) : ~AskedOfModel(m)}
    <2>1. n \in Nat
      <3>1. n \in 1..Len(plan.rows)
        BY <1>2
      <3> QED BY <3>1
    <2>2. n - 1 \in before
      BY <2>1
    <2>3. before \subseteq 1..(n - 1)
      OBVIOUS
    <2> HIDE DEF before
    <2>4. before # {} => Max(before) \in before /\ o = filed[Max(before)] /\ \A m \in before : m <= Max(before)
      BY <1>2 DEF before
    <2>5. Max(before) \in 1..(n - 1) /\ n - 1 <= Max(before)
      BY <2>2, <2>3, <2>4
    <2>6. Max(before) = n - 1
      BY <2>1, <2>5
    <2> QED BY <2>2, <2>4, <2>6
  <1>4. RepliesPassOver
    <2> SUFFICES ASSUME NEW o \in DOMAIN notes, NEW n \in notes[o], IsReply(n), n > 1, AskedOfModel(n - 1)
                 PROVE  LET before == {m \in 1..(n - 1) : ~AskedOfModel(m)}
                        IN IF before = {} THEN o \in plan.names \cup {Own} ELSE o = filed[Max(before)]
      BY DEF RepliesPassOver
    <2> DEFINE before == {m \in 1..(n - 1) : ~AskedOfModel(m)}
    <2>1. before # {} => o = filed[Max(before)]
      <3> HIDE DEF before
      <3> QED BY <1>2 DEF before
    <2>2. o \in plan.names \cup {Own}
      BY DEF SplittingInv, NotesSound, Allowed
    <2> QED BY <2>1, <2>2
  <1> QED BY <1>1, <1>3, <1>4 DEF FiledByPlan

\* For any projects, prefixes, requests and answers of the model: a note goes to
\* a project that its plan named or to the job's own, and a reply too short to
\* ask about goes with the request before it, or, where that was asked about,
\* with the last one that was not.
THEOREM NotesAreFiledByPlan == SplittingSpec => []FiledByPlan
  <1>1. SplittingInit => SplittingInv
    BY SplittingStarts
  <1>2. SplittingInv /\ [SplittingNext]_splittingVars => SplittingInv'
    BY SplittingKeeps
  <1>3. SplittingInv => FiledByPlan
    BY FiledIsByPlan
  <1> QED BY <1>1, <1>2, <1>3, PTL DEF SplittingSpec


-----------------------------------------------------------------------------
LEMMA BuiltTo ==
  ASSUME NEW V, NEW base \in V, NEW move, Steps(move, V), NEW n \in Nat
  PROVE  \E f : Builds(f, V, base, move, n)
  <1>1. PICK h : BuiltFor(h, V, base, move)
    BY Built
  <1> DEFINE f == [i \in 0..n |-> h[i]]
  <1>2. f \in [0..n -> V] /\ f[0] = base
    BY <1>1 DEF BuiltFor
  <1>3. \A i \in 1..n : f[i] = move[<<f[i - 1], i>>]
    <2> TAKE i \in 1..n
    <2>1. i \in Nat /\ i # 0 /\ i \in 0..n /\ i - 1 \in 0..n
      OBVIOUS
    <2> QED BY <1>1, <2>1 DEF BuiltFor
  <1> HIDE DEF f
  <1> QED BY <1>2, <1>3 DEF Builds

(* ToolRounds: least numbers, and sums.                                    *)

LEMMA MinIs == ASSUME NEW S \in SUBSET Nat, NEW m \in S, \A k \in S : m <= k PROVE Min(S) = m
  <1>1. \A x \in S : (\A y \in S : x <= y) => x = m
    OBVIOUS
  <1> QED BY <1>1 DEF Min

LEMMA MinExists == ASSUME NEW S \in SUBSET Nat, S # {} PROVE Min(S) \in S /\ \A k \in S : Min(S) <= k
  <1>1. PICK m \in S : \A k \in S : m <= k
    BY Least
  <1> QED BY <1>1, MinIs

LEMMA MinOfTwo == ASSUME NEW a \in Nat, NEW b \in Nat PROVE Min({a, b}) = IF a <= b THEN a ELSE b
  <1>1. CASE a <= b
    BY <1>1, MinIs
  <1>2. CASE ~(a <= b)
    <2>1. b <= a
      BY <1>2
    <2>2. Min({a, b}) = b
      BY <2>1, MinIs
    <2> QED BY <1>2, <2>2
  <1> QED BY <1>1, <1>2

LEMMA MaxWithZero == ASSUME NEW a \in Int PROVE Max({a, 0}) \in Nat
  <1>1. CASE a >= 0
    <2>1. \A x \in {a, 0} : (\A y \in {a, 0} : x >= y) => x = a
      BY <1>1
    <2>2. \A y \in {a, 0} : a >= y
      BY <1>1
    <2>3. Max({a, 0}) = a
      BY <2>1, <2>2 DEF Max
    <2> QED BY <1>1, <2>3
  <1>2. CASE ~(a >= 0)
    <2>1. \A x \in {a, 0} : (\A y \in {a, 0} : x >= y) => x = 0
      BY <1>2
    <2>2. \A y \in {a, 0} : 0 >= y
      BY <1>2
    <2>3. Max({a, 0}) = 0
      BY <2>1, <2>2 DEF Max
    <2> QED BY <2>3
  <1> QED BY <1>1, <1>2

UsedUpTo == CHOOSE f : f = [n \in 0..Len(talk) |-> IF n = 0 THEN 0 ELSE f[n - 1] + talk[n].size]

LEMMA UsedIs == ASSUME Len(talk) \in Nat, \A n \in 1..Len(talk) : talk[n].size \in Nat PROVE Used \in Nat
  <1> DEFINE N    == Len(talk)
             move == [at \in Nat \X Nat |-> at[1] + (IF at[2] \in 1..N THEN talk[at[2]].size ELSE 0)]
  <1>1. PICK h : Builds(h, Nat, 0, move, N)
    <2>1. Steps(move, Nat)
      BY DEF Steps
    <2> HIDE DEF move
    <2> QED BY <2>1, BuiltTo
  <1>2. h \in [0..N -> Nat] /\ h[0] = 0 /\ \A n \in 1..N : h[n] = h[n - 1] + talk[n].size
    <2>1. h \in [0..N -> Nat] /\ h[0] = 0 /\ \A n \in 1..N : h[n] = move[<<h[n - 1], n>>]
      BY <1>1 DEF Builds
    <2>2. \A n \in 1..N : n - 1 \in 0..N /\ n \in Nat
      OBVIOUS
    <2>3. \A n \in 1..N : h[n - 1] \in Nat
      BY <2>1, <2>2
    <2>4. \A n \in 1..N : move[<<h[n - 1], n>>] = h[n - 1] + talk[n].size
      BY <2>2, <2>3
    <2> HIDE DEF move
    <2> QED BY <2>1, <2>4
  <1>3. h = [n \in 0..N |-> IF n = 0 THEN 0 ELSE h[n - 1] + talk[n].size]
    BY <1>2
  <1>4. UsedUpTo = [n \in 0..N |-> IF n = 0 THEN 0 ELSE UsedUpTo[n - 1] + talk[n].size]
    BY <1>3 DEF UsedUpTo
  <1> DEFINE Fails == {n \in 0..N : UsedUpTo[n] \notin Nat}
  <1>5. Fails = {}
    <2>1. SUFFICES ASSUME Fails # {} PROVE FALSE
      OBVIOUS
    <2>2. PICK n \in Fails : \A m \in Fails : n <= m
      <3>1. Fails \in SUBSET Nat
        OBVIOUS
      <3> HIDE DEF Fails
      <3> QED BY <2>1, <3>1, Least
    <2>3. n # 0 /\ n \in 1..N /\ n - 1 \in 0..N
      BY <1>4, <2>2
    <2>4. UsedUpTo[n - 1] \in Nat
      BY <2>2, <2>3
    <2>5. UsedUpTo[n] = UsedUpTo[n - 1] + talk[n].size
      BY <1>4, <2>3
    <2> QED BY <2>2, <2>3, <2>4, <2>5
  <1>6. Used = UsedUpTo[N]
    BY DEF Used, UsedUpTo
  <1> QED BY <1>5, <1>6

Amounts(f) == f \in [DOMAIN f -> Nat]

TogetherUpTo(f, n) ==
    CHOOSE g : g = [i \in 0..n |-> IF i = 0 THEN 0 ELSE g[i - 1] + (IF i \in DOMAIN f THEN f[i] ELSE 0)]

Totals(g, f, n) ==
    /\ g \in [0..n -> Nat] /\ g[0] = 0
    /\ \A i \in 1..n : g[i] = g[i - 1] + (IF i \in DOMAIN f THEN f[i] ELSE 0)

LEMMA TogetherIs ==
  ASSUME NEW f, Amounts(f), NEW n \in Nat
  PROVE  Totals(TogetherUpTo(f, n), f, n) /\ Together(f, n) = TogetherUpTo(f, n)[n]
  <1> DEFINE of(i) == IF i \in DOMAIN f THEN f[i] ELSE 0
             move  == [at \in Nat \X Nat |-> at[1] + of(at[2])]
             g     == TogetherUpTo(f, n)
  <1>1. \A i : of(i) \in Nat
    BY DEF Amounts
  <1> HIDE DEF of
  <1>2. PICK h : Builds(h, Nat, 0, move, n)
    <2>1. Steps(move, Nat)
      BY <1>1 DEF Steps
    <2> HIDE DEF move
    <2> QED BY <2>1, BuiltTo
  <1>3. h \in [0..n -> Nat] /\ h[0] = 0 /\ \A i \in 1..n : h[i] = h[i - 1] + of(i)
    <2>1. h \in [0..n -> Nat] /\ h[0] = 0 /\ \A i \in 1..n : h[i] = move[<<h[i - 1], i>>]
      BY <1>2 DEF Builds
    <2>2. \A i \in 1..n : i - 1 \in 0..n /\ i \in Nat
      OBVIOUS
    <2>3. \A i \in 1..n : h[i - 1] \in Nat
      BY <2>1, <2>2
    <2>4. \A i \in 1..n : move[<<h[i - 1], i>>] = h[i - 1] + of(i)
      BY <2>2, <2>3
    <2> HIDE DEF move
    <2> QED BY <2>1, <2>4
  <1>4. h = [i \in 0..n |-> IF i = 0 THEN 0 ELSE h[i - 1] + of(i)]
    BY <1>3
  <1>5. g = [i \in 0..n |-> IF i = 0 THEN 0 ELSE g[i - 1] + of(i)]
    BY <1>4 DEF TogetherUpTo, of
  <1> HIDE DEF g
  <1>6. g[0] = 0 /\ \A i \in 1..n : g[i] = g[i - 1] + of(i)
    BY <1>5
  <1> DEFINE Fails == {i \in 0..n : g[i] \notin Nat}
  <1>7. Fails = {}
    <2>1. SUFFICES ASSUME Fails # {} PROVE FALSE
      OBVIOUS
    <2>2. PICK i \in Fails : \A m \in Fails : i <= m
      <3>1. Fails \in SUBSET Nat
        OBVIOUS
      <3> HIDE DEF Fails
      <3> QED BY <2>1, <3>1, Least
    <2>3. i # 0 /\ i \in 1..n /\ i - 1 \in 0..n
      BY <1>6, <2>2
    <2>4. g[i - 1] \in Nat
      BY <2>2, <2>3
    <2> QED BY <1>1, <1>6, <2>2, <2>3, <2>4
  <1>8. g \in [0..n -> Nat]
    BY <1>5, <1>7
  <1>9. Together(f, n) = g[n]
    BY DEF Together, TogetherUpTo, g
  <1> QED BY <1>6, <1>8, <1>9 DEF Totals, g, of

LEMMA TogetherOfNone ==
  ASSUME NEW f, DOMAIN f = {}, Amounts(f), NEW n \in Nat
  PROVE  Together(f, n) = 0
  <1> DEFINE g     == TogetherUpTo(f, n)
             Fails == {i \in 0..n : g[i] # 0}
  <1>0. Totals(g, f, n) /\ Together(f, n) = g[n]
    BY TogetherIs
  <1> HIDE DEF g
  <1>1. g \in [0..n -> Nat] /\ g[0] = 0 /\ \A i \in 1..n : g[i] = g[i - 1] + 0
    BY <1>0 DEF Totals
  <1>2. Fails = {}
    <2>1. SUFFICES ASSUME Fails # {} PROVE FALSE
      OBVIOUS
    <2>2. PICK i \in Fails : \A m \in Fails : i <= m
      <3>1. Fails \in SUBSET Nat
        OBVIOUS
      <3> HIDE DEF Fails
      <3> QED BY <2>1, <3>1, Least
    <2>3. i \in 1..n /\ i - 1 \in 0..n
      BY <1>1, <2>2
    <2> QED BY <1>1, <2>2, <2>3
  <1> QED BY <1>0, <1>2

More(f, k, a) == [i \in DOMAIN f \cup {k} |-> IF i = k THEN a ELSE f[i]]

LEMMA TogetherAdds ==
  ASSUME NEW f, Amounts(f), NEW n \in Nat, NEW k \in (1..n) \ DOMAIN f, NEW a \in Nat
  PROVE  Amounts(More(f, k, a)) /\ Together(More(f, k, a), n) = Together(f, n) + a
  <1> DEFINE more  == More(f, k, a)
             g     == TogetherUpTo(f, n)
             h     == TogetherUpTo(more, n)
             Fails == {i \in 0..n : h[i] # g[i] + (IF k <= i THEN a ELSE 0)}
  <1>0. Totals(g, f, n) /\ Together(f, n) = g[n]
    BY TogetherIs
  <1>2. Amounts(more)
    BY DEF Amounts, More
  <1>8. Totals(h, more, n) /\ Together(more, n) = h[n]
    BY <1>2, TogetherIs
  <1> HIDE DEF g, h
  <1>1. g \in [0..n -> Nat] /\ g[0] = 0 /\ \A i \in 1..n : g[i] = g[i - 1] + (IF i \in DOMAIN f THEN f[i] ELSE 0)
    BY <1>0 DEF Totals
  <1>3. h \in [0..n -> Nat] /\ h[0] = 0 /\ \A i \in 1..n : h[i] = h[i - 1] + (IF i \in DOMAIN more THEN more[i] ELSE 0)
    BY <1>8 DEF Totals
  <1>4. \A i \in 1..n : (IF i \in DOMAIN more THEN more[i] ELSE 0) = IF i = k THEN a ELSE IF i \in DOMAIN f THEN f[i] ELSE 0
    BY DEF More
  <1> HIDE DEF more
  <1>5. Fails = {}
    <2>1. SUFFICES ASSUME Fails # {} PROVE FALSE
      OBVIOUS
    <2>2. PICK i \in Fails : \A m \in Fails : i <= m
      <3>1. Fails \in SUBSET Nat
        OBVIOUS
      <3> HIDE DEF Fails
      <3> QED BY <2>1, <3>1, Least
    <2>3. i \in 1..n /\ i - 1 \in 0..n
      BY <1>1, <1>3, <2>2
    <2>4. h[i - 1] = g[i - 1] + (IF k <= i - 1 THEN a ELSE 0)
      BY <2>2, <2>3
    <2>5. g[i - 1] \in Nat /\ g[i] \in Nat /\ h[i] \in Nat /\ h[i - 1] \in Nat
      BY <1>1, <1>3, <2>3
    <2>6. CASE i = k
      <3>1. h[i - 1] = g[i - 1]
        BY <2>3, <2>4, <2>5, <2>6
      <3>2. h[i] = h[i - 1] + a /\ g[i] = g[i - 1] + 0
        BY <1>1, <1>3, <1>4, <2>3, <2>6
      <3> QED BY <2>2, <2>5, <2>6, <3>1, <3>2
    <2>7. CASE i # k
      <3> DEFINE b == IF i \in DOMAIN f THEN f[i] ELSE 0
      <3>1. b \in Nat
        BY DEF Amounts
      <3>2. h[i] = h[i - 1] + b /\ g[i] = g[i - 1] + b
        BY <1>1, <1>3, <1>4, <2>3, <2>7
      <3> HIDE DEF b
      <3>3. (k <= i - 1) = (k <= i)
        BY <2>3, <2>7
      <3> QED BY <2>2, <2>4, <2>5, <3>1, <3>2, <3>3
    <2> QED BY <2>6, <2>7
  <1>6. n \in 0..n /\ k <= n
    OBVIOUS
  <1>7. h[n] = g[n] + a
    BY <1>5, <1>6
  <1> QED BY <1>0, <1>2, <1>7, <1>8 DEF more

-----------------------------------------------------------------------------
(* ToolRounds: the room that the answers share.                            *)

LEMMA ShortestIs ==
  ASSUME NEW rest \in SUBSET Nat, rest # {}, NEW size, \A i \in rest : size[i] \in Nat
  PROVE  Shortest(rest, size) \in rest /\ \A j \in rest : size[Shortest(rest, size)] <= size[j]
  <1> DEFINE sizes == {size[i] : i \in rest}
  <1>1. PICK least \in sizes : \A z \in sizes : least <= z
    <2>1. sizes \in SUBSET Nat /\ sizes # {}
      OBVIOUS
    <2> HIDE DEF sizes
    <2> QED BY <2>1, Least
  <1> DEFINE alike == {i \in rest : size[i] = least}
  <1>2. PICK i \in alike : \A j \in alike : i <= j
    <2>1. alike \in SUBSET Nat /\ alike # {}
      BY <1>1
    <2> HIDE DEF alike
    <2> QED BY <2>1, Least
  <1>3. i \in rest /\ \A j \in rest : size[i] < size[j] \/ (size[i] = size[j] /\ i <= j)
    <2>1. i \in rest /\ size[i] = least
      BY <1>2
    <2>2. ASSUME NEW j \in rest PROVE size[i] < size[j] \/ (size[i] = size[j] /\ i <= j)
      <3>1. least <= size[j] /\ size[j] \in Nat /\ least \in Nat
        BY <1>1
      <3>2. CASE size[j] = least
        BY <1>2, <2>1, <3>2
      <3>3. CASE size[j] # least
        BY <2>1, <3>1, <3>3
      <3> QED BY <3>2, <3>3
    <2> QED BY <2>1, <2>2
  <1> DEFINE s == Shortest(rest, size)
  <1>4. s \in rest /\ \A j \in rest : size[s] < size[j] \/ (size[s] = size[j] /\ s <= j)
    BY <1>3 DEF Shortest
  <1> HIDE DEF s
  <1>5. \A j \in rest : size[s] <= size[j]
    BY <1>4
  <1> QED BY <1>4, <1>5 DEF s

LEMMA Division ==
  ASSUME NEW a \in Nat, NEW r \in Nat, r # 0
  PROVE  a \div r \in Nat /\ (a \div r) * r <= a /\ a < (a \div r) * r + r /\ a \div r <= a
  <1>1. a \div r \in Nat /\ (a \div r) * r <= a /\ a < (a \div r) * r + r
    OBVIOUS
  <1>2. a \div r <= (a \div r) * r
    BY <1>1
  <1> QED BY <1>1, <1>2

\* Whoever needed as much as an even share of what was left needs it still after
\* another one took its share.
LEMMA ShareOfTheRest ==
  ASSUME NEW left \in Nat, NEW r \in Nat, r > 1, NEW s \in Nat, s * r <= left, left < s * r + r, NEW z \in Nat,
         left <= z * r \/ s < z
  PROVE  left - s <= z * (r - 1)
  <1>1. left - s < s * (r - 1) + r
    OBVIOUS
  <1>2. CASE z >= s + 1
    <2>1. z * (r - 1) >= (s + 1) * (r - 1)
      BY <1>2
    <2>2. (s + 1) * (r - 1) = s * (r - 1) + (r - 1)
      OBVIOUS
    <2> QED BY <1>1, <2>1, <2>2
  <1>3. CASE z < s + 1
    <2>1. left <= z * r /\ z <= s
      BY <1>3
    <2>2. z * r <= s * r
      BY <2>1
    <2>3. left = s * r /\ z * r = s * r
      BY <2>1, <2>2
    <2>4. z = s
      BY <2>1, <2>3
    <2> QED BY <2>3, <2>4
  <1> QED BY <1>2, <1>3

\* All that is left will be taken by the rest.
Taut(left, size, rest) == (rest = {} => left = 0) /\ \A j \in rest : left <= size[j] * Cardinality(rest)

Sizes(made, size, n) == made \in SUBSET (1..n) /\ \A i \in made : size[i] \in Nat

SharesSound(made, size, room, n, g) ==
    /\ g.left \in Nat /\ DOMAIN g.to \subseteq made /\ Amounts(g.to)
    /\ \A i \in DOMAIN g.to : g.to[i] <= size[i]
    /\ g.left + Together(g.to, n) = room
    /\ (\E i \in DOMAIN g.to : g.to[i] < size[i]) => Taut(g.left, size, made \ DOMAIN g.to)

LEMMA GivenSound ==
  ASSUME NEW n \in Nat, NEW made, NEW size, Sizes(made, size, n), NEW room \in Nat, NEW g,
         SharesSound(made, size, room, n, g), made \ DOMAIN g.to # {}
  PROVE  /\ SharesSound(made, size, room, n, Given(made, size, g))
         /\ \E i \in made \ DOMAIN g.to : DOMAIN Given(made, size, g).to = DOMAIN g.to \cup {i}
  <1> DEFINE rest  == made \ DOMAIN g.to
             next  == Shortest(rest, size)
             r     == Cardinality(rest)
             share == g.left \div r
             taken == Min({size[next], share})
             to    == [i \in DOMAIN g.to \cup {next} |-> IF i = next THEN taken ELSE g.to[i]]
             still == made \ DOMAIN to
  <1>1. /\ g.left \in Nat /\ DOMAIN g.to \subseteq made /\ Amounts(g.to)
        /\ (\A i \in DOMAIN g.to : g.to[i] <= size[i]) /\ g.left + Together(g.to, n) = room
        /\ ((\E i \in DOMAIN g.to : g.to[i] < size[i]) => Taut(g.left, size, rest))
    BY DEF SharesSound
  <1>2. made \in SUBSET (1..n) /\ \A i \in made : size[i] \in Nat
    BY DEF Sizes
  <1>3. next \in rest /\ \A j \in rest : size[next] <= size[j]
    <2>1. rest \subseteq made /\ rest # {}
      OBVIOUS
    <2> HIDE DEF rest
    <2>2. rest \in SUBSET Nat /\ \A i \in rest : size[i] \in Nat
      BY <1>2, <2>1
    <2> QED BY <2>1, <2>2, ShortestIs
  <1>4. IsFiniteSet(rest) /\ r \in Nat /\ r # 0
    <2>1. IsFiniteSet(1..n)
      BY FS_Interval
    <2>2. rest \subseteq 1..n
      BY <1>2
    <2>3. IsFiniteSet(rest)
      BY <2>1, <2>2, FS_Subset
    <2>4. rest # {}
      OBVIOUS
    <2> HIDE DEF rest
    <2> QED BY <2>3, <2>4, FS_CardinalityType, FS_EmptySet
  <1>5. Given(made, size, g) = [left |-> g.left - taken, to |-> to]
    BY DEF Given
  <1>6. size[next] \in Nat
    BY <1>2, <1>3
  <1>7. share \in Nat /\ share * r <= g.left /\ g.left < share * r + r /\ share <= g.left
    <2> HIDE DEF r
    <2> QED BY <1>1, <1>4, Division
  <1> HIDE DEF share, next
  <1>8. taken = IF size[next] <= share THEN size[next] ELSE share
    BY <1>6, <1>7, MinOfTwo
  <1> HIDE DEF taken
  <1>9. taken \in Nat /\ taken <= share /\ taken <= size[next] /\ g.left - taken \in Nat
    BY <1>1, <1>6, <1>7, <1>8
  <1>10. Amounts(to) /\ Together(to, n) = Together(g.to, n) + taken
    <2>1. next \in (1..n) \ DOMAIN g.to
      BY <1>2, <1>3
    <2>2. to = More(g.to, next, taken)
      BY DEF More
    <2> HIDE DEF to
    <2>3. Amounts(g.to) /\ taken \in Nat /\ n \in Nat
      BY <1>1, <1>9
    <2> QED BY ONLY <2>1, <2>2, <2>3, TogetherAdds, Zenon
  <1>11. Together(g.to, n) \in Int
    <2>1. Totals(TogetherUpTo(g.to, n), g.to, n) /\ Together(g.to, n) = TogetherUpTo(g.to, n)[n]
      BY <1>1, TogetherIs
    <2> QED BY <2>1 DEF Totals
  <1>12. DOMAIN to = DOMAIN g.to \cup {next} /\ still = rest \ {next}
    OBVIOUS
  <1>13. Cardinality(still) = r - 1 /\ (still # {} => r > 1)
    <2>1. Cardinality(rest \ {next}) = r - 1 /\ IsFiniteSet(rest \ {next})
      <3> HIDE DEF rest
      <3> QED BY <1>3, <1>4, FS_RemoveElement DEF r
    <2>2. still # {} => Cardinality(still) # 0
      BY <1>12, <2>1, FS_EmptySet
    <2> HIDE DEF still
    <2> QED BY <1>4, <1>12, <2>1, <2>2
  <1>14. ASSUME \E i \in DOMAIN to : to[i] < size[i] PROVE Taut(g.left - taken, size, still)
    <2>1. taken = share /\ \A j \in still : g.left <= size[j] * r \/ share < size[j]
      <3>1. CASE taken < size[next]
        <4>1. taken = share /\ share < size[next]
          BY <1>6, <1>7, <1>8, <3>1
        <4>2. \A j \in still : share < size[j]
          BY <1>2, <1>3, <1>6, <1>7, <4>1
        <4> QED BY <4>1, <4>2
      <3>2. CASE ~(taken < size[next])
        <4>1. PICK i \in DOMAIN to : to[i] < size[i]
          BY <1>14
        <4>2. i # next
          BY <3>2, <4>1
        <4>3. i \in DOMAIN g.to /\ g.to[i] < size[i]
          BY <4>1, <4>2
        <4>4. Taut(g.left, size, rest)
          BY <1>1, <4>3
        <4>5. \A j \in rest : g.left <= size[j] * r
          BY <4>4 DEF Taut
        <4>6. g.left <= size[next] * r
          BY <1>3, <4>5
        <4>7. share <= size[next]
          <5>1. share * r <= size[next] * r
            BY <1>1, <1>4, <1>6, <1>7, <4>6
          <5> HIDE DEF r
          <5> QED BY <1>4, <1>6, <1>7, <5>1
        <4>8. taken = share
          BY <1>6, <1>7, <1>8, <4>7
        <4> QED BY <4>5, <4>8
      <3> QED BY <3>1, <3>2
    <2>2. ASSUME NEW j \in still PROVE g.left - taken <= size[j] * Cardinality(still)
      <3>1. size[j] \in Nat /\ r > 1
        BY <1>2, <1>13
      <3>2. g.left <= size[j] * r \/ share < size[j]
        BY <2>1
      <3>3. g.left - share <= size[j] * (r - 1)
        <4> HIDE DEF r
        <4> QED BY <1>1, <1>4, <1>7, <3>1, <3>2, ShareOfTheRest
      <3> QED BY <1>13, <2>1, <3>3
    <2>3. ASSUME still = {} PROVE g.left - taken = 0
      <3>1. r - 1 = 0
        BY <1>13, <2>3, FS_EmptySet
      <3>2. r = 1
        <4> HIDE DEF r
        <4> QED BY <1>4, <3>1
      <3>3. share <= g.left /\ g.left < share + 1
        BY <1>1, <1>7, <3>2
      <3> QED BY <1>1, <1>7, <2>1, <3>3
    <2> QED BY <2>2, <2>3 DEF Taut
  <1>15. \A i \in DOMAIN to : to[i] <= size[i]
    BY <1>1, <1>9
  <1>16. g.left - taken + Together(to, n) = room
    BY <1>1, <1>9, <1>10, <1>11
  <1>17. DOMAIN to \subseteq made
    BY <1>1, <1>3
  <1> HIDE DEF to, still
  <1>18. still = made \ DOMAIN to
    BY DEF still
  <1> DEFINE given == [left |-> g.left - taken, to |-> to]
  <1>19. given.left = g.left - taken /\ given.to = to
    OBVIOUS
  <1> HIDE DEF given
  <1>20. SharesSound(made, size, room, n, given)
    BY <1>9, <1>10, <1>14, <1>15, <1>16, <1>17, <1>18, <1>19 DEF SharesSound
  <1> QED BY <1>3, <1>5, <1>12, <1>19, <1>20 DEF given

NothingGiven(room) == [left |-> room, to |-> <<>>]

LEMMA NothingGivenSound ==
  ASSUME NEW n \in Nat, NEW made, NEW size, NEW room \in Nat
  PROVE  SharesSound(made, size, room, n, NothingGiven(room)) /\ DOMAIN NothingGiven(room).to = {}
  <1> DEFINE g == NothingGiven(room)
  <1>1. g.left = room /\ g.to = <<>>
    BY DEF NothingGiven
  <1>2. DOMAIN g.to = {} /\ Amounts(g.to)
    BY <1>1 DEF Amounts
  <1> HIDE DEF g
  <1>3. Together(g.to, n) = 0
    BY <1>2, TogetherOfNone
  <1>4. g.left + Together(g.to, n) = room
    BY <1>1, <1>3
  <1>5. SharesSound(made, size, room, n, g)
    BY <1>1, <1>2, <1>4 DEF SharesSound
  <1> QED BY <1>2, <1>5 DEF g

\* One after the other gets its share.
GivesOn(f, made, size, room) ==
    /\ f[0] = NothingGiven(room)
    /\ \A k \in 1..Cardinality(made) : made \ DOMAIN f[k - 1].to # {} => f[k] = Given(made, size, f[k - 1])

LEMMA GivesOnSound ==
  ASSUME NEW n \in Nat, NEW made, NEW size, Sizes(made, size, n), NEW room \in Nat,
         NEW f, GivesOn(f, made, size, room)
  PROVE  /\ IsFiniteSet(made) /\ Cardinality(made) \in Nat
         /\ \A k \in 0..Cardinality(made) : /\ SharesSound(made, size, room, n, f[k])
                                            /\ Cardinality(DOMAIN f[k].to) = k
  <1> DEFINE N     == Cardinality(made)
             Fails == {k \in 0..N : ~(SharesSound(made, size, room, n, f[k]) /\ Cardinality(DOMAIN f[k].to) = k)}
  <1>1. IsFiniteSet(made) /\ N \in Nat
    <2>1. IsFiniteSet(1..n) /\ made \subseteq 1..n
      BY FS_Interval DEF Sizes
    <2> QED BY <2>1, FS_Subset, FS_CardinalityType
  <1>2. Fails = {}
    <2>1. SUFFICES ASSUME Fails # {} PROVE FALSE
      OBVIOUS
    <2>2. PICK k \in Fails : \A m \in Fails : k <= m
      <3>1. Fails \in SUBSET Nat
        BY <1>1
      <3> HIDE DEF Fails
      <3> QED BY <2>1, <3>1, Least
    <2>3. k # 0
      <3>1. SharesSound(made, size, room, n, f[0]) /\ DOMAIN f[0].to = {}
        BY NothingGivenSound DEF GivesOn
      <3> QED BY <2>2, <3>1, FS_EmptySet
    <2>4. k \in 1..N /\ k - 1 \in 0..N /\ k - 1 < N
      BY <1>1, <2>2, <2>3
    <2> DEFINE g == f[k - 1]
    <2>5. SharesSound(made, size, room, n, g) /\ Cardinality(DOMAIN g.to) = k - 1
      BY <2>2, <2>4
    <2>6. made \ DOMAIN g.to # {} /\ IsFiniteSet(DOMAIN g.to)
      <3>1. DOMAIN g.to \subseteq made
        BY <2>5 DEF SharesSound
      <3>2. DOMAIN g.to # made
        BY <2>4, <2>5
      <3> QED BY <1>1, <3>1, <3>2, FS_Subset
    <2>7. f[k] = Given(made, size, g)
      BY <2>4, <2>6 DEF GivesOn
    <2> HIDE DEF g
    <2>8. /\ SharesSound(made, size, room, n, Given(made, size, g))
          /\ \E i \in made \ DOMAIN g.to : DOMAIN Given(made, size, g).to = DOMAIN g.to \cup {i}
      BY <2>5, <2>6, GivenSound
    <2>9. PICK i \in made \ DOMAIN g.to : DOMAIN Given(made, size, g).to = DOMAIN g.to \cup {i}
      BY <2>8
    <2>10. Cardinality(DOMAIN g.to \cup {i}) = Cardinality(DOMAIN g.to) + 1
      BY <2>6, <2>9, FS_AddElement
    <2>11. Cardinality(DOMAIN f[k].to) = k
      BY <1>1, <2>4, <2>5, <2>7, <2>9, <2>10
    <2> QED BY <2>2, <2>7, <2>8, <2>11
  <1> QED BY <1>1, <1>2

SharesUpTo(made, size, room) ==
    CHOOSE f : f = [k \in 0..Cardinality(made) |-> IF k = 0 THEN [left |-> room, to |-> <<>>] ELSE Given(made, size, f[k - 1])]

LEMMA SharesUpToGives ==
  ASSUME NEW n \in Nat, NEW made, NEW size, Sizes(made, size, n), NEW room \in Nat
  PROVE  GivesOn(SharesUpTo(made, size, room), made, size, room)
  <1> DEFINE N      == Cardinality(made)
             sound(g) == SharesSound(made, size, room, n, g)
             V      == {g \in [left : Nat, to : UNION {[S -> Nat] : S \in SUBSET made}] : sound(g)}
             move   == [at \in V \X Nat |-> IF made \ DOMAIN at[1].to # {} THEN Given(made, size, at[1]) ELSE at[1]]
  <1>1. N \in Nat
    <2>1. IsFiniteSet(1..n) /\ made \subseteq 1..n
      BY FS_Interval DEF Sizes
    <2> QED BY <2>1, FS_Subset, FS_CardinalityType
  <1>2. ASSUME NEW left, NEW to, sound([left |-> left, to |-> to]) PROVE [left |-> left, to |-> to] \in V
    <2> DEFINE g == [left |-> left, to |-> to]
    <2>1. g.left = left /\ g.to = to
      OBVIOUS
    <2>2. left \in Nat /\ DOMAIN to \subseteq made /\ to \in [DOMAIN to -> Nat]
      BY <1>2, <2>1 DEF SharesSound, Amounts
    <2>3. to \in UNION {[S -> Nat] : S \in SUBSET made}
      BY <2>2
    <2> HIDE DEF sound
    <2> QED BY <1>2, <2>2, <2>3
  <1>3. NothingGiven(room) \in V
    <2>1. sound(NothingGiven(room))
      BY NothingGivenSound
    <2> HIDE DEF sound, V
    <2> QED BY <1>2, <2>1 DEF NothingGiven
  <1>4. Steps(move, V)
    <2>1. ASSUME NEW g \in V, made \ DOMAIN g.to # {} PROVE Given(made, size, g) \in V
      <3>1. sound(g)
        OBVIOUS
      <3>2. sound(Given(made, size, g))
        BY <2>1, <3>1, GivenSound
      <3> HIDE DEF sound, V
      <3> QED BY <1>2, <3>2 DEF Given
    <2> HIDE DEF V
    <2> QED BY <2>1 DEF Steps
  <1>5. PICK h : Builds(h, V, NothingGiven(room), move, N)
    <2> HIDE DEF V, move, N
    <2> QED BY <1>1, <1>3, <1>4, BuiltTo
  <1>6. h \in [0..N -> V] /\ h[0] = NothingGiven(room) /\ \A k \in 1..N : h[k] = move[<<h[k - 1], k>>]
    BY <1>5 DEF Builds
  <1>7. \A k \in 1..N : k \in 0..N /\ k - 1 \in 0..N /\ k \in Nat /\ h[k - 1] \in V
    <2> HIDE DEF V, move
    <2> QED BY <1>1, <1>6
  <1>8. \A k \in 1..N : made \ DOMAIN h[k - 1].to # {} => h[k] = Given(made, size, h[k - 1])
    <2>1. \A k \in 1..N : move[<<h[k - 1], k>>] = IF made \ DOMAIN h[k - 1].to # {} THEN Given(made, size, h[k - 1]) ELSE h[k - 1]
      <3> HIDE DEF V
      <3> QED BY <1>7
    <2> HIDE DEF move, V
    <2> QED BY <1>6, <2>1
  <1> HIDE DEF V, move, N
  <1>9. GivesOn(h, made, size, room)
    BY <1>6, <1>8 DEF GivesOn, N
  <1>10. \A k \in 1..N : h[k] = Given(made, size, h[k - 1])
    <2> TAKE k \in 1..N
    <2>1. SharesSound(made, size, room, n, h[k - 1]) /\ Cardinality(DOMAIN h[k - 1].to) = k - 1 /\ k - 1 # N
      <3>1. k - 1 \in 0..N /\ k - 1 # N
        BY <1>1, <1>7
      <3>2. \A j \in 0..N : SharesSound(made, size, room, n, h[j]) /\ Cardinality(DOMAIN h[j].to) = j
        BY <1>9, GivesOnSound DEF N
      <3> QED BY <3>1, <3>2
    <2>2. DOMAIN h[k - 1].to \subseteq made /\ DOMAIN h[k - 1].to # made
      BY <2>1 DEF SharesSound, N
    <2> QED BY <1>8, <2>2
  <1>11. h = [k \in 0..N |-> IF k = 0 THEN [left |-> room, to |-> <<>>] ELSE Given(made, size, h[k - 1])]
    BY <1>1, <1>6, <1>10 DEF NothingGiven
  <1> DEFINE f == SharesUpTo(made, size, room)
  <1>12. f = [k \in 0..N |-> IF k = 0 THEN [left |-> room, to |-> <<>>] ELSE Given(made, size, f[k - 1])]
    BY <1>11 DEF SharesUpTo, N
  <1> HIDE DEF f
  <1>13. f[0] = NothingGiven(room) /\ \A k \in 1..N : f[k] = Given(made, size, f[k - 1])
    BY <1>1, <1>12 DEF NothingGiven
  <1> QED BY <1>13 DEF GivesOn, N, f

LEMMA SharesAre ==
  ASSUME NEW n \in Nat, NEW made, NEW size, Sizes(made, size, n), NEW room \in Nat
  PROVE  LET share == Shares(made, size, room)
         IN /\ DOMAIN share = made /\ Amounts(share) /\ Together(share, n) <= room
            /\ (\E i \in made : share[i] < size[i]) => Together(share, n) = room
  <1> DEFINE N     == Cardinality(made)
             g     == SharesUpTo(made, size, room)[N]
             share == g.to
  <1>1. Shares(made, size, room) = share
    BY DEF Shares, SharesUpTo
  <1>2. IsFiniteSet(made) /\ N \in Nat /\ SharesSound(made, size, room, n, g) /\ Cardinality(DOMAIN share) = N
    <2>1. /\ IsFiniteSet(made) /\ N \in Nat
          /\ \A k \in 0..N : /\ SharesSound(made, size, room, n, SharesUpTo(made, size, room)[k])
                             /\ Cardinality(DOMAIN SharesUpTo(made, size, room)[k].to) = k
      BY SharesUpToGives, GivesOnSound
    <2> QED BY <2>1
  <1> HIDE DEF g
  <1>3. /\ g.left \in Nat /\ DOMAIN share \subseteq made /\ Amounts(share)
        /\ g.left + Together(share, n) = room
        /\ (\E i \in DOMAIN share : share[i] < size[i]) => Taut(g.left, size, made \ DOMAIN share)
    BY <1>2 DEF SharesSound
  <1>4. DOMAIN share = made
    BY <1>2, <1>3, FS_Subset, FS_CardinalityType
  <1>5. Together(share, n) \in Int
    <2>1. Totals(TogetherUpTo(share, n), share, n) /\ Together(share, n) = TogetherUpTo(share, n)[n]
      BY <1>3, TogetherIs
    <2> QED BY <2>1 DEF Totals
  <1>6. Together(share, n) <= room
    BY <1>3, <1>5
  <1>7. (\E i \in made : share[i] < size[i]) => Together(share, n) = room
    <2> SUFFICES ASSUME \E i \in made : share[i] < size[i] PROVE Together(share, n) = room
      OBVIOUS
    <2>1. Taut(g.left, size, {})
      BY <1>3, <1>4
    <2>2. g.left = 0
      BY <2>1 DEF Taut
    <2> QED BY <1>3, <1>5, <2>2
  <1> HIDE DEF share
  <1> QED BY <1>1, <1>3, <1>4, <1>6, <1>7

-----------------------------------------------------------------------------
(* ToolRounds: the talk.                                                   *)

Call     == Lookups \cup {Bad}
Sayings  == {"prompt", "told", "", "found", "failed", "unreadable", "repeated", "repeatedCut"}
Messages == [role : {"user", "assistant", "tool"}, of : Seq(Call) \cup Call, says : Sayings, size : Nat, cut : BOOLEAN]

RoundsTypeOK ==
    /\ talk \in Seq(Messages) /\ talk # <<>> /\ seen \in [Lookups -> Nat]
    /\ \A i \in 1..Len(talk) : talk[i].role = "assistant" => talk[i].of \in Seq(Call)

\* The calls of a message have their answers right behind it.
HasAnswers(said, i) ==
    /\ \A n \in 1..Len(said[i].of) : i + n \in 1..Len(said) /\ said[i + n].role = "tool" /\ said[i + n].of = said[i].of[n]
    /\ i + Len(said[i].of) + 1 \in 1..Len(said) => said[i + Len(said[i].of) + 1].role # "tool"

\* All calls have answers, but for those that are looked up.
TalkSound ==
    /\ phase \in {"round", "sent"} => \A i \in 1..Len(talk) : talk[i].role = "assistant" => HasAnswers(talk, i)
    /\ phase = "lookup" => /\ talk[Len(talk)].role = "assistant"
                           /\ \A i \in 1..(Len(talk) - 1) : talk[i].role = "assistant" => HasAnswers(talk, i)

\* What was looked up and found is where seen says.
SeenSound ==
    \A k \in Lookups : seen[k] # 0 => seen[k] \in 1..Len(talk) /\ talk[seen[k]].of = k /\ talk[seen[k]].says = "found"

RoundsInv == RoundsTypeOK /\ TalkSound /\ SeenSound /\ SharesUseTheRoom /\ OneAtATime

Says(m, role, of, says) == m \in Messages /\ m.role = role /\ m.of = of /\ m.says = says

LEMMA MessageIs ==
  ASSUME NEW role \in {"user", "assistant", "tool"}, NEW of \in Seq(Call) \cup Call, NEW says \in Sayings, NEW n \in Nat
  PROVE  Says(Message(role, of, says, n), role, of, says) /\ Message(role, of, says, n).cut = FALSE
  BY DEF Message, Messages, Says

LEMMA RoundsStart == ASSUME RoundsInit PROVE RoundsInv
  <1>1. PICK n \in PromptSizes : talk = <<Message("user", <<>>, "prompt", n)>>
    BY DEF RoundsInit
  <1> DEFINE m == Message("user", <<>>, "prompt", n)
  <1>2. n \in Nat /\ <<>> \in Seq(Call)
    BY SizesAssumption
  <1>3. m \in Messages /\ m.role = "user"
    <2>1. <<>> \in Seq(Call) \cup Call
      BY <1>2
    <2>2. "user" \in {"user", "assistant", "tool"} /\ "prompt" \in Sayings
      BY DEF Sayings
    <2>3. Says(Message("user", <<>>, "prompt", n), "user", <<>>, "prompt")
      BY ONLY <1>2, <2>1, <2>2, MessageIs, Zenon
    <2> QED BY <2>3 DEF Says
  <1> HIDE DEF m
  <1>4. talk \in Seq(Messages) /\ Len(talk) = 1 /\ talk[1] = m
    BY <1>1, <1>3 DEF m
  <1>5. seen = [k \in Lookups |-> 0] /\ phase \in {"round", "sent"} /\ busy = FALSE /\ sharing = NothingShared
    BY DEF RoundsInit
  <1>6. RoundsTypeOK
    <2>1. talk # <<>>
      BY <1>4
    <2>3. \A i \in 1..Len(talk) : talk[i].role # "assistant"
      <3>1. \A i \in 1..Len(talk) : i = 1
        BY <1>4
      <3> QED BY <1>3, <1>4, <3>1
    <2>2. seen \in [Lookups -> Nat]
      BY <1>5
    <2> QED BY <1>4, <2>1, <2>2, <2>3 DEF RoundsTypeOK
  <1>7. TalkSound /\ SeenSound
    BY <1>3, <1>4, <1>5 DEF TalkSound, SeenSound
  <1>8. SharesUseTheRoom /\ OneAtATime
    BY <1>5 DEF SharesUseTheRoom, OneAtATime, NothingShared
  <1> QED BY <1>6, <1>7, <1>8 DEF RoundsInv

\* Further messages leave the answers where they are.
LEMMA AnswersStay ==
  ASSUME NEW said \in Seq(Messages), NEW more \in Seq(Messages), NEW i \in 1..Len(said),
         said[i].of \in Seq(Call), HasAnswers(said, i),
         i + Len(said[i].of) = Len(said) /\ more # <<>> => more[1].role # "tool"
  PROVE  HasAnswers(said \o more, i)
  <1> DEFINE all   == said \o more
             calls == said[i].of
             L     == Len(said)
             c     == Len(calls)
  <1>1. /\ L \in Nat /\ Len(more) \in Nat /\ all \in Seq(Messages) /\ Len(all) = L + Len(more)
        /\ \A n \in 1..L : all[n] = said[n]
        /\ \A n \in 1..Len(more) : all[L + n] = more[n]
    OBVIOUS
  <1>2. c \in Nat /\ i \in Nat /\ all[i] = said[i]
    BY <1>1
  <1>3. /\ \A n \in 1..c : i + n \in 1..L /\ said[i + n].role = "tool" /\ said[i + n].of = calls[n]
        /\ i + c + 1 \in 1..L => said[i + c + 1].role # "tool"
    BY DEF HasAnswers
  <1>4. i + c <= L
    <2>1. CASE c = 0
      BY <1>1, <1>2, <2>1
    <2>2. CASE c # 0
      <3>1. c \in 1..c
        BY <1>2, <2>2
      <3> QED BY <1>1, <1>3, <3>1
    <2> QED BY <2>1, <2>2
  <1> HIDE DEF all, calls, L, c
  <1>5. \A n \in 1..c : i + n \in 1..Len(all) /\ all[i + n].role = "tool" /\ all[i + n].of = calls[n]
    <2> TAKE n \in 1..c
    <2>1. i + n \in 1..L /\ said[i + n].role = "tool" /\ said[i + n].of = calls[n]
      BY <1>3
    <2>2. all[i + n] = said[i + n] /\ i + n \in 1..Len(all)
      BY <1>1, <2>1
    <2> QED BY <2>1, <2>2
  <1>6. ASSUME i + c + 1 \in 1..Len(all) PROVE all[i + c + 1].role # "tool"
    <2>1. CASE i + c + 1 \in 1..L
      BY <1>1, <1>3, <2>1
    <2>2. CASE i + c + 1 \notin 1..L
      <3>1. i + c = L /\ Len(more) # 0 /\ more # <<>> /\ 1 \in 1..Len(more)
        BY <1>1, <1>2, <1>4, <1>6, <2>2
      <3>2. all[i + c + 1] = more[1]
        BY <1>1, <3>1
      <3> QED BY <3>1, <3>2 DEF L, c, calls
    <2> QED BY <2>1, <2>2
  <1>7. all[i].of = calls
    BY <1>2 DEF calls
  <1>8. HasAnswers(all, i)
    BY <1>5, <1>6, <1>7 DEF HasAnswers, c
  <1> QED BY <1>8 DEF all

\* Nor does what becomes of their texts.
LEMMA AnswersKeep ==
  ASSUME NEW said, NEW other, Len(other) = Len(said), Len(said) \in Nat, NEW i \in 1..Len(said), said[i].of \in Seq(Call),
         \A n \in 1..Len(said) : other[n].role = said[n].role /\ other[n].of = said[n].of,
         HasAnswers(said, i)
  PROVE  HasAnswers(other, i)
  <1>1. other[i].of = said[i].of
    OBVIOUS
  <1> QED BY <1>1 DEF HasAnswers

RepeatsStep ==
    \A i \in DOMAIN talk' \ DOMAIN talk : talk'[i].says = "repeated" =>
       \E j \in 1..i : talk'[j].of = talk'[i].of /\ talk'[j].says = "found" /\ ~talk'[j].cut

LEMMA JoinedAre ==
  ASSUME NEW S, NEW s \in Seq(S), NEW t \in Seq(S), s # <<>>
  PROVE  /\ Len(s) \in Nat \ {0} /\ Len(t) \in Nat
         /\ s \o t \in Seq(S) /\ s \o t # <<>> /\ Len(s \o t) = Len(s) + Len(t)
         /\ \A i \in 1..Len(s) : (s \o t)[i] = s[i]
         /\ \A i \in 1..Len(t) : (s \o t)[Len(s) + i] = t[i]
  <1>1. Len(s) \in Nat \ {0} /\ Len(t) \in Nat
    OBVIOUS
  <1>2. s \o t \in Seq(S) /\ Len(s \o t) = Len(s) + Len(t)
    OBVIOUS
  <1>3. s \o t # <<>>
    BY <1>1, <1>2
  <1>4. \A i \in 1..Len(s) : (s \o t)[i] = s[i]
    OBVIOUS
  <1>5. \A i \in 1..Len(t) : (s \o t)[Len(s) + i] = t[i]
    BY <1>1
  <1> QED BY <1>1, <1>2, <1>3, <1>4, <1>5

LEMMA AddedIs ==
  ASSUME NEW S, NEW s \in Seq(S), NEW e \in S
  PROVE  \A i \in DOMAIN Append(s, e) \ DOMAIN s : Append(s, e)[i] = e
  <1> TAKE i \in DOMAIN Append(s, e) \ DOMAIN s
  <1>1. DOMAIN s = 1..Len(s) /\ Len(s) \in Nat /\ DOMAIN Append(s, e) = 1..(Len(s) + 1)
    OBVIOUS
  <1>2. i = Len(s) + 1
    BY <1>1
  <1> QED BY <1>2

\* What a round of lookups does.
LEMMA LookUpDoes ==
  ASSUME RoundsInv, phase = "lookup", NEW failed \in SUBSET Lookups, LookUp(failed)
  PROVE  /\ SharesUseTheRoom'
         /\ \E answers \in Seq(Messages) :
               /\ talk' = talk \o answers /\ Len(answers) = Len(talk[Len(talk)].of)
               /\ \A i \in 1..Len(answers) : answers[i].role = "tool" /\ answers[i].of = talk[Len(talk)].of[i]
               /\ \A i \in 1..Len(answers) : answers[i].says = "repeated" =>
                     \/ \E k \in Lookups : answers[i].of = k /\ seen[k] # 0 /\ ~talk[seen[k]].cut
                     \/ \E j \in 1..i : answers[j].of = answers[i].of /\ answers[j].says = "found" /\ ~answers[j].cut
               /\ seen' \in [Lookups -> Nat]
               /\ \A k \in Lookups : seen'[k] = seen[k] \/ \E i \in 1..Len(answers) :
                     seen'[k] = Len(talk) + i /\ answers[i].of = k /\ answers[i].says = "found"
  <1> DEFINE calls     == Want
             noted     == {i \in DOMAIN calls : calls[i] = Bad \/ (calls[i] \in Lookups /\ seen[calls[i]] # 0)}
             first(i)  == Min({j \in 1..i : calls[j] = calls[i]})
             made      == {i \in DOMAIN calls \ noted : first(i) = i}
             size      == [i \in made |-> IF calls[i] \in failed THEN NoteSize ELSE ResultSize[calls[i]]]
             left      == Max({(Room - Used - MinRoom) \div 2 - NoteSize * (Len(calls) - Cardinality(made)), 0})
             share     == Shares(made, size, left)
             isCut(i)  == share[i] < size[i]
             shown(i)  == [Message("tool", calls[i], IF calls[i] \in failed THEN "failed" ELSE "found",
                                   IF isCut(i) THEN share[i] + NoteSize ELSE size[i]) EXCEPT !.cut = isCut(i)]
             note(i, says) == Message("tool", calls[i], says, NoteSize)
             repeat(i, cut) == note(i, IF cut THEN "repeatedCut" ELSE "repeated")
             tell(i)   == IF i \in made THEN shown(i)
                          ELSE IF calls[i] = Bad THEN note(i, "unreadable")
                          ELSE IF i \in noted THEN repeat(i, talk[seen[calls[i]]].cut)
                          ELSE IF calls[i] \in failed /\ ~isCut(first(i)) THEN shown(first(i))
                          ELSE repeat(i, isCut(first(i)))
             kept      == UNION {Remembered(failed, calls[i]) : i \in made}
             N         == Len(calls)
             answers   == [i \in 1..N |-> tell(i)]
  <1>1. /\ talk \in Seq(Messages) /\ Len(talk) \in Nat \ {0} /\ Len(talk) \in 1..Len(talk) /\ seen \in [Lookups -> Nat]
        /\ calls = talk[Len(talk)].of /\ calls \in Seq(Call) /\ N \in Nat /\ DOMAIN calls = 1..N
    <2>1. talk \in Seq(Messages) /\ talk # <<>> /\ seen \in [Lookups -> Nat]
      BY DEF RoundsInv, RoundsTypeOK
    <2>2. Len(talk) \in Nat \ {0} /\ Len(talk) \in 1..Len(talk) /\ calls = talk[Len(talk)].of
      BY <2>1 DEF Want, Last
    <2>3. calls \in Seq(Call)
      BY <2>2 DEF RoundsInv, RoundsTypeOK, TalkSound
    <2> HIDE DEF calls
    <2> QED BY <2>1, <2>2, <2>3
  <1>2. Used \in Nat
    <2>1. \A n \in 1..Len(talk) : talk[n] \in Messages
      BY ONLY <1>1
    <2>2. \A n \in 1..Len(talk) : talk[n].size \in Nat
      BY ONLY <2>1 DEF Messages
    <2>3. Len(talk) \in Nat
      BY <1>1
    <2> QED BY ONLY <2>2, <2>3, UsedIs
  <1>3. /\ talk' = talk \o answers
        /\ seen' = [k \in Lookups |-> IF k \in kept THEN Len(talk) + Min({i \in made : calls[i] = k}) ELSE seen[k]]
        /\ sharing'.left = left /\ sharing'.taken = Together(share, N) /\ sharing'.cut = (\E i \in made : isCut(i))
    <2>1. /\ talk' = talk \o Answered(calls, [i \in DOMAIN calls |-> tell(i)])
          /\ seen' = [k \in Lookups |-> IF k \in kept THEN Len(talk) + Min({i \in made : calls[i] = k}) ELSE seen[k]]
          /\ sharing' = [left |-> left, taken |-> Together(share, N), cut |-> \E i \in made : isCut(i)]
      BY DEF LookUp
    <2> HIDE DEF calls, kept, made, left, share, isCut, tell
    <2>2. Answered(calls, [i \in DOMAIN calls |-> tell(i)]) = answers
      BY <1>1 DEF Answered
    <2> HIDE DEF answers, N
    <2> QED BY <2>1, <2>2
  <1> HIDE DEF calls
  <1>4. \A i \in 1..N : /\ first(i) \in 1..i /\ calls[first(i)] = calls[i] /\ first(first(i)) = first(i)
                        /\ \A j \in 1..i : calls[j] = calls[i] => first(i) <= j
    <2>1. TAKE i \in 1..N
    <2> DEFINE alike(j) == {h \in 1..j : calls[h] = calls[j]}
    <2>2. alike(i) \in SUBSET Nat /\ i \in alike(i)
      OBVIOUS
    <2>3. first(i) \in alike(i) /\ \A h \in alike(i) : first(i) <= h
      <3> HIDE DEF alike
      <3>1. Min(alike(i)) \in alike(i) /\ \A h \in alike(i) : Min(alike(i)) <= h
        BY <2>2, MinExists
      <3> QED BY <3>1 DEF alike
    <2> DEFINE f == first(i)
    <2> HIDE DEF f
    <2>4. f \in 1..i /\ calls[f] = calls[i]
      BY <2>3 DEF f
    <2>5. alike(f) \in SUBSET Nat /\ f \in alike(f) /\ \A h \in alike(f) : f <= h
      <3>1. \A h \in alike(f) : h \in alike(i)
        BY <2>4
      <3>2. \A h \in alike(i) : f <= h
        BY <2>3 DEF f
      <3> QED BY <2>4, <3>1, <3>2
    <2>6. first(f) = f
      <3> HIDE DEF alike
      <3>1. Min(alike(f)) = f
        BY <2>5, MinIs
      <3> QED BY <3>1 DEF alike
    <2> QED BY <2>3, <2>4, <2>6 DEF f
  <1> HIDE DEF first
  <1>5. /\ noted \subseteq 1..N /\ made \subseteq 1..N /\ made \subseteq Nat
        /\ \A i \in made : calls[i] \in Lookups
        /\ \A i \in 1..N : i \notin noted => first(i) \in made /\ calls[i] \in Lookups
    <2>1. \A i \in 1..N : calls[i] \in Call
      BY <1>1
    <2>2. noted \subseteq 1..N /\ made \subseteq 1..N /\ made \subseteq Nat
      BY <1>1
    <2>3. \A i \in 1..N : i \notin noted => calls[i] \in Lookups
      BY <1>1, <2>1 DEF Call
    <2>4. \A i \in 1..N : i \notin noted => first(i) \in made
      <3> TAKE i \in 1..N
      <3> HAVE i \notin noted
      <3>1. first(i) \in 1..N /\ calls[first(i)] = calls[i] /\ first(first(i)) = first(i)
        BY <1>1, <1>4
      <3>2. first(i) \notin noted
        BY <1>1, <3>1
      <3> QED BY <1>1, <3>1, <3>2
    <2> QED BY <2>2, <2>3, <2>4
  <1>6. Sizes(made, size, N) /\ \A i \in made : size[i] = IF calls[i] \in failed THEN 1 ELSE ResultSize[calls[i]]
    <2>1. \A i \in made : size[i] = IF calls[i] \in failed THEN 1 ELSE ResultSize[calls[i]]
      BY DEF NoteSize
    <2>2. \A i \in made : ResultSize[calls[i]] \in Nat
      BY <1>5, SizesAssumption
    <2> HIDE DEF size, made
    <2> QED BY <1>5, <2>1, <2>2 DEF Sizes
  <1>7. left \in Nat
    <2>1. IsFiniteSet(made) /\ Cardinality(made) \in Nat
      <3> HIDE DEF made
      <3>1. N \in Int /\ 1 \in Int
        BY <1>1
      <3>2. IsFiniteSet(1..N)
        BY ONLY <3>1, FS_Interval
      <3>3. made \subseteq 1..N
        BY <1>5
      <3> HIDE DEF N
      <3> QED BY <3>2, <3>3, FS_Subset, FS_CardinalityType
    <2>2. Room \in Nat /\ MinRoom \in Nat
      BY RoundsAssumption
    <2> DEFINE more == (Room - Used - MinRoom) \div 2 - NoteSize * (Len(calls) - Cardinality(made))
    <2>3. more \in Int
      <3> HIDE DEF made
      <3> QED BY <1>1, <1>2, <2>1, <2>2 DEF NoteSize
    <2> HIDE DEF more
    <2>4. Max({more, 0}) \in Nat
      BY <2>3, MaxWithZero
    <2> QED BY <2>4 DEF more
  <1> HIDE DEF left
  <1>8. /\ DOMAIN share = made /\ Amounts(share) /\ Together(share, N) <= left
        /\ (\E i \in made : share[i] < size[i]) => Together(share, N) = left
    <2> HIDE DEF made, size, N
    <2> QED BY <1>1, <1>6, <1>7, SharesAre
  <1>9. SharesUseTheRoom'
    <2> HIDE DEF share, made, size, N
    <2> QED BY <1>3, <1>8 DEF SharesUseTheRoom
  <1>10. \A i \in made : share[i] \in Nat /\ size[i] \in Nat /\ isCut(i) \in BOOLEAN
    <2>1. \A i \in made : share[i] \in Nat
      BY <1>8 DEF Amounts
    <2>2. \A i \in made : size[i] \in Nat
      BY <1>6 DEF Sizes
    <2>3. \A i \in made : isCut(i) \in BOOLEAN
      OBVIOUS
    <2> HIDE DEF share, made, size, isCut
    <2> QED BY <2>1, <2>2, <2>3
  <1> HIDE DEF share, size, N, isCut, made, noted
  <1>11. \A i \in made : /\ Says(shown(i), "tool", calls[i], IF calls[i] \in failed THEN "failed" ELSE "found")
                         /\ shown(i).cut = isCut(i)
    <2> TAKE i \in made
    <2> DEFINE says == IF calls[i] \in failed THEN "failed" ELSE "found"
               n    == IF isCut(i) THEN share[i] + NoteSize ELSE size[i]
               m    == Message("tool", calls[i], says, n)
    <2>1. n \in Nat
      BY <1>10 DEF NoteSize
    <2>2. says \in Sayings /\ "tool" \in {"user", "assistant", "tool"} /\ calls[i] \in Seq(Call) \cup Call
      BY <1>5 DEF Sayings, Call
    <2> HIDE DEF says, n
    <2>3. Says(m, "tool", calls[i], says)
      BY ONLY <2>1, <2>2, MessageIs, Zenon
    <2> HIDE DEF m
    <2>4. isCut(i) \in BOOLEAN
      BY <1>10
    <2>5. /\ [m EXCEPT !.cut = isCut(i)] \in Messages /\ [m EXCEPT !.cut = isCut(i)].role = "tool"
          /\ [m EXCEPT !.cut = isCut(i)].of = calls[i] /\ [m EXCEPT !.cut = isCut(i)].says = says
          /\ [m EXCEPT !.cut = isCut(i)].cut = isCut(i)
      BY <2>3, <2>4 DEF Says, Messages
    <2> QED BY <2>5 DEF Says, m, says, n
  <1> HIDE DEF shown
  <1>12. \A i \in 1..N : \A says \in Sayings : Says(note(i, says), "tool", calls[i], says)
    <2> TAKE i \in 1..N
    <2> TAKE says \in Sayings
    <2>1. "tool" \in {"user", "assistant", "tool"} /\ calls[i] \in Seq(Call) \cup Call /\ NoteSize \in Nat
      BY <1>1 DEF NoteSize, N
    <2>2. says \in Sayings
      OBVIOUS
    <2> QED BY ONLY <2>1, <2>2, MessageIs, Zenon
  <1> HIDE DEF note
  <1>13. \A i \in 1..N :
           /\ tell(i) \in Messages /\ tell(i).role = "tool" /\ tell(i).of = calls[i]
           /\ tell(i).says = "repeated" =>
                 \/ i \in noted /\ calls[i] # Bad /\ ~talk[seen[calls[i]]].cut
                 \/ i \notin noted /\ first(i) \in made /\ calls[i] \notin failed /\ ~isCut(first(i))
    <2> TAKE i \in 1..N
    <2>1. CASE i \in made
      <3>1. tell(i) = shown(i)
        BY <2>1
      <3> HIDE DEF tell
      <3> QED BY <1>11, <2>1, <3>1 DEF Says
    <2>2. CASE i \notin made /\ calls[i] = Bad
      <3>1. tell(i) = note(i, "unreadable")
        BY <2>2
      <3> HIDE DEF tell
      <3>2. Says(note(i, "unreadable"), "tool", calls[i], "unreadable")
        BY <1>12 DEF Sayings
      <3> QED BY <3>1, <3>2 DEF Says
    <2>3. CASE i \notin made /\ calls[i] # Bad /\ i \in noted
      <3>1. tell(i) = note(i, IF talk[seen[calls[i]]].cut THEN "repeatedCut" ELSE "repeated")
        BY <2>3
      <3> HIDE DEF tell
      <3>2. /\ Says(note(i, "repeated"), "tool", calls[i], "repeated")
            /\ Says(note(i, "repeatedCut"), "tool", calls[i], "repeatedCut")
        BY <1>12 DEF Sayings
      <3>3. CASE talk[seen[calls[i]]].cut
        BY <3>1, <3>2, <3>3 DEF Says
      <3>4. CASE ~talk[seen[calls[i]]].cut
        BY <2>3, <3>1, <3>2, <3>4 DEF Says
      <3> QED BY <3>3, <3>4
    <2>4. CASE i \notin made /\ calls[i] # Bad /\ i \notin noted
      <3>1. first(i) \in made /\ calls[first(i)] = calls[i]
        BY <1>4, <1>5, <2>4
      <3>2. tell(i) = IF calls[i] \in failed /\ ~isCut(first(i)) THEN shown(first(i))
                      ELSE note(i, IF isCut(first(i)) THEN "repeatedCut" ELSE "repeated")
        BY <2>4
      <3> HIDE DEF tell
      <3>3. /\ Says(note(i, "repeated"), "tool", calls[i], "repeated")
            /\ Says(note(i, "repeatedCut"), "tool", calls[i], "repeatedCut")
        BY <1>12 DEF Sayings
      <3>4. Says(shown(first(i)), "tool", calls[i], IF calls[i] \in failed THEN "failed" ELSE "found")
        BY <1>11, <3>1
      <3>5. CASE calls[i] \in failed /\ ~isCut(first(i))
        BY <3>2, <3>4, <3>5 DEF Says
      <3>6. CASE isCut(first(i))
        BY <3>2, <3>3, <3>6 DEF Says
      <3>7. CASE calls[i] \notin failed /\ ~isCut(first(i))
        BY <2>4, <3>1, <3>2, <3>3, <3>7 DEF Says
      <3> QED BY <3>5, <3>6, <3>7
    <2> QED BY <2>1, <2>2, <2>3, <2>4
  <1>14. \A i \in made : /\ i \in 1..N /\ tell(i) = shown(i)
                         /\ calls[i] \notin failed => tell(i).says = "found" /\ tell(i).of = calls[i]
                         /\ tell(i).cut = isCut(i)
    <2> TAKE i \in made
    <2>1. i \in 1..N /\ tell(i) = shown(i)
      BY <1>5
    <2> HIDE DEF tell
    <2> QED BY <1>11, <2>1 DEF Says
  <1> HIDE DEF tell
  <1>15. answers \in Seq(Messages) /\ Len(answers) = N /\ \A i \in 1..N : answers[i] = tell(i)
    BY <1>1, <1>13 DEF N
  <1> HIDE DEF answers
  <1>16. ASSUME NEW i \in 1..N, answers[i].says = "repeated"
         PROVE  \/ \E k \in Lookups : answers[i].of = k /\ seen[k] # 0 /\ ~talk[seen[k]].cut
                \/ \E j \in 1..i : answers[j].of = answers[i].of /\ answers[j].says = "found" /\ ~answers[j].cut
    <2>1. answers[i] = tell(i) /\ tell(i).of = calls[i]
      BY <1>13, <1>15
    <2>2. CASE i \in noted /\ calls[i] # Bad /\ ~talk[seen[calls[i]]].cut
      <3>1. calls[i] \in Lookups /\ seen[calls[i]] # 0
        BY <2>2 DEF noted
      <3> QED BY <2>1, <2>2, <3>1
    <2>3. CASE i \notin noted /\ first(i) \in made /\ calls[i] \notin failed /\ ~isCut(first(i))
      <3>1. first(i) \in 1..i /\ calls[first(i)] = calls[i] /\ first(i) \in 1..N
        BY <1>4, <1>5, <2>3
      <3>2. answers[first(i)] = tell(first(i)) /\ tell(first(i)).says = "found" /\ tell(first(i)).of = calls[i] /\ ~tell(first(i)).cut
        BY <1>14, <1>15, <2>3, <3>1
      <3> QED BY <2>1, <3>1, <3>2
    <2> QED BY <1>13, <1>16, <2>1, <2>2, <2>3
  <1>17. ASSUME NEW k \in Lookups
         PROVE  /\ seen'[k] \in Nat
                /\ seen'[k] = seen[k] \/ \E i \in 1..N : seen'[k] = Len(talk) + i /\ answers[i].of = k /\ answers[i].says = "found"
    <2>1. CASE k \notin kept
      <3>1. seen'[k] = seen[k]
        BY <1>3, <2>1
      <3> QED BY <1>1, <3>1
    <2>2. CASE k \in kept
      <3>1. PICK m \in made : k \in {calls[m]} \ failed
        BY <2>2 DEF Remembered
      <3> DEFINE S == {i \in made : calls[i] = k}
      <3>2. S \in SUBSET Nat /\ S # {}
        <4>1. S \subseteq made /\ m \in S
          BY <3>1
        <4> HIDE DEF S
        <4> QED BY <1>5, <4>1
      <3>3. seen'[k] = Len(talk) + Min(S)
        BY <1>3, <2>2
      <3> HIDE DEF S
      <3>4. Min(S) \in S
        BY <3>2, MinExists
      <3> DEFINE i == Min(S)
      <3>5. i \in made /\ calls[i] = k /\ k \notin failed
        BY <3>1, <3>4 DEF S
      <3> HIDE DEF i
      <3>6. i \in 1..N /\ answers[i].of = k /\ answers[i].says = "found"
        BY <1>14, <1>15, <3>5
      <3>7. seen'[k] = Len(talk) + i
        BY <3>3 DEF i
      <3> QED BY <1>1, <3>6, <3>7
    <2> QED BY <2>1, <2>2
  <1>18. seen' \in [Lookups -> Nat]
    BY <1>3, <1>17
  <1>19. \A i \in 1..N : answers[i].role = "tool" /\ answers[i].of = calls[i]
    BY <1>13, <1>15
  <1>20. N = Len(talk[Len(talk)].of) /\ calls = talk[Len(talk)].of
    BY <1>1 DEF N
  <1> HIDE DEF kept
  <1>21. talk' = talk \o answers
    BY <1>3
  <1>22. Len(answers) = Len(talk[Len(talk)].of) /\ answers \in Seq(Messages)
    BY <1>15, <1>20
  <1>23. \A i \in 1..Len(answers) : answers[i].role = "tool" /\ answers[i].of = talk[Len(talk)].of[i]
    BY <1>15, <1>19, <1>20
  <1>24. \A i \in 1..Len(answers) : answers[i].says = "repeated" =>
            \/ \E k \in Lookups : answers[i].of = k /\ seen[k] # 0 /\ ~talk[seen[k]].cut
            \/ \E j \in 1..i : answers[j].of = answers[i].of /\ answers[j].says = "found" /\ ~answers[j].cut
    BY <1>15, <1>16
  <1>25. \A k \in Lookups : seen'[k] = seen[k] \/ \E i \in 1..Len(answers) :
            seen'[k] = Len(talk) + i /\ answers[i].of = k /\ answers[i].says = "found"
    BY <1>15, <1>17
  <1> QED BY ONLY <1>9, <1>18, <1>21, <1>22, <1>23, <1>24, <1>25, Zenon

LEMMA RunToolsKeeps == ASSUME RoundsInv, RunTools PROVE RoundsInv' /\ RepeatsStep
  <1>1. PICK failed \in SUBSET Lookups : LookUp(failed)
    BY DEF RunTools
  <1>2. phase = "lookup" /\ phase' = "round" /\ UNCHANGED busy
    BY DEF RunTools
  <1> DEFINE L == Len(talk)
  <1>3. /\ SharesUseTheRoom'
        /\ \E answers \in Seq(Messages) :
              /\ talk' = talk \o answers /\ Len(answers) = Len(talk[L].of)
              /\ \A i \in 1..Len(answers) : answers[i].role = "tool" /\ answers[i].of = talk[L].of[i]
              /\ \A i \in 1..Len(answers) : answers[i].says = "repeated" =>
                    \/ \E k \in Lookups : answers[i].of = k /\ seen[k] # 0 /\ ~talk[seen[k]].cut
                    \/ \E j \in 1..i : answers[j].of = answers[i].of /\ answers[j].says = "found" /\ ~answers[j].cut
              /\ seen' \in [Lookups -> Nat]
              /\ \A k \in Lookups : seen'[k] = seen[k] \/ \E i \in 1..Len(answers) :
                    seen'[k] = L + i /\ answers[i].of = k /\ answers[i].says = "found"
    BY <1>1, <1>2, LookUpDoes
  <1>4. PICK answers \in Seq(Messages) :
              /\ talk' = talk \o answers /\ Len(answers) = Len(talk[L].of)
              /\ \A i \in 1..Len(answers) : answers[i].role = "tool" /\ answers[i].of = talk[L].of[i]
              /\ \A i \in 1..Len(answers) : answers[i].says = "repeated" =>
                    \/ \E k \in Lookups : answers[i].of = k /\ seen[k] # 0 /\ ~talk[seen[k]].cut
                    \/ \E j \in 1..i : answers[j].of = answers[i].of /\ answers[j].says = "found" /\ ~answers[j].cut
              /\ seen' \in [Lookups -> Nat]
              /\ \A k \in Lookups : seen'[k] = seen[k] \/ \E i \in 1..Len(answers) :
                    seen'[k] = L + i /\ answers[i].of = k /\ answers[i].says = "found"
    BY <1>3
  <1> DEFINE A == Len(answers)
  <1>5. /\ talk \in Seq(Messages) /\ L \in Nat \ {0} /\ A \in Nat
        /\ talk' \in Seq(Messages) /\ talk' # <<>> /\ Len(talk') = L + A
        /\ \A i \in 1..L : talk'[i] = talk[i]
        /\ \A i \in 1..A : talk'[L + i] = answers[i]
    <2>1. talk \in Seq(Messages) /\ talk # <<>>
      BY DEF RoundsInv, RoundsTypeOK
    <2>2. talk' = talk \o answers
      BY <1>4
    <2>3. /\ Len(talk) \in Nat \ {0} /\ Len(answers) \in Nat
          /\ talk \o answers \in Seq(Messages) /\ talk \o answers # <<>>
          /\ Len(talk \o answers) = Len(talk) + Len(answers)
          /\ \A i \in 1..Len(talk) : (talk \o answers)[i] = talk[i]
          /\ \A i \in 1..Len(answers) : (talk \o answers)[Len(talk) + i] = answers[i]
      BY ONLY <2>1, answers \in Seq(Messages), JoinedAre
    <2> QED BY ONLY <2>1, <2>2, <2>3
  <1>6. \A i \in 1..(L + A) : i \in 1..L \/ (i - L \in 1..A /\ L + (i - L) = i)
    BY <1>5
  <1>7. RoundsTypeOK'
    <2>1. ASSUME NEW i \in 1..Len(talk'), talk'[i].role = "assistant" PROVE talk'[i].of \in Seq(Call)
      <3>1. CASE i \in 1..L
        BY <1>5, <2>1, <3>1 DEF RoundsInv, RoundsTypeOK
      <3>2. CASE i \notin 1..L
        <4>1. i - L \in 1..A /\ talk'[i] = answers[i - L]
          BY <1>5, <1>6, <3>2
        <4>2. talk'[i].role = "tool"
          BY <1>4, <4>1
        <4> QED BY <2>1, <4>2
      <3> QED BY <3>1, <3>2
    <2> QED BY <1>4, <1>5, <2>1 DEF RoundsTypeOK
  <1>8. \A i \in 1..L : talk[i].role = "assistant" => talk[i].of \in Seq(Call)
    BY DEF RoundsInv, RoundsTypeOK
  <1>9. talk[L].role = "assistant" /\ \A i \in 1..(L - 1) : talk[i].role = "assistant" => HasAnswers(talk, i)
    BY <1>2 DEF RoundsInv, TalkSound
  <1>10. HasAnswers(talk', L)
    <2>1. talk'[L] = talk[L] /\ Len(talk[L].of) = A
      BY <1>4, <1>5
    <2>2. \A n \in 1..A : L + n \in 1..Len(talk') /\ talk'[L + n].role = "tool" /\ talk'[L + n].of = talk[L].of[n]
      BY <1>4, <1>5
    <2>3. L + A + 1 \notin 1..Len(talk')
      BY <1>5
    <2> HIDE DEF L, A
    <2> QED BY <2>1, <2>2, <2>3 DEF HasAnswers
  <1>11. ASSUME NEW i \in 1..(L - 1), talk[i].role = "assistant" PROVE HasAnswers(talk', i)
    <2>1. i \in 1..L /\ i < L /\ HasAnswers(talk, i) /\ talk[i].of \in Seq(Call) /\ L \in 1..L
      BY <1>5, <1>8, <1>9, <1>11
    <2> DEFINE c == Len(talk[i].of)
    <2>2. c \in Nat
      BY <2>1
    <2>3. i + c # L
      <3>1. SUFFICES ASSUME i + c = L PROVE FALSE
        OBVIOUS
      <3>2. c \in 1..c
        BY <2>1, <2>2, <3>1
      <3>3. talk[i + c].role = "tool"
        BY <2>1, <3>2 DEF HasAnswers
      <3> QED BY <1>9, <3>1, <3>3
    <2> HIDE DEF c
    <2>4. HasAnswers(talk \o answers, i)
      BY <1>5, <2>1, <2>3, AnswersStay DEF c
    <2> QED BY <1>4, <2>4
  <1>12. TalkSound'
    <2>1. ASSUME NEW i \in 1..Len(talk'), talk'[i].role = "assistant" PROVE HasAnswers(talk', i)
      <3>1. i \in 1..L
        <4>1. SUFFICES ASSUME i \notin 1..L PROVE FALSE
          OBVIOUS
        <4>2. i - L \in 1..A /\ talk'[i] = answers[i - L]
          BY <1>5, <1>6, <4>1
        <4> QED BY <1>4, <2>1, <4>2
      <3>2. talk[i].role = "assistant"
        BY <1>5, <2>1, <3>1
      <3>3. i = L \/ i \in 1..(L - 1)
        BY <1>5, <3>1
      <3> QED BY <1>10, <1>11, <3>2, <3>3
    <2> QED BY <1>2, <2>1 DEF TalkSound
  <1>13. SeenSound'
    <2> SUFFICES ASSUME NEW k \in Lookups, seen'[k] # 0
                 PROVE  seen'[k] \in 1..Len(talk') /\ talk'[seen'[k]].of = k /\ talk'[seen'[k]].says = "found"
      BY DEF SeenSound
    <2>1. CASE seen'[k] = seen[k]
      <3>1. seen[k] \in 1..L /\ talk[seen[k]].of = k /\ talk[seen[k]].says = "found"
        BY <2>1 DEF RoundsInv, SeenSound
      <3> QED BY <1>5, <2>1, <3>1
    <2>2. ASSUME NEW i \in 1..A, seen'[k] = L + i, answers[i].of = k, answers[i].says = "found"
          PROVE  seen'[k] \in 1..Len(talk') /\ talk'[seen'[k]].of = k /\ talk'[seen'[k]].says = "found"
      BY <1>5, <2>2
    <2> QED BY <1>4, <2>1, <2>2
  <1>14. OneAtATime'
    BY <1>2 DEF RoundsInv, OneAtATime
  <1>15. RepeatsStep
    <2> SUFFICES ASSUME NEW i \in DOMAIN talk' \ DOMAIN talk, talk'[i].says = "repeated"
                 PROVE  \E j \in 1..i : talk'[j].of = talk'[i].of /\ talk'[j].says = "found" /\ ~talk'[j].cut
      BY DEF RepeatsStep
    <2>1. i \in 1..(L + A) /\ i \notin 1..L
      BY <1>5
    <2> DEFINE n == i - L
    <2>2. n \in 1..A /\ L + n = i
      BY <1>6, <2>1
    <2> HIDE DEF n
    <2>3. talk'[i] = answers[n] /\ answers[n].says = "repeated"
      BY <1>5, <2>2
    <2>4. ASSUME NEW k \in Lookups, answers[n].of = k, seen[k] # 0, ~talk[seen[k]].cut
          PROVE  \E j \in 1..i : talk'[j].of = talk'[i].of /\ talk'[j].says = "found" /\ ~talk'[j].cut
      <3>1. seen[k] \in 1..L /\ talk[seen[k]].of = k /\ talk[seen[k]].says = "found"
        BY <2>4 DEF RoundsInv, SeenSound
      <3>2. seen[k] \in 1..i /\ talk'[seen[k]] = talk[seen[k]]
        BY <1>5, <2>2, <3>1
      <3> QED BY <2>3, <2>4, <3>1, <3>2
    <2>5. ASSUME NEW j \in 1..n, answers[j].of = answers[n].of, answers[j].says = "found", ~answers[j].cut
          PROVE  \E m \in 1..i : talk'[m].of = talk'[i].of /\ talk'[m].says = "found" /\ ~talk'[m].cut
      <3>1. j \in 1..A /\ L + j \in 1..i
        BY <1>5, <2>2
      <3>2. talk'[L + j] = answers[j]
        BY <1>5, <3>1
      <3> QED BY <2>3, <2>5, <3>1, <3>2
    <2>6. \/ \E k \in Lookups : answers[n].of = k /\ seen[k] # 0 /\ ~talk[seen[k]].cut
          \/ \E j \in 1..n : answers[j].of = answers[n].of /\ answers[j].says = "found" /\ ~answers[j].cut
      BY <1>4, <2>2, <2>3
    <2> QED BY ONLY <2>4, <2>5, <2>6, Zenon
  <1> QED BY <1>3, <1>7, <1>12, <1>13, <1>14, <1>15 DEF RoundsInv

\* A message that is no answer to a lookup.
LEMMA OneMoreKeeps ==
  ASSUME RoundsInv, phase \in {"round", "sent"}, NEW m \in Messages, m.role # "tool",
         m.role = "assistant" => m.of \in Seq(Call), talk' = Append(talk, m), UNCHANGED seen,
         phase' \in {"sent", "lookup", "done"}, phase' = "sent" => m.role = "user", phase' = "lookup" => m.role = "assistant"
  PROVE  RoundsTypeOK' /\ TalkSound' /\ SeenSound'
  <1> DEFINE L == Len(talk)
  <1>1. /\ talk \in Seq(Messages) /\ L \in Nat \ {0} /\ seen \in [Lookups -> Nat]
        /\ \A i \in 1..L : talk[i].role = "assistant" => talk[i].of \in Seq(Call) /\ HasAnswers(talk, i)
    <2>1. talk \in Seq(Messages) /\ talk # <<>> /\ seen \in [Lookups -> Nat]
      BY DEF RoundsInv, RoundsTypeOK
    <2>2. \A i \in 1..L : talk[i].role = "assistant" => talk[i].of \in Seq(Call)
      BY DEF RoundsInv, RoundsTypeOK
    <2>3. \A i \in 1..L : talk[i].role = "assistant" => HasAnswers(talk, i)
      BY DEF RoundsInv, TalkSound
    <2> QED BY <2>1, <2>2, <2>3
  <1>2. /\ talk' \in Seq(Messages) /\ talk' # <<>> /\ Len(talk') = L + 1 /\ talk'[L + 1] = m
        /\ \A i \in 1..L : talk'[i] = talk[i]
    BY <1>1
  <1>3. talk' = talk \o <<m>> /\ <<m>> \in Seq(Messages) /\ <<m>>[1] = m
    BY <1>1
  <1>4. \A i \in 1..(L + 1) : i \in 1..L \/ i = L + 1
    BY <1>1
  <1>5. RoundsTypeOK'
    <2>1. \A i \in 1..Len(talk') : talk'[i].role = "assistant" => talk'[i].of \in Seq(Call)
      BY <1>1, <1>2, <1>4
    <2> QED BY <1>1, <1>2, <2>1 DEF RoundsTypeOK
  <1>6. \A i \in 1..L : talk'[i].role = "assistant" => HasAnswers(talk', i)
    <2> TAKE i \in 1..L
    <2> HAVE talk'[i].role = "assistant"
    <2>1. talk[i].of \in Seq(Call) /\ HasAnswers(talk, i)
      BY <1>1, <1>2
    <2>2. HasAnswers(talk \o <<m>>, i)
      BY <1>1, <1>3, <2>1, AnswersStay
    <2> QED BY <1>3, <2>2
  <1>7. TalkSound'
    <2>1. CASE phase' = "sent"
      <3>1. m.role # "assistant"
        BY <2>1
      <3>2. \A i \in 1..Len(talk') : talk'[i].role = "assistant" => i \in 1..L
        BY <1>2, <1>4, <3>1
      <3> QED BY <1>6, <2>1, <3>2 DEF TalkSound
    <2>2. CASE phase' = "lookup"
      <3>1. Len(talk') - 1 = L /\ talk'[Len(talk')].role = "assistant"
        BY <1>1, <1>2, <2>2
      <3> QED BY <1>6, <2>2, <3>1 DEF TalkSound
    <2>3. CASE phase' = "done"
      BY <2>3 DEF TalkSound
    <2> QED BY <2>1, <2>2, <2>3
  <1>8. SeenSound'
    <2>1. \A k \in Lookups : seen[k] # 0 => seen[k] \in 1..L /\ talk[seen[k]].of = k /\ talk[seen[k]].says = "found"
      BY DEF RoundsInv, SeenSound
    <2>2. \A k \in Lookups : seen[k] # 0 => talk'[seen[k]] = talk[seen[k]] /\ seen[k] \in 1..Len(talk')
      BY <1>1, <1>2, <2>1
    <2> QED BY <2>1, <2>2 DEF SeenSound
  <1> QED BY <1>5, <1>7, <1>8

\* The talk is as it was, and nothing further is made of it.
LEMMA SameTalkKeeps ==
  ASSUME RoundsInv, UNCHANGED <<talk, seen>>,
         phase' = phase \/ (phase = "round" /\ phase' = "sent") \/ phase' \in {"done", "failed"}
  PROVE  RoundsTypeOK' /\ TalkSound' /\ SeenSound'
  <1>1. RoundsTypeOK' /\ SeenSound'
    BY DEF RoundsInv, RoundsTypeOK, SeenSound
  <1>2. TalkSound'
    BY DEF RoundsInv, TalkSound
  <1> QED BY <1>1, <1>2

\* With longer results cut.
LEMMA HalvedKeeps ==
  ASSUME RoundsInv, phase = "sent", phase' = "sent", talk' = Halved, UNCHANGED seen
  PROVE  /\ RoundsTypeOK' /\ TalkSound' /\ SeenSound' /\ DOMAIN talk' = DOMAIN talk
  <1> DEFINE L == Len(talk)
  <1>1. /\ talk \in Seq(Messages) /\ talk # <<>> /\ L \in Nat \ {0} /\ seen \in [Lookups -> Nat]
        /\ \A i \in 1..L : talk[i].role = "assistant" => talk[i].of \in Seq(Call) /\ HasAnswers(talk, i)
    <2>1. talk \in Seq(Messages) /\ talk # <<>> /\ seen \in [Lookups -> Nat]
      BY DEF RoundsInv, RoundsTypeOK
    <2>2. \A i \in 1..L : talk[i].role = "assistant" => talk[i].of \in Seq(Call)
      BY DEF RoundsInv, RoundsTypeOK
    <2>3. \A i \in 1..L : talk[i].role = "assistant" => HasAnswers(talk, i)
      BY DEF RoundsInv, TalkSound
    <2> QED BY <2>1, <2>2, <2>3
  <1>2. \A i \in 1..L : /\ talk'[i] \in Messages /\ talk'[i].role = talk[i].role
                        /\ talk'[i].of = talk[i].of /\ talk'[i].says = talk[i].says
    <2> TAKE i \in 1..L
    <2>1. talk[i] \in Messages
      BY <1>1
    <2> DEFINE m == [talk[i] EXCEPT !.size = talk[i].size \div 2 + NoteSize, !.cut = TRUE]
    <2>2. talk'[i] = IF i \in Long THEN m ELSE talk[i]
      <3>1. Halved[i] = IF i \in Long THEN m ELSE talk[i]
        <4>1. i \in DOMAIN talk
          BY <1>1
        <4> QED BY <4>1 DEF Halved
      <3> HIDE DEF m
      <3> QED BY <3>1
    <2>3. talk[i].size \in Nat
      BY <2>1 DEF Messages
    <2>4. talk[i].size \div 2 + NoteSize \in Nat
      BY <2>3 DEF NoteSize
    <2>5. m \in Messages /\ m.role = talk[i].role /\ m.of = talk[i].of /\ m.says = talk[i].says
      BY <2>1, <2>4 DEF Messages
    <2> HIDE DEF m
    <2> QED BY <2>1, <2>2, <2>5
  <1>3. talk' \in Seq(Messages) /\ Len(talk') = L /\ DOMAIN talk' = DOMAIN talk
    <2>1. DOMAIN talk = 1..L
      BY <1>1
    <2>2. talk' = [i \in 1..L |-> talk'[i]]
      <3> DEFINE h(i) == IF i \in Long THEN [talk[i] EXCEPT !.size = @ \div 2 + NoteSize, !.cut = TRUE] ELSE talk[i]
      <3>1. talk' = [i \in 1..L |-> h(i)]
        BY <2>1 DEF Halved
      <3> HIDE DEF h, L
      <3> QED BY ONLY <3>1
    <2> HIDE DEF L
    <2> QED BY <1>1, <1>2, <2>1, <2>2
  <1>4. \A i \in 1..L : talk'[i].role = "assistant" => talk'[i].of \in Seq(Call) /\ HasAnswers(talk', i)
    <2> TAKE i \in 1..L
    <2> HAVE talk'[i].role = "assistant"
    <2>1. talk[i].of \in Seq(Call) /\ HasAnswers(talk, i)
      BY <1>1, <1>2
    <2>2. HasAnswers(talk', i)
      BY <1>1, <1>2, <1>3, <2>1, AnswersKeep
    <2> QED BY <1>2, <2>1, <2>2
  <1>5. RoundsTypeOK'
    <2>1. talk' # <<>>
      BY <1>1, <1>3
    <2> QED BY <1>1, <1>3, <1>4, <2>1 DEF RoundsTypeOK
  <1>6. TalkSound'
    BY <1>3, <1>4 DEF TalkSound
  <1>7. SeenSound'
    <2>1. \A k \in Lookups : seen[k] # 0 => seen[k] \in 1..L /\ talk[seen[k]].of = k /\ talk[seen[k]].says = "found"
      BY DEF RoundsInv, SeenSound
    <2> QED BY <1>2, <1>3, <2>1 DEF SeenSound
  <1> QED BY <1>3, <1>5, <1>6, <1>7

LEMMA RoundsKeep == ASSUME RoundsInv, [RoundsNext]_roundsVars PROVE RoundsInv' /\ RepeatsStep
  <1>1. CASE RunTools
    BY <1>1, RunToolsKeeps
  <1>2. CASE StartRound
    <2>1. phase = "round" /\ UNCHANGED <<seen, busy, sharing>> /\ phase' \in {"done", "sent"}
      BY <1>2 DEF StartRound
    <2>2. SharesUseTheRoom' /\ OneAtATime'
      BY <2>1 DEF RoundsInv, SharesUseTheRoom, OneAtATime
    <2> DEFINE m == Message("user", <<>>, "told", NoteSize)
    <2>3. Says(m, "user", <<>>, "told")
      <3>1. "user" \in {"user", "assistant", "tool"} /\ <<>> \in Seq(Call) \cup Call /\ "told" \in Sayings /\ NoteSize \in Nat
        BY DEF Sayings, NoteSize
      <3> QED BY ONLY <3>1, MessageIs, Zenon
    <2> HIDE DEF m
    <2>4. (phase' = "sent" /\ talk' = Append(talk, m)) \/ talk' = talk
      BY <1>2 DEF StartRound, m
    <2>5. CASE phase' = "sent" /\ talk' = Append(talk, m)
      <3>1. RoundsTypeOK' /\ TalkSound' /\ SeenSound'
        BY <2>1, <2>3, <2>5, OneMoreKeeps DEF Says
      <3>2. RepeatsStep
        <4>1. talk \in Seq(Messages)
          BY DEF RoundsInv, RoundsTypeOK
        <4>2. \A i \in DOMAIN talk' \ DOMAIN talk : talk'[i] = m
          BY <2>3, <2>5, <4>1 DEF Says
        <4> QED BY <2>3, <4>2 DEF RepeatsStep, Says
      <3> QED BY <2>2, <3>1, <3>2 DEF RoundsInv
    <2>6. CASE talk' = talk
      <3>1. RoundsTypeOK' /\ TalkSound' /\ SeenSound'
        BY <2>1, <2>6, SameTalkKeeps
      <3> QED BY <2>2, <2>6, <3>1 DEF RoundsInv, RepeatsStep
    <2> QED BY <2>4, <2>5, <2>6
  <1>3. ASSUME NEW calls \in Asked, Replied(calls) PROVE RoundsInv' /\ RepeatsStep
    <2> DEFINE m == Message("assistant", calls, "", Len(calls))
    <2>1. phase = "sent" /\ UNCHANGED <<seen, busy, sharing>> /\ phase' \in {"done", "lookup"} /\ talk' = Append(talk, m)
      BY <1>3 DEF Replied
    <2>2. calls \in Seq(Call)
      <3>1. PICK n \in 0..MaxAsked : calls \in [1..n -> Call]
        BY DEF Asked, Call
      <3>2. n \in Nat
        BY RoundsAssumption
      <3> QED BY <3>1, <3>2
    <2>3. Says(m, "assistant", calls, "")
      <3>1. "assistant" \in {"user", "assistant", "tool"} /\ calls \in Seq(Call) \cup Call /\ "" \in Sayings /\ Len(calls) \in Nat
        BY <2>2 DEF Sayings
      <3> QED BY ONLY <3>1, MessageIs, Zenon
    <2> HIDE DEF m
    <2>4. RoundsTypeOK' /\ TalkSound' /\ SeenSound'
      BY <2>1, <2>2, <2>3, OneMoreKeeps DEF Says
    <2>5. SharesUseTheRoom' /\ OneAtATime'
      BY <2>1 DEF RoundsInv, SharesUseTheRoom, OneAtATime
    <2>6. RepeatsStep
      <3>1. talk \in Seq(Messages)
        BY DEF RoundsInv, RoundsTypeOK
      <3>2. \A i \in DOMAIN talk' \ DOMAIN talk : talk'[i] = m
        <4>1. m \in Messages /\ talk' = Append(talk, m)
          BY <2>1, <2>3 DEF Says
        <4>2. \A i \in DOMAIN Append(talk, m) \ DOMAIN talk : Append(talk, m)[i] = m
          BY ONLY <3>1, <4>1, AddedIs
        <4> QED BY ONLY <4>1, <4>2
      <3> QED BY <2>3, <3>2 DEF RepeatsStep, Says
    <2> QED BY <2>4, <2>5, <2>6 DEF RoundsInv
  <1>4. CASE OutOfContext
    <2>1. phase = "sent" /\ UNCHANGED <<seen, busy, sharing>>
      BY <1>4 DEF OutOfContext
    <2>2. SharesUseTheRoom'
      BY <2>1 DEF RoundsInv, SharesUseTheRoom
    <2>3. CASE talk' = Halved /\ phase' = phase
      <3>1. OneAtATime'
        BY <2>1, <2>3 DEF RoundsInv, OneAtATime
      <3> QED BY <2>1, <2>2, <2>3, <3>1, HalvedKeeps DEF RoundsInv, RepeatsStep
    <2>4. CASE talk' = talk /\ phase' = "failed"
      <3>1. RoundsTypeOK' /\ TalkSound' /\ SeenSound' /\ OneAtATime'
        BY <2>1, <2>4, SameTalkKeeps DEF OneAtATime
      <3> QED BY <2>2, <2>4, <3>1 DEF RoundsInv, RepeatsStep
    <2> QED BY <1>4, <2>3, <2>4 DEF OutOfContext
  <1>5. CASE Dropped \/ TimedOut \/ Refused \/ Completed \/ UNCHANGED roundsVars
    <2>1. UNCHANGED <<talk, seen, sharing>> /\ (phase' = phase \/ phase' \in {"done", "failed"})
      BY <1>5 DEF Dropped, TimedOut, Refused, Completed, roundsVars
    <2>2. RoundsTypeOK' /\ TalkSound' /\ SeenSound'
      BY <2>1, SameTalkKeeps
    <2>3. SharesUseTheRoom' /\ RepeatsStep
      BY <2>1 DEF RoundsInv, SharesUseTheRoom, RepeatsStep
    <2>4. OneAtATime'
      BY <1>5 DEF RoundsInv, OneAtATime, Dropped, TimedOut, Refused, Completed, roundsVars
    <2> QED BY <2>2, <2>3, <2>4 DEF RoundsInv
  <1> QED BY <1>1, <1>2, <1>3, <1>4, <1>5 DEF RoundsNext

LEMMA TalkIsSound == RoundsInv => CallsHaveAnswers /\ SharesUseTheRoom /\ OneAtATime
  <1> SUFFICES ASSUME RoundsInv PROVE CallsHaveAnswers
    BY DEF RoundsInv
  <1>1. talk \in Seq(Messages) /\ \A i \in 1..Len(talk) : talk[i].role = "assistant" => talk[i].of \in Seq(Call)
    BY DEF RoundsInv, RoundsTypeOK
  <1> SUFFICES ASSUME phase = "sent", NEW i \in DOMAIN talk, talk[i].role = "assistant"
               PROVE  /\ \A n \in DOMAIN talk[i].of : /\ i + n \in DOMAIN talk
                                                      /\ talk[i + n].role = "tool" /\ talk[i + n].of = talk[i].of[n]
                      /\ i + Len(talk[i].of) + 1 \in DOMAIN talk => talk[i + Len(talk[i].of) + 1].role # "tool"
    BY DEF CallsHaveAnswers
  <1>2. DOMAIN talk = 1..Len(talk) /\ DOMAIN talk[i].of = 1..Len(talk[i].of)
    BY <1>1
  <1>3. HasAnswers(talk, i)
    BY <1>2 DEF RoundsInv, TalkSound
  <1> QED BY <1>2, <1>3 DEF HasAnswers

\* However many calls an answer has and whatever they find, and whichever errors
\* the server answers with: a model's calls are answered one by one, a repeat
\* is only spoken of while what it repeats can be read, what the answers share is
\* used up before one is cut, and no request is sent beside one that the server
\* may be working on.
THEOREM TalkStaysInOrder == RoundsInit /\ [][RoundsNext]_roundsVars => TalkInOrder
  <1>1. RoundsInit => RoundsInv
    BY RoundsStart
  <1>2. RoundsInv /\ [RoundsNext]_roundsVars => RoundsInv' /\ [RepeatsStep]_roundsVars
    BY RoundsKeep
  <1>3. RoundsInv => CallsHaveAnswers /\ SharesUseTheRoom /\ OneAtATime
    BY TalkIsSound
  <1> QED BY <1>1, <1>2, <1>3, PTL DEF TalkInOrder, RepeatsAreTrue, RepeatsStep

-----------------------------------------------------------------------------
(* Folding: texts put together.                                            *)

LEMMA FromZero == ASSUME NEW S, 0 \in S, \A n \in Nat : n \in S => n + 1 \in S PROVE \A n \in Nat : n \in S
  <1> DEFINE Fails == Nat \ S
  <1>1. SUFFICES ASSUME Fails # {} PROVE FALSE
    OBVIOUS
  <1>2. PICK n \in Fails : \A m \in Fails : n <= m
    <2>1. Fails \in SUBSET Nat
      OBVIOUS
    <2> HIDE DEF Fails
    <2> QED BY <1>1, <2>1, Least
  <1>3. n # 0 /\ n - 1 \in Nat
    BY <1>2
  <1>4. n - 1 \in S
    BY <1>2, <1>3
  <1> QED BY <1>2, <1>3, <1>4

\* What the first texts of p are together.
Flattens(p, f, V) ==
    f \in [0..Len(p) -> Seq(V)] /\ f[0] = <<>> /\ \A n \in 1..Len(p) : f[n] = f[n - 1] \o p[n]

LEMMA FlatteningExists == ASSUME NEW V, NEW p \in Seq(Seq(V)) PROVE \E f : Flattens(p, f, V)
  <1> DEFINE N    == Len(p)
             move == [at \in Seq(V) \X Nat |-> at[1] \o (IF at[2] \in 1..N THEN p[at[2]] ELSE <<>>)]
  <1>1. N \in Nat /\ <<>> \in Seq(V) /\ \A n \in 1..N : p[n] \in Seq(V)
    OBVIOUS
  <1>2. \A s \in Seq(V), n \in Nat : move[<<s, n>>] \in Seq(V)
    BY <1>1
  <1>3. Steps(move, Seq(V))
    <2>1. \A at \in Seq(V) \X Nat : move[at] \in Seq(V)
      BY <1>1
    <2> QED BY <2>1 DEF Steps
  <1>4. PICK f : Builds(f, Seq(V), <<>>, move, N)
    <2> HIDE DEF move, N
    <2> QED BY <1>1, <1>3, BuiltTo
  <1>5. f \in [0..N -> Seq(V)] /\ f[0] = <<>> /\ \A n \in 1..N : f[n] = move[<<f[n - 1], n>>]
    BY <1>4 DEF Builds
  <1>6. ASSUME NEW n \in 1..N PROVE f[n] = f[n - 1] \o p[n]
    <2>1. n \in Nat /\ n - 1 \in 0..N
      BY <1>1
    <2>2. f[n - 1] \in Seq(V)
      BY <1>5, <2>1
    <2>3. move[<<f[n - 1], n>>] = f[n - 1] \o p[n]
      BY <2>1, <2>2
    <2> QED BY <1>5, <2>3
  <1> HIDE DEF move
  <1> QED BY <1>5, <1>6 DEF Flattens

FlatUpTo(p) == CHOOSE f : f = [i \in 1..Len(p) |-> IF i = 1 THEN p[i] ELSE f[i - 1] \o p[i]]

LEMMA FlattenIs ==
  ASSUME NEW V, NEW p \in Seq(Seq(V)), NEW f, Flattens(p, f, V) PROVE FlattenSeq(p) = f[Len(p)]
  <1> DEFINE N == Len(p)
  <1>1. /\ N \in Nat /\ \A n \in 1..N : p[n] \in Seq(V)
        /\ f \in [0..N -> Seq(V)] /\ f[0] = <<>> /\ \A n \in 1..N : f[n] = f[n - 1] \o p[n]
    <2>1. N \in Nat /\ \A n \in 1..N : p[n] \in Seq(V)
      OBVIOUS
    <2>2. f \in [0..N -> Seq(V)] /\ f[0] = <<>> /\ \A n \in 1..N : f[n] = f[n - 1] \o p[n]
      BY DEF Flattens
    <2> HIDE DEF N
    <2> QED BY <2>1, <2>2
  <1>2. CASE N = 0
    <2>1. p = <<>> /\ FlattenSeq(p) = p
      BY <1>2 DEF FlattenSeq
    <2> QED BY <1>1, <1>2, <2>1
  <1>3. CASE N # 0
    <2> DEFINE g == [i \in 1..N |-> f[i]]
    <2>1. ASSUME NEW i \in 1..N PROVE g[i] = IF i = 1 THEN p[i] ELSE g[i - 1] \o p[i]
      <3>1. CASE i = 1
        <4>1. 1 \in 1..N /\ 1 - 1 = 0
          BY <3>1
        <4>2. f[1] = f[0] \o p[1] /\ p[1] \in Seq(V)
          BY ONLY <1>1, <4>1
        <4>3. <<>> \o p[1] = p[1]
          BY <4>2, ConcatEmptySeq
        <4> QED BY <1>1, <3>1, <4>1, <4>2, <4>3
      <3>2. CASE i # 1
        <4>1. i - 1 \in 1..N
          BY <1>1, <3>2
        <4>2. f[i] = f[i - 1] \o p[i]
          BY ONLY <1>1, i \in 1..N
        <4> QED BY <3>2, <4>1, <4>2
      <3> QED BY <3>1, <3>2
    <2>2. g = [i \in 1..N |-> IF i = 1 THEN p[i] ELSE g[i - 1] \o p[i]]
      <3>1. g = [i \in 1..N |-> g[i]]
        OBVIOUS
      <3> HIDE DEF g
      <3> QED BY <2>1, <3>1
    <2> HIDE DEF g
    <2>3. FlatUpTo(p) = [i \in 1..N |-> IF i = 1 THEN p[i] ELSE FlatUpTo(p)[i - 1] \o p[i]]
      BY <2>2 DEF FlatUpTo
    <2> DEFINE S == {n \in Nat : n + 1 \in 1..N => FlatUpTo(p)[n + 1] = f[n + 1]}
    <2>4. 0 \in S
      <3>1. f[1] = p[1]
        <4>1. 1 \in 1..N /\ 1 - 1 = 0
          BY <1>1, <1>3
        <4>2. f[1] = f[0] \o p[1] /\ p[1] \in Seq(V)
          BY ONLY <1>1, <4>1
        <4>3. <<>> \o p[1] = p[1]
          BY <4>2, ConcatEmptySeq
        <4> QED BY <1>1, <4>2, <4>3
      <3>2. FlatUpTo(p)[1] = p[1]
        BY <1>1, <1>3, <2>3
      <3> QED BY <3>1, <3>2
    <2>5. ASSUME NEW n \in Nat, n \in S PROVE n + 1 \in S
      <3> SUFFICES ASSUME (n + 1) + 1 \in 1..N PROVE FlatUpTo(p)[(n + 1) + 1] = f[(n + 1) + 1]
        OBVIOUS
      <3>1. n + 1 \in 1..N /\ ((n + 1) + 1) - 1 = n + 1 /\ (n + 1) + 1 # 1
        BY <1>1
      <3>2. FlatUpTo(p)[n + 1] = f[n + 1]
        BY <2>5, <3>1
      <3>3. f[(n + 1) + 1] = f[n + 1] \o p[(n + 1) + 1]
        BY <1>1, <3>1
      <3>4. FlatUpTo(p)[(n + 1) + 1] = FlatUpTo(p)[n + 1] \o p[(n + 1) + 1]
        BY <2>3, <3>1
      <3> QED BY <3>2, <3>3, <3>4
    <2>6. \A n \in Nat : n \in S
      <3> HIDE DEF S
      <3> QED BY <2>4, <2>5, FromZero
    <2>7. FlatUpTo(p)[N] = f[N]
      <3>1. N - 1 \in Nat /\ (N - 1) + 1 = N /\ N \in 1..N
        BY <1>1, <1>3
      <3> QED BY <2>6, <3>1
    <2>8. FlattenSeq(p) = FlatUpTo(p)[N]
      BY <1>3 DEF FlattenSeq, FlatUpTo
    <2> QED BY <2>7, <2>8
  <1> QED BY <1>2, <1>3

LEMMA FlattenOfNone == FlattenSeq(<<>>) = <<>>
  BY DEF FlattenSeq

LEMMA FlattenType == ASSUME NEW V, NEW p \in Seq(Seq(V)) PROVE FlattenSeq(p) \in Seq(V)
  <1>1. PICK f : Flattens(p, f, V)
    BY FlatteningExists
  <1>2. FlattenSeq(p) = f[Len(p)]
    BY <1>1, FlattenIs
  <1>3. Len(p) \in 0..Len(p)
    OBVIOUS
  <1> QED BY <1>1, <1>2, <1>3 DEF Flattens

LEMMA BySnoc ==
  ASSUME NEW V, NEW S, <<>> \in S, \A p \in Seq(V) : p \in S => \A t \in V : Append(p, t) \in S
  PROVE  \A p \in Seq(V) : p \in S
  <1> DEFINE T == {n \in Nat : \A p \in Seq(V) : Len(p) = n => p \in S}
  <1>1. 0 \in T
    <2>1. \A p \in Seq(V) : Len(p) = 0 => p = <<>>
      OBVIOUS
    <2> QED BY <2>1
  <1>2. ASSUME NEW n \in Nat, n \in T PROVE n + 1 \in T
    <2> SUFFICES ASSUME NEW p \in Seq(V), Len(p) = n + 1 PROVE p \in S
      OBVIOUS
    <2> DEFINE q == SubSeq(p, 1, n)
               t == p[n + 1]
    <2>1. q \in Seq(V) /\ Len(q) = n /\ t \in V /\ p = Append(q, t)
      OBVIOUS
    <2>2. q \in S
      BY <1>2, <2>1
    <2> HIDE DEF q, t
    <2> QED BY <2>1, <2>2
  <1>3. \A n \in Nat : n \in T
    <2> HIDE DEF T
    <2> QED BY <1>1, <1>2, FromZero
  <1> QED BY <1>3

LEMMA FlattenAppend ==
  ASSUME NEW V, NEW p \in Seq(Seq(V)), NEW t \in Seq(V)
  PROVE  FlattenSeq(Append(p, t)) = FlattenSeq(p) \o t
  <1> DEFINE N == Len(p)
             q == Append(p, t)
  <1>1. PICK f : Flattens(p, f, V)
    BY FlatteningExists
  <1>2. /\ N \in Nat /\ q \in Seq(Seq(V)) /\ Len(q) = N + 1 /\ q[N + 1] = t
        /\ \A n \in 1..N : q[n] = p[n]
    OBVIOUS
  <1>3. f \in [0..N -> Seq(V)] /\ f[0] = <<>> /\ \A n \in 1..N : f[n] = f[n - 1] \o p[n]
    BY <1>1 DEF Flattens
  <1> DEFINE last == f[N] \o t
             g    == [i \in 0..(N + 1) |-> IF i = N + 1 THEN last ELSE f[i]]
  <1>4. last \in Seq(V)
    <2>1. f[N] \in Seq(V)
      BY <1>2, <1>3
    <2> HIDE DEF N
    <2> QED BY <2>1
  <1> HIDE DEF last
  <1>5. g \in [0..(N + 1) -> Seq(V)] /\ g[0] = <<>>
    BY <1>2, <1>3, <1>4
  <1>6. ASSUME NEW n \in 1..(N + 1) PROVE g[n] = g[n - 1] \o q[n]
    <2>1. CASE n = N + 1
      <3>1. g[n] = last /\ g[n - 1] = f[N] /\ q[n] = t
        BY <1>2, <2>1
      <3> QED BY <3>1 DEF last
    <2>2. CASE n # N + 1
      <3>1. n \in 1..N /\ n - 1 \in 0..(N + 1) /\ n \in 0..(N + 1) /\ n - 1 # N + 1
        BY <1>2, <2>2
      <3>2. g[n] = f[n] /\ g[n - 1] = f[n - 1]
        BY <2>2, <3>1
      <3>3. q[n] = p[n]
        BY <1>2, <3>1
      <3> HIDE DEF g, q
      <3> QED BY <1>3, <3>1, <3>2, <3>3
    <2> QED BY <2>1, <2>2
  <1> HIDE DEF g, q, N
  <1>7. Flattens(q, g, V)
    BY <1>2, <1>5, <1>6 DEF Flattens
  <1>8. FlattenSeq(q) = g[N + 1]
    BY <1>2, <1>7, FlattenIs
  <1>9. FlattenSeq(p) = f[N]
    BY <1>1, FlattenIs DEF N
  <1>10. g[N + 1] = last
    BY <1>2 DEF g
  <1> QED BY <1>8, <1>9, <1>10 DEF q, last

LEMMA FlattenJoins ==
  ASSUME NEW V, NEW p \in Seq(Seq(V)), NEW q \in Seq(Seq(V))
  PROVE  FlattenSeq(p \o q) = FlattenSeq(p) \o FlattenSeq(q)
  <1> DEFINE S == {r \in Seq(Seq(V)) : FlattenSeq(p \o r) = FlattenSeq(p) \o FlattenSeq(r)}
  <1>1. <<>> \in S
    <2>1. FlattenSeq(p) \in Seq(V)
      BY FlattenType
    <2>2. p \o <<>> = p
      BY ConcatEmptySeq
    <2>3. FlattenSeq(p) \o <<>> = FlattenSeq(p)
      BY <2>1, ConcatEmptySeq
    <2>4. <<>> \in Seq(Seq(V))
      OBVIOUS
    <2> QED BY <2>2, <2>3, <2>4, FlattenOfNone
  <1>2. ASSUME NEW r \in Seq(Seq(V)), r \in S, NEW t \in Seq(V) PROVE Append(r, t) \in S
    <2>1. p \o Append(r, t) = Append(p \o r, t) /\ p \o r \in Seq(Seq(V)) /\ Append(r, t) \in Seq(Seq(V))
      OBVIOUS
    <2>2. FlattenSeq(Append(p \o r, t)) = FlattenSeq(p \o r) \o t
      BY <2>1, FlattenAppend
    <2>3. FlattenSeq(Append(r, t)) = FlattenSeq(r) \o t
      BY FlattenAppend
    <2>4. FlattenSeq(p) \in Seq(V) /\ FlattenSeq(r) \in Seq(V)
      BY FlattenType
    <2>5. (FlattenSeq(p) \o FlattenSeq(r)) \o t = FlattenSeq(p) \o (FlattenSeq(r) \o t)
      BY <2>4, ConcatAssociative
    <2> QED BY <1>2, <2>1, <2>2, <2>3, <2>5
  <1>3. \A r \in Seq(Seq(V)) : r \in S
    <2> HIDE DEF S
    <2> QED BY <1>1, <1>2, BySnoc
  <1> QED BY <1>3

\* Only what was put in comes out.
LEMMA FlattenRange ==
  ASSUME NEW V, NEW p \in Seq(Seq(V))
  PROVE  Range(FlattenSeq(p)) = UNION {Range(p[n]) : n \in DOMAIN p}
  <1> DEFINE S == {r \in Seq(Seq(V)) : Range(FlattenSeq(r)) = UNION {Range(r[n]) : n \in DOMAIN r}}
  <1>1. <<>> \in S
    <2>1. <<>> \in Seq(Seq(V)) /\ DOMAIN <<>> = {}
      OBVIOUS
    <2>2. Range(<<>>) = {}
      BY <2>1 DEF Range
    <2> QED BY <2>1, <2>2, FlattenOfNone
  <1>2. ASSUME NEW r \in Seq(Seq(V)), r \in S, NEW t \in Seq(V) PROVE Append(r, t) \in S
    <2>1. FlattenSeq(Append(r, t)) = FlattenSeq(r) \o t /\ FlattenSeq(r) \in Seq(V)
      BY FlattenAppend, FlattenType
    <2>2. Range(FlattenSeq(r) \o t) = Range(FlattenSeq(r)) \cup Range(t)
      BY <2>1, RangeConcatenation
    <2> DEFINE q == Append(r, t)
               N == Len(r)
    <2>3. /\ DOMAIN r = 1..N /\ DOMAIN q = (1..N) \cup {N + 1} /\ q \in Seq(Seq(V))
          /\ q[N + 1] = t /\ \A n \in 1..N : q[n] = r[n]
      OBVIOUS
    <2> HIDE DEF q, N
    <2>4. UNION {Range(q[n]) : n \in DOMAIN q} = (UNION {Range(r[n]) : n \in DOMAIN r}) \cup Range(t)
      BY <2>3
    <2>5. Range(FlattenSeq(r)) = UNION {Range(r[n]) : n \in DOMAIN r}
      BY <1>2
    <2>6. Range(FlattenSeq(q)) = UNION {Range(q[n]) : n \in DOMAIN q}
      BY <2>1, <2>2, <2>4, <2>5 DEF q
    <2> QED BY <2>3, <2>6 DEF q
  <1>3. \A r \in Seq(Seq(V)) : r \in S
    <2> HIDE DEF S
    <2> QED BY <1>1, <1>2, BySnoc
  <1> QED BY <1>3

-----------------------------------------------------------------------------
(* Folding: what of a text is of messages.                                 *)

Chars == [of : SUBSET Nat, at : Nat]
Marks(text) == [n \in DOMAIN text |-> IF text[n].of = {} THEN <<>> ELSE <<text[n]>>]
Marked(c)   == IF c.of = {} THEN <<>> ELSE <<c>>
AllSpoken(texts) == [n \in DOMAIN texts |-> Spoken(texts[n])]

LEMMA MarkedType == ASSUME NEW c \in Chars PROVE Marked(c) \in Seq(Chars)
  BY DEF Marked

LEMMA MarksAre ==
  ASSUME NEW text \in Seq(Chars)
  PROVE  /\ Marks(text) \in Seq(Seq(Chars)) /\ Len(Marks(text)) = Len(text)
         /\ \A n \in 1..Len(text) : Marks(text)[n] = Marked(text[n])
  <1> DEFINE L == Len(text)
  <1>1. L \in Nat /\ DOMAIN text = 1..L /\ \A n \in 1..L : text[n] \in Chars
    OBVIOUS
  <1>2. Marks(text) = [n \in 1..L |-> Marked(text[n])]
    BY <1>1 DEF Marks, Marked
  <1>3. \A n \in 1..L : Marked(text[n]) \in Seq(Chars)
    BY <1>1, MarkedType
  <1> HIDE DEF L
  <1> QED BY <1>1, <1>2, <1>3 DEF L

LEMMA SpokenType == ASSUME NEW text \in Seq(Chars) PROVE Spoken(text) \in Seq(Chars)
  <1>1. Marks(text) \in Seq(Seq(Chars))
    BY MarksAre
  <1> QED BY <1>1, FlattenType DEF Spoken, Marks

LEMMA SpokenOfNone == Spoken(<<>>) = <<>>
  <1>1. Marks(<<>>) = <<>>
    BY DEF Marks
  <1> QED BY <1>1, FlattenOfNone DEF Spoken, Marks

LEMMA SpokenAppend ==
  ASSUME NEW text \in Seq(Chars), NEW c \in Chars PROVE Spoken(Append(text, c)) = Spoken(text) \o Marked(c)
  <1> DEFINE L == Len(text)
             t == Append(text, c)
  <1>1. /\ L \in Nat /\ t \in Seq(Chars) /\ Len(t) = L + 1 /\ t[L + 1] = c
        /\ \A n \in 1..L : t[n] = text[n]
    OBVIOUS
  <1>2. /\ Marks(text) \in Seq(Seq(Chars)) /\ Len(Marks(text)) = L
        /\ \A n \in 1..L : Marks(text)[n] = Marked(text[n])
    BY MarksAre
  <1>3. /\ Marks(t) \in Seq(Seq(Chars)) /\ Len(Marks(t)) = L + 1
        /\ \A n \in 1..(L + 1) : Marks(t)[n] = Marked(t[n])
    <2> HIDE DEF t
    <2> QED BY <1>1, MarksAre
  <1>4. Marked(c) \in Seq(Chars)
    BY MarkedType
  <1> HIDE DEF L, t
  <1> DEFINE a == Marks(text)
             b == Marks(t)
             m == Marked(c)
  <1>5. \A n \in 1..L : b[n] = a[n]
    BY <1>1, <1>2, <1>3
  <1>6. b[L + 1] = m
    BY <1>1, <1>3
  <1> HIDE DEF a, b, m
  <1>7. b = Append(a, m)
    <2>1. a \in Seq(Seq(Chars)) /\ b \in Seq(Seq(Chars)) /\ Len(a) = L /\ Len(b) = L + 1 /\ m \in Seq(Chars) /\ L \in Nat
      BY <1>1, <1>2, <1>3, <1>4 DEF a, b, m
    <2> QED BY ONLY <1>5, <1>6, <2>1
  <1>8. FlattenSeq(b) = FlattenSeq(a) \o m
    BY <1>2, <1>4, <1>7, FlattenAppend DEF a, m
  <1> QED BY <1>8 DEF Spoken, Marks, a, b, m, t

LEMMA SpokenJoins ==
  ASSUME NEW s \in Seq(Chars), NEW t \in Seq(Chars) PROVE Spoken(s \o t) = Spoken(s) \o Spoken(t)
  <1> DEFINE S == {r \in Seq(Chars) : Spoken(s \o r) = Spoken(s) \o Spoken(r)}
  <1>1. <<>> \in S
    <2>1. Spoken(s) \in Seq(Chars) /\ s \o <<>> = s /\ <<>> \in Seq(Chars)
      BY SpokenType, ConcatEmptySeq
    <2>2. Spoken(s) \o <<>> = Spoken(s)
      BY <2>1, ConcatEmptySeq
    <2> QED BY <2>1, <2>2, SpokenOfNone
  <1>2. ASSUME NEW r \in Seq(Chars), r \in S, NEW c \in Chars PROVE Append(r, c) \in S
    <2>1. s \o Append(r, c) = Append(s \o r, c) /\ s \o r \in Seq(Chars) /\ Append(r, c) \in Seq(Chars)
      OBVIOUS
    <2>2. Spoken(Append(s \o r, c)) = Spoken(s \o r) \o Marked(c)
      BY <2>1, SpokenAppend
    <2>3. Spoken(Append(r, c)) = Spoken(r) \o Marked(c)
      BY SpokenAppend
    <2>4. Spoken(s) \in Seq(Chars) /\ Spoken(r) \in Seq(Chars) /\ Marked(c) \in Seq(Chars)
      BY SpokenType, MarkedType
    <2>5. (Spoken(s) \o Spoken(r)) \o Marked(c) = Spoken(s) \o (Spoken(r) \o Marked(c))
      BY <2>4, ConcatAssociative
    <2>6. Spoken(s \o r) = Spoken(s) \o Spoken(r)
      BY <1>2
    <2>7. Spoken(s \o Append(r, c)) = Spoken(s) \o Spoken(Append(r, c))
      BY ONLY <2>1, <2>2, <2>3, <2>5, <2>6
    <2> QED BY <2>1, <2>7
  <1>3. \A r \in Seq(Chars) : r \in S
    <2> HIDE DEF S
    <2> QED BY <1>1, <1>2, BySnoc
  <1> QED BY <1>3

LEMMA NothingSpoken == ASSUME NEW n \in Nat PROVE Spoken(Text({}, n)) = <<>>
  <1> DEFINE S == {k \in Nat : Spoken(Text({}, k)) = <<>>}
  <1>1. 0 \in S
    <2>1. Text({}, 0) = <<>>
      BY DEF Text
    <2> QED BY <2>1, SpokenOfNone
  <1>2. ASSUME NEW k \in Nat, k \in S PROVE k + 1 \in S
    <2> DEFINE c == [of |-> {}, at |-> k + 1]
    <2>1. c \in Chars /\ Marked(c) = <<>>
      BY DEF Chars, Marked
    <2>2. Text({}, k) \in Seq(Chars)
      <3>1. \A i \in 1..k : [of |-> {}, at |-> i] \in Chars
        BY DEF Chars
      <3> QED BY <3>1 DEF Text
    <2>3. Text({}, k + 1) = Append(Text({}, k), c)
      BY DEF Text
    <2> HIDE DEF c
    <2>4. Spoken(Text({}, k + 1)) = <<>> \o <<>>
      BY <1>2, <2>1, <2>2, <2>3, SpokenAppend
    <2> QED BY <2>4
  <1>3. \A k \in Nat : k \in S
    <2> HIDE DEF S
    <2> QED BY <1>1, <1>2, FromZero
  <1> QED BY <1>3

LEMMA AllSpokenAre ==
  ASSUME NEW texts \in Seq(Seq(Chars))
  PROVE  /\ AllSpoken(texts) \in Seq(Seq(Chars)) /\ Len(AllSpoken(texts)) = Len(texts)
         /\ \A n \in 1..Len(texts) : AllSpoken(texts)[n] = Spoken(texts[n])
         /\ Read(texts) = FlattenSeq(AllSpoken(texts)) /\ Read(texts) \in Seq(Chars)
  <1> DEFINE L == Len(texts)
  <1>1. L \in Nat /\ DOMAIN texts = 1..L /\ \A n \in 1..L : texts[n] \in Seq(Chars)
    OBVIOUS
  <1>2. AllSpoken(texts) = [n \in 1..L |-> Spoken(texts[n])]
    BY <1>1 DEF AllSpoken
  <1>3. \A n \in 1..L : Spoken(texts[n]) \in Seq(Chars)
    BY <1>1, SpokenType
  <1> HIDE DEF L
  <1>4. /\ AllSpoken(texts) \in Seq(Seq(Chars)) /\ Len(AllSpoken(texts)) = L
        /\ \A n \in 1..L : AllSpoken(texts)[n] = Spoken(texts[n])
    BY <1>1, <1>2, <1>3
  <1>5. Read(texts) = FlattenSeq(AllSpoken(texts))
    BY DEF Read, AllSpoken
  <1>6. FlattenSeq(AllSpoken(texts)) \in Seq(Chars)
    BY <1>4, FlattenType
  <1> QED BY <1>4, <1>5, <1>6 DEF L

LEMMA ReadOfNone == Read(<<>>) = <<>>
  <1>1. AllSpoken(<<>>) = <<>>
    BY DEF AllSpoken
  <1> QED BY <1>1, FlattenOfNone DEF Read, AllSpoken

LEMMA ReadAppend ==
  ASSUME NEW texts \in Seq(Seq(Chars)), NEW t \in Seq(Chars) PROVE Read(Append(texts, t)) = Read(texts) \o Spoken(t)
  <1> DEFINE L == Len(texts)
             q == Append(texts, t)
  <1>1. /\ L \in Nat /\ q \in Seq(Seq(Chars)) /\ Len(q) = L + 1 /\ q[L + 1] = t
        /\ \A n \in 1..L : q[n] = texts[n]
    OBVIOUS
  <1>2. /\ AllSpoken(texts) \in Seq(Seq(Chars)) /\ Len(AllSpoken(texts)) = L
        /\ \A n \in 1..L : AllSpoken(texts)[n] = Spoken(texts[n])
        /\ Read(texts) = FlattenSeq(AllSpoken(texts))
    BY AllSpokenAre
  <1>3. /\ AllSpoken(q) \in Seq(Seq(Chars)) /\ Len(AllSpoken(q)) = L + 1
        /\ \A n \in 1..(L + 1) : AllSpoken(q)[n] = Spoken(q[n])
        /\ Read(q) = FlattenSeq(AllSpoken(q))
    <2> HIDE DEF q
    <2> QED BY <1>1, AllSpokenAre
  <1>4. Spoken(t) \in Seq(Chars)
    BY SpokenType
  <1> HIDE DEF L, q
  <1> DEFINE a == AllSpoken(texts)
             b == AllSpoken(q)
             m == Spoken(t)
  <1>5. \A n \in 1..L : b[n] = a[n]
    BY <1>1, <1>2, <1>3
  <1>6. b[L + 1] = m
    BY <1>1, <1>3
  <1> HIDE DEF a, b, m
  <1>7. b = Append(a, m)
    <2>1. a \in Seq(Seq(Chars)) /\ b \in Seq(Seq(Chars)) /\ Len(a) = L /\ Len(b) = L + 1 /\ m \in Seq(Chars) /\ L \in Nat
      BY <1>1, <1>2, <1>3, <1>4 DEF a, b, m
    <2> QED BY ONLY <1>5, <1>6, <2>1
  <1>8. FlattenSeq(b) = FlattenSeq(a) \o m
    BY <1>2, <1>4, <1>7, FlattenAppend DEF a, m
  <1> QED BY <1>2, <1>3, <1>8 DEF a, b, m, q

LEMMA ReadJoins ==
  ASSUME NEW p \in Seq(Seq(Chars)), NEW q \in Seq(Seq(Chars)) PROVE Read(p \o q) = Read(p) \o Read(q)
  <1> DEFINE S == {r \in Seq(Seq(Chars)) : Read(p \o r) = Read(p) \o Read(r)}
  <1>1. <<>> \in S
    <2>1. Read(p) \in Seq(Chars) /\ p \o <<>> = p /\ <<>> \in Seq(Seq(Chars))
      BY AllSpokenAre, ConcatEmptySeq
    <2>2. Read(p) \o <<>> = Read(p)
      BY <2>1, ConcatEmptySeq
    <2> QED BY <2>1, <2>2, ReadOfNone
  <1>2. ASSUME NEW r \in Seq(Seq(Chars)), r \in S, NEW t \in Seq(Chars) PROVE Append(r, t) \in S
    <2>1. p \o Append(r, t) = Append(p \o r, t) /\ p \o r \in Seq(Seq(Chars)) /\ Append(r, t) \in Seq(Seq(Chars))
      OBVIOUS
    <2>2. Read(Append(p \o r, t)) = Read(p \o r) \o Spoken(t)
      BY <2>1, ReadAppend
    <2>3. Read(Append(r, t)) = Read(r) \o Spoken(t)
      BY ReadAppend
    <2>4. Read(p) \in Seq(Chars) /\ Read(r) \in Seq(Chars) /\ Spoken(t) \in Seq(Chars)
      BY AllSpokenAre, SpokenType
    <2>5. (Read(p) \o Read(r)) \o Spoken(t) = Read(p) \o (Read(r) \o Spoken(t))
      BY <2>4, ConcatAssociative
    <2>6. Read(p \o r) = Read(p) \o Read(r)
      BY <1>2
    <2>7. Read(p \o Append(r, t)) = Read(p) \o Read(Append(r, t))
      BY ONLY <2>1, <2>2, <2>3, <2>5, <2>6
    <2> QED BY <2>1, <2>7
  <1>3. \A r \in Seq(Seq(Chars)) : r \in S
    <2> HIDE DEF S
    <2> QED BY <1>1, <1>2, BySnoc
  <1> QED BY <1>3

\* Whether texts are read one by one or put together first.
LEMMA SpokenOfAll == ASSUME NEW p \in Seq(Seq(Chars)) PROVE Spoken(FlattenSeq(p)) = Read(p)
  <1> DEFINE S == {r \in Seq(Seq(Chars)) : Spoken(FlattenSeq(r)) = Read(r)}
  <1>1. <<>> \in S
    <2>1. <<>> \in Seq(Seq(Chars))
      OBVIOUS
    <2> QED BY <2>1, FlattenOfNone, SpokenOfNone, ReadOfNone
  <1>2. ASSUME NEW r \in Seq(Seq(Chars)), r \in S, NEW t \in Seq(Chars) PROVE Append(r, t) \in S
    <2>1. Append(r, t) \in Seq(Seq(Chars)) /\ FlattenSeq(r) \in Seq(Chars)
      BY FlattenType
    <2>2. FlattenSeq(Append(r, t)) = FlattenSeq(r) \o t
      BY FlattenAppend
    <2>3. Spoken(FlattenSeq(r) \o t) = Spoken(FlattenSeq(r)) \o Spoken(t)
      BY <2>1, SpokenJoins
    <2>4. Read(Append(r, t)) = Read(r) \o Spoken(t)
      BY ReadAppend
    <2>5. Spoken(FlattenSeq(r)) = Read(r)
      BY <1>2
    <2> QED BY <2>1, <2>2, <2>3, <2>4, <2>5
  <1>3. \A r \in Seq(Seq(Chars)) : r \in S
    <2> HIDE DEF S
    <2> QED BY <1>1, <1>2, BySnoc
  <1> QED BY <1>3

LEMMA GapIs == Gap \in Seq(Chars) /\ Spoken(Gap) = <<>>
  <1>1. Separator \in Nat
    BY FoldAssumption
  <1>2. \A i \in 1..Separator : [of |-> {}, at |-> i] \in Chars
    BY <1>1 DEF Chars
  <1>3. Gap \in Seq(Chars)
    BY <1>1, <1>2 DEF Gap, Text
  <1> QED BY <1>1, <1>3, NothingSpoken DEF Gap

\* What stands between the texts says nothing.
LEMMA JoinIs ==
  ASSUME NEW texts \in Seq(Seq(Chars)) PROVE Join(texts) \in Seq(Chars) /\ Spoken(Join(texts)) = Read(texts)
  <1> DEFINE L == Len(texts)
             q == [n \in 1..L |-> IF n = 1 THEN texts[n] ELSE Gap \o texts[n]]
  <1>1. L \in Nat /\ DOMAIN texts = 1..L /\ \A n \in 1..L : texts[n] \in Seq(Chars)
    OBVIOUS
  <1>2. Join(texts) = FlattenSeq(q)
    BY <1>1 DEF Join
  <1>3. ASSUME NEW n \in 1..L PROVE q[n] \in Seq(Chars) /\ Spoken(q[n]) = Spoken(texts[n])
    <2>1. texts[n] \in Seq(Chars)
      BY <1>1
    <2>2. Gap \o texts[n] \in Seq(Chars)
      BY <2>1, GapIs
    <2>3. Spoken(Gap \o texts[n]) = <<>> \o Spoken(texts[n])
      BY <2>1, GapIs, SpokenJoins
    <2>4. <<>> \o Spoken(texts[n]) = Spoken(texts[n])
      BY <2>1, SpokenType, ConcatEmptySeq
    <2>5. q[n] = texts[n] \/ q[n] = Gap \o texts[n]
      OBVIOUS
    <2> HIDE DEF q
    <2> QED BY <2>1, <2>2, <2>3, <2>4, <2>5
  <1>4. q \in Seq(Seq(Chars)) /\ Len(q) = L
    <2>1. q = [n \in 1..L |-> q[n]] /\ L \in Nat
      OBVIOUS
    <2> HIDE DEF q, L
    <2>2. \A n \in 1..L : q[n] \in Seq(Chars)
      BY <1>3
    <2> QED BY ONLY <2>1, <2>2
  <1>5. AllSpoken(q) = AllSpoken(texts)
    <2>1. DOMAIN q = 1..L
      OBVIOUS
    <2> HIDE DEF q, L
    <2> QED BY <1>1, <1>3, <2>1 DEF AllSpoken
  <1> HIDE DEF q
  <1>6. Spoken(FlattenSeq(q)) = Read(q) /\ FlattenSeq(q) \in Seq(Chars)
    BY <1>4, SpokenOfAll, FlattenType
  <1>7. Read(q) = Read(texts)
    BY <1>5 DEF Read, AllSpoken
  <1> QED BY <1>2, <1>6, <1>7

-----------------------------------------------------------------------------
(* Folding: what a text is cut into.                                       *)

LEMMA MaxWithOne == ASSUME NEW a \in Nat PROVE Max({a, 1}) = IF a >= 1 THEN a ELSE 1
  <1>1. CASE a >= 1
    <2>1. \A x \in {a, 1} : (\A y \in {a, 1} : x >= y) => x = a
      BY <1>1
    <2>2. \A y \in {a, 1} : a >= y
      BY <1>1
    <2>3. Max({a, 1}) = a
      BY <2>1, <2>2 DEF Max
    <2> QED BY <1>1, <2>3
  <1>2. CASE ~(a >= 1)
    <2>1. \A x \in {a, 1} : (\A y \in {a, 1} : x >= y) => x = 1
      BY <1>2
    <2>2. \A y \in {a, 1} : 1 >= y
      BY <1>2
    <2>3. Max({a, 1}) = 1
      BY <2>1, <2>2 DEF Max
    <2> QED BY <1>2, <2>3
  <1> QED BY <1>1, <1>2

LEMMA Quotient ==
  ASSUME NEW a \in Nat, NEW r \in Nat, r # 0
  PROVE  a \div r \in Nat /\ (a \div r) * r <= a /\ a < (a \div r) * r + r
  OBVIOUS

\* A part is as long as the context allows, by the estimate.
LEMMA PartFits ==
  /\ PartSize \in Nat \ {0}
  /\ \A n \in Nat : Tokens(n) \in Nat /\ (n <= PartSize => Tokens(n) <= Budget)
  <1> DEFINE C == CharsPerToken
             P == PartSize
  <1>1. Budget \in Nat /\ Budget >= 1 /\ C \in Nat /\ C >= 2
    BY FoldAssumption
  <1>2. (Budget - 1) * C \in Nat
    BY <1>1
  <1>3. P = IF (Budget - 1) * C >= 1 THEN (Budget - 1) * C ELSE 1
    <2> HIDE DEF C
    <2>1. P = Max({(Budget - 1) * C, 1})
      BY DEF PartSize, C
    <2> HIDE DEF P
    <2> DEFINE a == (Budget - 1) * C
    <2>2. a \in Nat /\ P = Max({a, 1})
      BY <1>2, <2>1
    <2> HIDE DEF a
    <2>3. P = IF a >= 1 THEN a ELSE 1
      BY <2>2, MaxWithOne
    <2> QED BY <2>3 DEF a
  <1>4. P \in Nat \ {0}
    <2> HIDE DEF P, C
    <2> QED BY <1>2, <1>3
  <1> HIDE DEF P, C
  <1>5. ASSUME NEW n \in Nat PROVE Tokens(n) \in Nat /\ (n <= P => Tokens(n) <= Budget)
    <2> DEFINE d == n \div C
    <2>1. d \in Nat /\ d * C <= n
      BY <1>1, Quotient
    <2>2. Tokens(n) = d + 1
      BY DEF Tokens, C
    <2> HIDE DEF d
    <2>3. ASSUME n <= P PROVE d <= Budget - 1
      <3>1. CASE (Budget - 1) * C >= 1
        <4>1. d * C <= (Budget - 1) * C
          BY <1>1, <1>2, <1>3, <1>4, <2>1, <2>3, <3>1
        <4>2. SUFFICES ASSUME d >= Budget PROVE FALSE
          BY <1>1, <2>1
        <4>3. d * C >= Budget * C
          BY <1>1, <2>1, <4>2
        <4>4. Budget * C = (Budget - 1) * C + C
          BY <1>1
        <4> QED BY <1>1, <1>2, <2>1, <4>1, <4>3, <4>4
      <3>2. CASE ~((Budget - 1) * C >= 1)
        <4>1. d * C <= 1
          <5>1. P = 1
            BY <1>3, <3>2
          <5> DEFINE e == d * C
          <5>2. e \in Nat /\ e <= n
            BY <1>1, <2>1
          <5> HIDE DEF e
          <5>3. e <= 1
            BY <2>3, <5>1, <5>2
          <5> QED BY <5>3 DEF e
        <4>2. SUFFICES ASSUME d >= 1 PROVE FALSE
          BY <1>1, <2>1
        <4>3. d * C >= C
          BY <1>1, <2>1, <4>2
        <4> QED BY <1>1, <2>1, <4>1, <4>3
      <3> QED BY <3>1, <3>2
    <2> QED BY <1>1, <2>1, <2>2, <2>3
  <1> QED BY <1>4, <1>5 DEF P

\* Where the n-th part ends.
EndOf(n, size, length) == IF n * size <= length THEN n * size ELSE length
CutAt(text, size, count) ==
    [n \in 1..count |-> SubSeq(text, (n - 1) * size + 1, EndOf(n, size, Len(text)))]

LEMMA EndsAre ==
  ASSUME NEW size \in Nat \ {0}, NEW length \in Nat
  PROVE  LET count == (length + size - 1) \div size
         IN  /\ count \in Nat /\ EndOf(0, size, length) = 0 /\ EndOf(count, size, length) = length
             /\ \A n \in Nat : EndOf(n, size, length) \in 0..length
             /\ \A n \in Nat : n < count => /\ EndOf(n, size, length) = n * size
                                            /\ n * size <= EndOf(n + 1, size, length)
                                            /\ EndOf(n + 1, size, length) - n * size <= size
  <1> DEFINE count == (length + size - 1) \div size
             a == length + size - 1
  <1>1. a \in Nat
    OBVIOUS
  <1>2. count \in Nat /\ count * size <= a /\ a < count * size + size
    <2> HIDE DEF a
    <2>1. a \div size \in Nat /\ (a \div size) * size <= a /\ a < (a \div size) * size + size
      BY <1>1, Quotient
    <2> QED BY <2>1 DEF a
  <1> HIDE DEF count
  <1>3. \A n \in Nat : n * size \in Nat
    OBVIOUS
  <1>4. EndOf(0, size, length) = 0
    <2>1. 0 * size = 0
      OBVIOUS
    <2> QED BY <2>1 DEF EndOf
  <1>5. EndOf(count, size, length) = length
    <2>1. count * size >= length
      BY <1>2, <1>3
    <2> QED BY <1>2, <1>3, <2>1 DEF EndOf
  <1>6. \A n \in Nat : EndOf(n, size, length) \in 0..length
    BY <1>3 DEF EndOf
  <1>7. ASSUME NEW n \in Nat, n < count
        PROVE  /\ EndOf(n, size, length) = n * size
               /\ n * size <= EndOf(n + 1, size, length)
               /\ EndOf(n + 1, size, length) - n * size <= size
    <2>1. (n + 1) * size <= count * size
      BY <1>2, <1>7
    <2>2. (n + 1) * size = n * size + size
      OBVIOUS
    <2> DEFINE m == n * size
               k == count * size
    <2>3. m \in Nat /\ k \in Nat /\ k <= a /\ m + size <= k
      BY <1>2, <1>3, <2>1, <2>2
    <2>4. EndOf(n, size, length) = IF m <= length THEN m ELSE length
      BY DEF EndOf
    <2>5. EndOf(n + 1, size, length) = IF m + size <= length THEN m + size ELSE length
      BY <2>2 DEF EndOf
    <2> HIDE DEF m, k
    <2>6. m < length
      BY <2>3
    <2>7. EndOf(n, size, length) = m /\ m <= EndOf(n + 1, size, length) /\ EndOf(n + 1, size, length) - m <= size
      BY <2>3, <2>4, <2>5, <2>6
    <2> QED BY <2>7 DEF m
  <1> QED BY <1>2, <1>4, <1>5, <1>6, <1>7 DEF count

LEMMA CutsWhole ==
  ASSUME NEW text \in Seq(Chars), NEW size \in Nat \ {0}
  PROVE  LET count == (Len(text) + size - 1) \div size
             parts == CutAt(text, size, count)
         IN  /\ parts \in Seq(Seq(Chars)) /\ FlattenSeq(parts) = text
             /\ \A n \in 1..Len(parts) : Len(parts[n]) <= size
  <1> DEFINE L     == Len(text)
             count == (L + size - 1) \div size
             parts == CutAt(text, size, count)
             end(n) == EndOf(n, size, L)
  <1>1. L \in Nat
    OBVIOUS
  <1>2. /\ count \in Nat /\ end(0) = 0 /\ end(count) = L
        /\ \A n \in Nat : end(n) \in 0..L
        /\ \A n \in Nat : n < count => end(n) = n * size /\ end(n) <= end(n + 1) /\ end(n + 1) - end(n) <= size
    <2> HIDE DEF L
    <2>1. /\ count \in Nat /\ end(0) = 0 /\ end(count) = L
          /\ \A n \in Nat : end(n) \in 0..L
          /\ \A n \in Nat : n < count => /\ end(n) = n * size
                                         /\ n * size <= end(n + 1)
                                         /\ end(n + 1) - n * size <= size
      BY <1>1, EndsAre
    <2> HIDE DEF count, end
    <2> QED BY <2>1
  <1> HIDE DEF count
  <1>3. ASSUME NEW n \in 1..count PROVE parts[n] = SubSeq(text, end(n - 1) + 1, end(n))
    <2>1. n - 1 \in Nat /\ n - 1 < count
      BY <1>2
    <2>2. end(n - 1) = (n - 1) * size
      BY <1>2, <2>1
    <2>3. parts[n] = SubSeq(text, (n - 1) * size + 1, end(n))
      BY DEF CutAt
    <2> HIDE DEF parts, end
    <2> QED BY <2>2, <2>3
  <1>4. DOMAIN parts = 1..count /\ parts = [n \in 1..count |-> parts[n]]
    BY DEF CutAt
  <1> HIDE DEF parts, end
  <1>5. ASSUME NEW n \in 1..count PROVE parts[n] \in Seq(Chars) /\ Len(parts[n]) <= size
    <2>1. n - 1 \in Nat /\ n \in Nat /\ n - 1 < count /\ (n - 1) + 1 = n
      BY <1>2
    <2> DEFINE a == end(n - 1)
               b == end(n)
    <2>2. a \in 0..L /\ b \in 0..L /\ a <= b /\ b - a <= size
      BY <1>2, <2>1
    <2>3. parts[n] = SubSeq(text, a + 1, b)
      BY <1>3
    <2> HIDE DEF a, b
    <2>4. SubSeq(text, a + 1, b) \in Seq(Chars) /\ Len(SubSeq(text, a + 1, b)) = b - a
      BY <1>1, <2>2
    <2> QED BY <2>2, <2>3, <2>4
  <1>6. parts \in Seq(Seq(Chars)) /\ Len(parts) = count
    <2>1. \A n \in 1..count : parts[n] \in Seq(Chars)
      BY <1>5
    <2> QED BY ONLY <1>2, <1>4, <2>1
  <1> DEFINE S == {n \in Nat : n <= count => FlattenSeq(SubSeq(parts, 1, n)) = SubSeq(text, 1, end(n))}
  <1>7. 0 \in S
    <2>1. SubSeq(parts, 1, 0) = <<>> /\ SubSeq(text, 1, 0) = <<>>
      OBVIOUS
    <2> QED BY <1>2, <2>1, FlattenOfNone
  <1>8. ASSUME NEW n \in Nat, n \in S PROVE n + 1 \in S
    <2> SUFFICES ASSUME n + 1 <= count
                 PROVE  FlattenSeq(SubSeq(parts, 1, n + 1)) = SubSeq(text, 1, end(n + 1))
      OBVIOUS
    <2>1. FlattenSeq(SubSeq(parts, 1, n)) = SubSeq(text, 1, end(n))
      BY <1>2, <1>8
    <2>2. n + 1 \in 1..count /\ (n + 1) - 1 = n /\ n < count
      BY <1>2
    <2>3. /\ SubSeq(parts, 1, n + 1) = Append(SubSeq(parts, 1, n), parts[n + 1])
          /\ SubSeq(parts, 1, n) \in Seq(Seq(Chars)) /\ parts[n + 1] \in Seq(Chars)
      BY <1>5, <1>6, <2>2
    <2> DEFINE a == end(n)
               b == end(n + 1)
    <2>4. a \in 0..L /\ b \in a..L
      <3>1. a \in 0..L
        BY <1>2
      <3>2. b \in 0..L
        <4>1. n + 1 \in Nat
          OBVIOUS
        <4> QED BY <1>2, <4>1
      <3>3. a <= b
        BY <1>2, <2>2
      <3> HIDE DEF a, b, L
      <3> QED BY <1>1, <3>1, <3>2, <3>3
    <2>5. parts[n + 1] = SubSeq(text, a + 1, b)
      BY <1>3, <2>2
    <2>6. FlattenSeq(SubSeq(parts, 1, n + 1)) = SubSeq(text, 1, a) \o SubSeq(text, a + 1, b)
      BY <2>1, <2>3, <2>5, FlattenAppend
    <2> HIDE DEF a, b
    <2>7. SubSeq(text, 1, a) \o SubSeq(text, a + 1, b) = SubSeq(text, 1, b)
      <3>1. 1 \in 1..(Len(text) + 1) /\ a \in (1 - 1)..Len(text) /\ b \in a..Len(text)
        BY <1>1, <2>4
      <3> QED BY <3>1, ConcatAdjacentSubSeq
    <2> QED BY <2>6, <2>7 DEF b
  <1>9. FlattenSeq(SubSeq(parts, 1, count)) = SubSeq(text, 1, end(count))
    <2>1. \A n \in Nat : n \in S
      <3> HIDE DEF S
      <3> QED BY <1>7, <1>8, FromZero
    <2> QED BY <1>2, <2>1
  <1>10. SubSeq(parts, 1, count) = parts
    BY ONLY <1>6
  <1>11. SubSeq(text, 1, L) = text
    OBVIOUS
  <1>12. FlattenSeq(parts) = text
    BY <1>2, <1>9, <1>10, <1>11
  <1> QED BY <1>5, <1>6, <1>12 DEF parts, count

\* The parts of a text fit, and are the text.
LEMMA PiecesAre ==
  ASSUME NEW text \in Seq(Chars)
  PROVE  /\ Pieces(text) \in Seq(Seq(Chars)) /\ FlattenSeq(Pieces(text)) = text
         /\ \A n \in 1..Len(Pieces(text)) : Tokens(Len(Pieces(text)[n])) <= Budget
  <1>1. CASE Tokens(Len(text)) <= Budget
    <2>1. Pieces(text) = <<text>>
      BY <1>1 DEF Pieces
    <2>2. <<text>> \in Seq(Seq(Chars)) /\ Len(<<text>>) = 1 /\ <<text>>[1] = text /\ <<text>> = Append(<<>>, text)
      OBVIOUS
    <2>3. FlattenSeq(Append(<<>>, text)) = <<>> \o text
      <3>1. <<>> \in Seq(Seq(Chars))
        OBVIOUS
      <3> QED BY <3>1, FlattenAppend, FlattenOfNone
    <2>4. <<>> \o text = text
      BY ConcatEmptySeq
    <2> QED BY <1>1, <2>1, <2>2, <2>3, <2>4
  <1>2. CASE ~(Tokens(Len(text)) <= Budget)
    <2> DEFINE count == (Len(text) + PartSize - 1) \div PartSize
               parts == CutAt(text, PartSize, count)
    <2>1. PartSize \in Nat \ {0} /\ \A n \in Nat : n <= PartSize => Tokens(n) <= Budget
      BY PartFits
    <2>2. /\ parts \in Seq(Seq(Chars)) /\ FlattenSeq(parts) = text
          /\ \A n \in 1..Len(parts) : Len(parts[n]) <= PartSize
      BY <2>1, CutsWhole
    <2>3. Pieces(text) = parts
      <3>1. Len(text) \in Nat
        OBVIOUS
      <3> DEFINE L == Len(text)
                 P == PartSize
      <3>2. \A n \in Nat : n * P \in Nat
        BY <2>1
      <3>3. \A n \in 1..count : Min({n * P, L}) = EndOf(n, P, L)
        <4> TAKE n \in 1..count
        <4>1. n * P \in Nat
          BY <3>2
        <4> DEFINE m == n * P
        <4> HIDE DEF L, P
        <4>2. m \in Nat /\ L \in Nat
          BY <3>1, <4>1 DEF L
        <4> HIDE DEF m
        <4>3. Min({m, L}) = IF m <= L THEN m ELSE L
          BY <4>2, MinOfTwo
        <4> QED BY <4>3 DEF EndOf, m
      <3>4. Pieces(text) = [n \in 1..count |-> SubSeq(text, (n - 1) * P + 1, Min({n * P, L}))]
        BY <1>2 DEF Pieces
      <3> HIDE DEF P, L, count
      <3> QED BY <3>3, <3>4 DEF CutAt, P, L
    <2> HIDE DEF parts
    <2>4. \A n \in 1..Len(parts) : Tokens(Len(parts[n])) <= Budget
      <3> TAKE n \in 1..Len(parts)
      <3>1. parts[n] \in Seq(Chars)
        BY <2>2
      <3>2. Len(parts[n]) \in Nat /\ Len(parts[n]) <= PartSize
        BY <2>2, <3>1
      <3> QED BY <2>1, <3>2
    <2> QED BY <2>2, <2>3, <2>4
  <1> QED BY <1>1, <1>2

LEMMA PiecesRead == ASSUME NEW text \in Seq(Chars) PROVE Read(Pieces(text)) = Spoken(text)
  <1>1. Pieces(text) \in Seq(Seq(Chars)) /\ FlattenSeq(Pieces(text)) = text
    BY PiecesAre
  <1> QED BY <1>1, SpokenOfAll

-----------------------------------------------------------------------------
(* Folding: what is gathered of the messages.                              *)

Fit(texts) == \A n \in 1..Len(texts) : Tokens(Len(texts[n])) <= Budget

LEMMA FitTogether ==
  ASSUME NEW p \in Seq(Seq(Chars)), NEW q \in Seq(Seq(Chars)), Fit(p), Fit(q) PROVE Fit(p \o q)
  <1> SUFFICES ASSUME NEW n \in 1..Len(p \o q) PROVE Tokens(Len((p \o q)[n])) <= Budget
    BY DEF Fit
  <1>1. CASE n <= Len(p)
    <2>1. n \in 1..Len(p) /\ (p \o q)[n] = p[n]
      BY <1>1
    <2> QED BY <2>1 DEF Fit
  <1>2. CASE n > Len(p)
    <2>1. n - Len(p) \in 1..Len(q) /\ (p \o q)[n] = q[n - Len(p)]
      BY <1>2
    <2> QED BY <2>1 DEF Fit
  <1> QED BY <1>1, <1>2

LEMMA MessageText ==
  ASSUME messages \in Seq(MessageSizes), NEW i \in 1..Len(messages)
  PROVE  /\ Message1(i) \in Seq(Chars) /\ Len(Message1(i)) = messages[i]
         /\ messages[i] \in Nat \ {0} /\ OfWhich(Message1(i)) = {i}
  <1> DEFINE size == messages[i]
  <1>1. size \in Nat \ {0} /\ i \in Nat
    <2>1. size \in MessageSizes /\ i \in Nat
      OBVIOUS
    <2>2. MessageSizes \subseteq Nat \ {0}
      BY FoldAssumption
    <2> HIDE DEF size
    <2> QED BY <2>1, <2>2
  <1> HIDE DEF size
  <1>2. Message1(i) = [n \in 1..size |-> [of |-> {i}, at |-> n]]
    BY DEF Message1, Text, size
  <1>3. \A n \in 1..size : [of |-> {i}, at |-> n] \in Chars
    BY <1>1 DEF Chars
  <1>4. Message1(i) \in Seq(Chars) /\ Len(Message1(i)) = size
    BY <1>1, <1>2, <1>3
  <1>5. OfWhich(Message1(i)) = {i}
    <2>1. DOMAIN Message1(i) = 1..size /\ 1 \in 1..size /\ \A n \in 1..size : Message1(i)[n].of = {i}
      BY <1>1, <1>2
    <2> QED BY <2>1 DEF OfWhich
  <1> QED BY <1>1, <1>4, <1>5 DEF size

\* The first messages.
Rendered(n) == [i \in 1..n |-> Message1(i)]

LEMMA RenderedAre ==
  ASSUME messages \in Seq(MessageSizes), NEW n \in Nat, n <= Len(messages)
  PROVE  /\ Rendered(n) \in Seq(Seq(Chars)) /\ Len(Rendered(n)) = n /\ \A i \in 1..n : Rendered(n)[i] = Message1(i)
         /\ n # 0 => Rendered(n) = Append(Rendered(n - 1), Message1(n)) /\ Rendered(n - 1) \in Seq(Seq(Chars))
  <1>1. Len(messages) \in Nat
    OBVIOUS
  <1>2. \A i \in 1..n : Message1(i) \in Seq(Chars)
    BY <1>1, MessageText
  <1>3. Rendered(n) \in Seq(Seq(Chars)) /\ Len(Rendered(n)) = n /\ \A i \in 1..n : Rendered(n)[i] = Message1(i)
    BY <1>2 DEF Rendered
  <1>4. ASSUME n # 0 PROVE Rendered(n) = Append(Rendered(n - 1), Message1(n)) /\ Rendered(n - 1) \in Seq(Seq(Chars))
    <2>1. n - 1 \in Nat /\ \A i \in 1..(n - 1) : Message1(i) \in Seq(Chars)
      BY <1>2, <1>4
    <2>2. /\ Rendered(n - 1) \in Seq(Seq(Chars)) /\ Len(Rendered(n - 1)) = n - 1
          /\ \A i \in 1..(n - 1) : Rendered(n - 1)[i] = Message1(i)
      BY <2>1 DEF Rendered
    <2> DEFINE a == Rendered(n - 1)
               b == Rendered(n)
               m == Message1(n)
    <2>3. m \in Seq(Chars) /\ b[n] = m
      BY <1>2, <1>3, <1>4
    <2>4. \A i \in 1..(n - 1) : b[i] = a[i]
      BY <1>3, <2>2
    <2>5. a \in Seq(Seq(Chars)) /\ b \in Seq(Seq(Chars)) /\ Len(a) = n - 1 /\ Len(b) = n
      BY <1>3, <2>2
    <2> HIDE DEF a, b, m
    <2>6. b = Append(a, m)
      BY ONLY <2>1, <2>3, <2>4, <2>5, n \in Nat
    <2> QED BY <2>5, <2>6 DEF a, b, m
  <1> QED BY <1>3, <1>4

\* What was read so far is in the parts, in order, and after it what is held.
GatheredSound(g, n) ==
    /\ g.parts \in Seq(Seq(Chars)) /\ g.held \in Seq(Seq(Chars)) /\ Fit(g.parts) /\ g.tokens \in Nat
    /\ Read(g.parts) \o Read(g.held) = Read(Rendered(n))
    /\ g = Gathered(g.parts, g.held, g.tokens)

LEMMA FlushedIs ==
  ASSUME NEW n \in Nat, NEW g, GatheredSound(g, n)
  PROVE  GatheredSound(Flushed(g), n) /\ Flushed(g).held = <<>>
  <1>1. CASE g.held = <<>>
    BY <1>1 DEF Flushed
  <1>2. CASE g.held # <<>>
    <2> DEFINE p == g.parts
               h == g.held
               j == Join(h)
               q == Pieces(j)
    <2>1. p \in Seq(Seq(Chars)) /\ h \in Seq(Seq(Chars)) /\ Fit(p) /\ Read(p) \o Read(h) = Read(Rendered(n))
      BY DEF GatheredSound
    <2>2. j \in Seq(Chars) /\ Spoken(j) = Read(h)
      BY <2>1, JoinIs
    <2>3. Flushed(g) = Gathered(p \o q, <<>>, 0)
      BY <1>2 DEF Flushed
    <2> HIDE DEF p, h, j
    <2>4. q \in Seq(Seq(Chars)) /\ Fit(q) /\ Read(q) = Read(h)
      BY <2>2, PiecesAre, PiecesRead DEF Fit
    <2> HIDE DEF q
    <2>5. p \o q \in Seq(Seq(Chars)) /\ Fit(p \o q) /\ Read(p \o q) = Read(p) \o Read(h)
      <3>1. p \o q \in Seq(Seq(Chars))
        BY <2>1, <2>4
      <3>2. Fit(p \o q)
        BY <2>1, <2>4, FitTogether
      <3>3. Read(p \o q) = Read(p) \o Read(q)
        BY <2>1, <2>4, ReadJoins
      <3> QED BY <2>4, <3>1, <3>2, <3>3
    <2>6. Read(p \o q) \o Read(<<>>) = Read(p \o q)
      BY <2>5, ReadOfNone, AllSpokenAre, ConcatEmptySeq
    <2> DEFINE f == Gathered(p \o q, <<>>, 0)
    <2>7. f.parts = p \o q /\ f.held = <<>> /\ f.tokens = 0
      BY DEF Gathered
    <2>8. <<>> \in Seq(Seq(Chars))
      OBVIOUS
    <2>9. f = Gathered(f.parts, f.held, f.tokens)
      BY <2>7
    <2> HIDE DEF f
    <2>10. GatheredSound(f, n)
      BY <2>1, <2>5, <2>6, <2>7, <2>8, <2>9 DEF GatheredSound
    <2> QED BY <2>3, <2>7, <2>10 DEF f
  <1> QED BY <1>1, <1>2

LEMMA TakeMessageKeeps ==
  ASSUME messages \in Seq(MessageSizes), NEW n \in Nat, n + 1 <= Len(messages), NEW g, GatheredSound(g, n)
  PROVE  GatheredSound(TakeMessage(g, n + 1), n + 1)
  <1> DEFINE i == n + 1
             m == Message1(i)
             tokens == Tokens(messages[i])
             f    == Flushed(g)
             full == g.held # <<>> /\ g.tokens + tokens > Budget
             room == IF full THEN f ELSE g
  <1>1. i \in 1..Len(messages) /\ i \in Nat /\ i # 0 /\ i - 1 = n
    OBVIOUS
  <1>2. m \in Seq(Chars)
    BY <1>1, MessageText
  <1>3. GatheredSound(f, n) /\ f.held = <<>>
    BY FlushedIs
  <1>4. GatheredSound(room, n)
    BY <1>3
  <1>5. Read(Rendered(i)) = Read(Rendered(n)) \o Spoken(m)
    <2>1. Rendered(i) = Append(Rendered(i - 1), Message1(i)) /\ Rendered(i - 1) \in Seq(Seq(Chars))
      BY <1>1, RenderedAre
    <2> HIDE DEF i, m
    <2>2. Rendered(i) = Append(Rendered(n), m) /\ Rendered(n) \in Seq(Seq(Chars))
      BY <1>1, <2>1 DEF m
    <2> QED BY <1>2, <2>2, ReadAppend
  <1>6. Spoken(m) \in Seq(Chars) /\ tokens \in Nat /\ f.tokens \in Nat /\ room.tokens + tokens \in Nat
    <2>1. messages[i] \in Nat
      BY <1>1, MessageText
    <2>2. Tokens(messages[i]) \in Nat
      <3> HIDE DEF i
      <3> QED BY <2>1, PartFits
    <2>3. f.tokens \in Nat /\ room.tokens \in Nat
      BY <1>3, <1>4 DEF GatheredSound
    <2> HIDE DEF f, room
    <2> QED BY <1>2, <2>2, <2>3, SpokenType
  <1>7. TakeMessage(g, i) = IF tokens > Budget THEN [f EXCEPT !.parts = @ \o Pieces(m)]
                            ELSE Gathered(room.parts, Append(room.held, m), room.tokens + tokens)
    BY DEF TakeMessage
  <1> DEFINE next == TakeMessage(g, i)
  <1> HIDE DEF m, tokens, f, room, i
  <1>8. CASE tokens > Budget
    <2> DEFINE p == f.parts
               q == Pieces(m)
    <2>1. p \in Seq(Seq(Chars)) /\ Fit(p) /\ f = Gathered(p, <<>>, f.tokens)
      BY <1>3 DEF GatheredSound
    <2>2. Read(p) = Read(Rendered(n))
      <3>1. Read(p) \o Read(<<>>) = Read(Rendered(n))
        BY <1>3 DEF GatheredSound
      <3>2. Read(p) \in Seq(Chars)
        BY <2>1, AllSpokenAre
      <3> HIDE DEF p
      <3>3. Read(p) \o <<>> = Read(p)
        BY <3>2, ConcatEmptySeq
      <3> QED BY <3>1, <3>3, ReadOfNone
    <2>3. next = Gathered(p \o q, <<>>, f.tokens)
      <3>1. next = [f EXCEPT !.parts = p \o q]
        BY <1>7, <1>8
      <3> DEFINE t == f.tokens
      <3>2. f = [parts |-> p, held |-> <<>>, tokens |-> t]
        BY <2>1 DEF Gathered
      <3> HIDE DEF p, q, t, next
      <3>3. next = [parts |-> p \o q, held |-> <<>>, tokens |-> t]
        BY <3>1, <3>2
      <3> QED BY <3>3 DEF Gathered, t
    <2> HIDE DEF p
    <2>4. q \in Seq(Seq(Chars)) /\ Fit(q) /\ Read(q) = Spoken(m)
      BY <1>2, PiecesAre, PiecesRead DEF Fit
    <2> HIDE DEF q
    <2>5. p \o q \in Seq(Seq(Chars))
      BY <2>1, <2>4
    <2>6. Fit(p \o q)
      BY <2>1, <2>4, FitTogether
    <2>7. Read(p \o q) = Read(Rendered(i))
      <3>1. Read(p \o q) = Read(p) \o Read(q)
        BY <2>1, <2>4, ReadJoins
      <3> QED BY <1>5, <2>2, <2>4, <3>1
    <2>8. Read(p \o q) \o Read(<<>>) = Read(p \o q)
      <3>1. Read(p \o q) \in Seq(Chars)
        BY <2>5, AllSpokenAre
      <3> QED BY <3>1, ReadOfNone, ConcatEmptySeq
    <2> HIDE DEF next
    <2>9. /\ next.parts = p \o q /\ next.held = <<>> /\ next = Gathered(next.parts, next.held, next.tokens)
          /\ next.tokens \in Nat
      BY <1>6, <2>3 DEF Gathered
    <2>10. <<>> \in Seq(Seq(Chars))
      OBVIOUS
    <2>11. GatheredSound(next, i)
      BY <2>5, <2>6, <2>7, <2>8, <2>9, <2>10 DEF GatheredSound
    <2> QED BY <2>11 DEF next, i
  <1>9. CASE ~(tokens > Budget)
    <2> DEFINE p == room.parts
               h == room.held
               a == Append(h, m)
    <2>1. p \in Seq(Seq(Chars)) /\ h \in Seq(Seq(Chars)) /\ Fit(p) /\ Read(p) \o Read(h) = Read(Rendered(n))
      BY <1>4 DEF GatheredSound
    <2>2. next = Gathered(p, a, room.tokens + tokens)
      BY <1>7, <1>9
    <2> HIDE DEF p, h
    <2>3. a \in Seq(Seq(Chars))
      BY <1>2, <2>1
    <2>4. Read(a) = Read(h) \o Spoken(m)
      BY <1>2, <2>1, ReadAppend
    <2>5. Read(p) \in Seq(Chars) /\ Read(h) \in Seq(Chars) /\ Spoken(m) \in Seq(Chars)
      BY <1>6, <2>1, AllSpokenAre
    <2>6. Read(p) \o (Read(h) \o Spoken(m)) = (Read(p) \o Read(h)) \o Spoken(m)
      <3> DEFINE x == Read(p)
                 y == Read(h)
                 z == Spoken(m)
      <3>1. x \in Seq(Chars) /\ y \in Seq(Chars) /\ z \in Seq(Chars)
        BY <2>5
      <3> HIDE DEF x, y, z
      <3>2. x \o (y \o z) = (x \o y) \o z
        BY ONLY <3>1, ConcatAssociative
      <3> QED BY <3>2 DEF x, y, z
    <2>7. Read(p) \o Read(a) = Read(Rendered(i))
      BY ONLY <1>5, <2>1, <2>4, <2>6
    <2> HIDE DEF next, a
    <2>8. /\ next.parts = p /\ next.held = a /\ next = Gathered(next.parts, next.held, next.tokens)
          /\ next.tokens \in Nat
      BY <1>6, <2>2 DEF Gathered
    <2>9. GatheredSound(next, i)
      BY <2>1, <2>3, <2>7, <2>8 DEF GatheredSound
    <2> QED BY <2>9 DEF next, i
  <1> QED BY <1>8, <1>9

GatheredUpTo == CHOOSE f : f = [n \in 0..Len(messages) |->
                    IF n = 0 THEN Gathered(<<>>, <<>>, 0) ELSE TakeMessage(f[n - 1], n)]

LEMMA GatheredUpToIs ==
  ASSUME messages \in Seq(MessageSizes)
  PROVE  /\ GatheredUpTo[0] = Gathered(<<>>, <<>>, 0)
         /\ \A n \in 1..Len(messages) : GatheredUpTo[n] = TakeMessage(GatheredUpTo[n - 1], n)
         /\ \A n \in 0..Len(messages) : GatheredSound(GatheredUpTo[n], n)
  <1> DEFINE N     == Len(messages)
             V     == [parts : Seq(Seq(Chars)), held : Seq(Seq(Chars)), tokens : Nat]
             start == Gathered(<<>>, <<>>, 0)
             move  == [at \in V \X Nat |-> IF TakeMessage(at[1], at[2]) \in V THEN TakeMessage(at[1], at[2]) ELSE at[1]]
  <1>1. N \in Nat
    OBVIOUS
  <1>2. \A g, n : GatheredSound(g, n) => g \in V
    BY DEF GatheredSound, Gathered
  <1>3. GatheredSound(start, 0)
    <2>1. start.parts = <<>> /\ start.held = <<>> /\ start.tokens = 0
      BY DEF Gathered
    <2>2. start = Gathered(start.parts, start.held, start.tokens)
      BY <2>1
    <2>3. Rendered(0) = <<>>
      BY DEF Rendered
    <2>4. <<>> \in Seq(Seq(Chars)) /\ Fit(<<>>) /\ Read(<<>>) \o Read(<<>>) = Read(Rendered(0))
      <3>1. Fit(<<>>)
        BY DEF Fit
      <3>2. <<>> \o <<>> = <<>> /\ <<>> \in Seq(Seq(Chars))
        OBVIOUS
      <3> QED BY <2>3, <3>1, <3>2, ReadOfNone
    <2> HIDE DEF start
    <2> QED BY <2>1, <2>2, <2>4 DEF GatheredSound
  <1>4. start \in V
    BY <1>2, <1>3
  <1>5. Steps(move, V)
    <2>1. \A at \in V \X Nat : move[at] \in V
      <3> HIDE DEF V
      <3> QED OBVIOUS
    <2> HIDE DEF V
    <2>2. move \in [V \X Nat -> V]
      BY <2>1
    <2> QED BY <2>2 DEF Steps
  <1>6. PICK h : Builds(h, V, start, move, N)
    <2> HIDE DEF V, move, start, N
    <2> QED BY <1>1, <1>4, <1>5, BuiltTo
  <1> HIDE DEF V, start
  <1>7. h \in [0..N -> V] /\ h[0] = start /\ \A n \in 1..N : h[n] = move[<<h[n - 1], n>>]
    BY <1>6 DEF Builds
  <1> DEFINE S == {n \in Nat : n <= N => GatheredSound(h[n], n) /\ (n # 0 => h[n] = TakeMessage(h[n - 1], n))}
  <1>8. 0 \in S
    BY <1>3, <1>7
  <1>9. ASSUME NEW n \in Nat, n \in S PROVE n + 1 \in S
    <2> SUFFICES ASSUME n + 1 <= N
                 PROVE  GatheredSound(h[n + 1], n + 1) /\ h[n + 1] = TakeMessage(h[(n + 1) - 1], n + 1)
      OBVIOUS
    <2>1. GatheredSound(h[n], n) /\ n + 1 \in 1..N /\ (n + 1) - 1 = n /\ n + 1 \in Nat
      BY <1>1, <1>9
    <2>2. GatheredSound(TakeMessage(h[n], n + 1), n + 1)
      BY <2>1, TakeMessageKeeps
    <2>3. TakeMessage(h[n], n + 1) \in V /\ h[n] \in V
      BY <1>2, <2>1, <2>2
    <2>4. move[<<h[n], n + 1>>] = TakeMessage(h[n], n + 1)
      BY <2>1, <2>3
    <2>5. h[n + 1] = move[<<h[n], n + 1>>]
      BY <1>7, <2>1
    <2> QED BY <2>1, <2>2, <2>4, <2>5
  <1>10. \A n \in Nat : n \in S
    <2> HIDE DEF S
    <2> QED BY <1>8, <1>9, FromZero
  <1>11. \A n \in 0..N : GatheredSound(h[n], n) /\ (n # 0 => h[n] = TakeMessage(h[n - 1], n))
    BY <1>1, <1>10
  <1>12. h = [n \in 0..N |-> IF n = 0 THEN start ELSE TakeMessage(h[n - 1], n)]
    <2>1. \A n \in 0..N : h[n] = IF n = 0 THEN start ELSE TakeMessage(h[n - 1], n)
      BY <1>7, <1>11
    <2>2. h = [n \in 0..N |-> h[n]]
      BY <1>7
    <2> QED BY <2>1, <2>2
  <1> DEFINE u == GatheredUpTo
  <1>13. u = [n \in 0..N |-> IF n = 0 THEN start ELSE TakeMessage(u[n - 1], n)]
    BY <1>12 DEF GatheredUpTo, start
  <1> HIDE DEF u
  <1> DEFINE T == {n \in Nat : n <= N => u[n] = h[n]}
  <1>14. 0 \in T
    BY <1>1, <1>7, <1>13
  <1>15. ASSUME NEW n \in Nat, n \in T PROVE n + 1 \in T
    <2> SUFFICES ASSUME n + 1 <= N PROVE u[n + 1] = h[n + 1]
      OBVIOUS
    <2>1. n + 1 \in 0..N /\ n + 1 # 0 /\ (n + 1) - 1 = n /\ n <= N
      BY <1>1
    <2>2. u[n + 1] = TakeMessage(u[n], n + 1)
      BY <1>13, <2>1
    <2>3. h[n + 1] = TakeMessage(h[n], n + 1)
      BY <1>11, <2>1
    <2> QED BY <1>15, <2>1, <2>2, <2>3
  <1>16. \A n \in Nat : n \in T
    <2> HIDE DEF T
    <2> QED BY <1>14, <1>15, FromZero
  <1>17. \A n \in 0..N : u[n] = h[n]
    BY <1>1, <1>16
  <1>18. u[0] = Gathered(<<>>, <<>>, 0)
    BY <1>1, <1>13 DEF start
  <1>19. \A n \in 1..N : u[n] = TakeMessage(u[n - 1], n)
    BY <1>13
  <1>20. \A n \in 0..N : GatheredSound(u[n], n)
    BY <1>11, <1>17
  <1> QED BY <1>18, <1>19, <1>20 DEF u

\* The parts of the first round.
LEMMA ChunkedIs ==
  ASSUME messages \in Seq(MessageSizes)
  PROVE  Chunked \in Seq(Seq(Chars)) /\ Fit(Chunked) /\ Read(Chunked) = Read(Rendered(Len(messages)))
  <1> DEFINE N == Len(messages)
             g == GatheredUpTo[N]
             f == Flushed(g)
  <1>1. N \in Nat /\ N \in 0..N
    OBVIOUS
  <1>2. GatheredSound(g, N)
    <2> HIDE DEF N
    <2>1. \A n \in 0..Len(messages) : GatheredSound(GatheredUpTo[n], n)
      BY GatheredUpToIs
    <2> QED BY <1>1, <2>1 DEF N
  <1> HIDE DEF g
  <1>3. GatheredSound(f, N) /\ f.held = <<>>
    BY <1>1, <1>2, FlushedIs
  <1>4. Chunked = f.parts
    BY DEF Chunked, GatheredUpTo, g
  <1> DEFINE p == f.parts
  <1>5. p \in Seq(Seq(Chars)) /\ Fit(p) /\ Read(p) \o Read(<<>>) = Read(Rendered(N))
    BY <1>3 DEF GatheredSound
  <1> HIDE DEF f, p
  <1>6. Read(p) \o Read(<<>>) = Read(p)
    BY <1>5, AllSpokenAre, ReadOfNone, ConcatEmptySeq
  <1> QED BY <1>4, <1>5, <1>6 DEF p

-----------------------------------------------------------------------------
(* Folding: of which messages a text is.                                   *)

Covered(texts) == UNION {OfWhich(texts[n]) : n \in 1..Len(texts)}

LEMMA OfWhichRange == ASSUME NEW text \in Seq(Chars) PROVE OfWhich(text) = UNION {c.of : c \in Range(text)}
  BY DEF OfWhich, Range

\* What of a text is not of messages says nothing of any.
LEMMA OfWhichSpoken == ASSUME NEW text \in Seq(Chars) PROVE OfWhich(Spoken(text)) = OfWhich(text)
  <1> DEFINE L == Len(text)
             m == Marks(text)
             s == Spoken(text)
  <1>1. L \in Nat /\ DOMAIN text = 1..L
    OBVIOUS
  <1>2. m \in Seq(Seq(Chars)) /\ DOMAIN m = 1..L /\ \A n \in 1..L : m[n] = Marked(text[n])
    <2> HIDE DEF m
    <2>1. m \in Seq(Seq(Chars)) /\ Len(m) = L /\ \A n \in 1..L : m[n] = Marked(text[n])
      BY MarksAre DEF m
    <2> QED BY <2>1
  <1>3. Range(s) = UNION {Range(m[n]) : n \in 1..L}
    <2>1. Range(FlattenSeq(m)) = UNION {Range(m[n]) : n \in DOMAIN m}
      <3> HIDE DEF m
      <3> QED BY <1>2, FlattenRange
    <2>2. s = FlattenSeq(m)
      BY DEF Spoken, Marks
    <2> HIDE DEF m, s
    <2> QED BY <1>2, <2>1, <2>2
  <1>4. s \in Seq(Chars)
    BY SpokenType
  <1>5. \A n \in 1..L : Range(m[n]) = IF text[n].of = {} THEN {} ELSE {text[n]}
    <2> TAKE n \in 1..L
    <2>1. m[n] = Marked(text[n])
      BY <1>2
    <2> HIDE DEF m
    <2>2. Range(<<>>) = {} /\ Range(<<text[n]>>) = {text[n]}
      BY DEF Range
    <2> QED BY <2>1, <2>2 DEF Marked
  <1> HIDE DEF L, m, s
  <1>6. OfWhich(s) = UNION {c.of : c \in Range(s)}
    BY <1>4, OfWhichRange
  <1>7. OfWhich(text) = UNION {text[n].of : n \in 1..L}
    BY <1>1 DEF OfWhich
  <1>8. \A x : (\E c \in Range(s) : x \in c.of) <=> \E n \in 1..L : x \in text[n].of
    <2>1. ASSUME NEW c \in Range(s), NEW x \in c.of PROVE \E n \in 1..L : x \in text[n].of
      <3>1. PICK n \in 1..L : c \in Range(m[n])
        BY <1>3
      <3>2. c = text[n]
        BY <1>5, <3>1
      <3> QED BY <2>1, <3>2
    <2>2. ASSUME NEW n \in 1..L, NEW x \in text[n].of PROVE \E c \in Range(s) : x \in c.of
      <3>1. text[n].of # {}
        BY <2>2
      <3>2. Range(m[n]) = {text[n]}
        BY <1>5, <3>1
      <3>3. text[n] \in Range(s)
        BY <1>3, <3>2
      <3> QED BY <2>2, <3>3
    <2> QED BY <2>1, <2>2
  <1>9. OfWhich(s) = OfWhich(text)
    BY <1>6, <1>7, <1>8
  <1> QED BY <1>9 DEF s

LEMMA OfWhichAll == ASSUME NEW p \in Seq(Seq(Chars)) PROVE OfWhich(FlattenSeq(p)) = Covered(p)
  <1> DEFINE t == FlattenSeq(p)
             N == Len(p)
  <1>1. t \in Seq(Chars) /\ Range(t) = UNION {Range(p[n]) : n \in DOMAIN p}
    BY FlattenType, FlattenRange
  <1>2. DOMAIN p = 1..N /\ \A n \in 1..N : p[n] \in Seq(Chars)
    OBVIOUS
  <1>3. OfWhich(t) = UNION {c.of : c \in Range(t)}
    BY <1>1, OfWhichRange
  <1>4. \A n \in 1..N : OfWhich(p[n]) = UNION {c.of : c \in Range(p[n])}
    BY <1>2, OfWhichRange
  <1>5. Covered(p) = UNION {OfWhich(p[n]) : n \in 1..N}
    BY DEF Covered
  <1> HIDE DEF t, N
  <1>6. \A x : x \in OfWhich(t) <=> x \in Covered(p)
    BY <1>1, <1>2, <1>3, <1>4, <1>5
  <1> QED BY <1>6 DEF t

\* Texts that read alike are of the same messages.
LEMMA CoveredIsRead == ASSUME NEW p \in Seq(Seq(Chars)) PROVE Covered(p) = OfWhich(Read(p))
  <1>1. FlattenSeq(p) \in Seq(Chars)
    BY FlattenType
  <1>2. OfWhich(Spoken(FlattenSeq(p))) = OfWhich(FlattenSeq(p))
    BY <1>1, OfWhichSpoken
  <1> QED BY <1>2, SpokenOfAll, OfWhichAll

LEMMA PiecesCover == ASSUME NEW text \in Seq(Chars) PROVE Covered(Pieces(text)) = OfWhich(text)
  <1>1. Pieces(text) \in Seq(Seq(Chars)) /\ FlattenSeq(Pieces(text)) = text
    BY PiecesAre
  <1> QED BY <1>1, OfWhichAll

LEMMA JoinCovers == ASSUME NEW texts \in Seq(Seq(Chars)) PROVE OfWhich(Join(texts)) = Covered(texts)
  <1>1. Join(texts) \in Seq(Chars) /\ Spoken(Join(texts)) = Read(texts)
    BY JoinIs
  <1>2. OfWhich(Join(texts)) = OfWhich(Read(texts))
    BY <1>1, OfWhichSpoken
  <1> QED BY <1>2, CoveredIsRead

LEMMA RenderedCovers == ASSUME messages \in Seq(MessageSizes) PROVE Covered(Rendered(Len(messages))) = 1..Len(messages)
  <1> DEFINE N == Len(messages)
  <1>1. N \in Nat
    OBVIOUS
  <1>2. Len(Rendered(N)) = N /\ \A i \in 1..N : Rendered(N)[i] = Message1(i)
    <2> HIDE DEF N
    <2>1. N = Len(messages)
      BY DEF N
    <2> QED BY <1>1, <2>1, RenderedAre
  <1>3. \A i \in 1..N : OfWhich(Message1(i)) = {i}
    BY MessageText
  <1> HIDE DEF N
  <1>4. Covered(Rendered(N)) = UNION {{i} : i \in 1..N}
    BY <1>2, <1>3 DEF Covered
  <1> QED BY <1>4 DEF N

-----------------------------------------------------------------------------
(* Folding: the rounds.                                                    *)

FoldTypeOK ==
    /\ messages \in Seq(MessageSizes) /\ chunks \in Seq(Seq(Chars)) /\ reductions \in Nat
    /\ outcome \in {"none", "summary", "failed"}

\* Nothing is lost that a model did not leave out.
NothingLost ==
    DOMAIN messages \ unanswered \subseteq Covered(chunks) /\ Covered(chunks) \subseteq DOMAIN messages

FoldInv == FoldTypeOK /\ Fit(chunks) /\ ReadInOrder /\ NothingLost /\ MadeOfAll

LEMMA RenderedIsAll == ASSUME messages \in Seq(MessageSizes) PROVE Rendered(Len(messages)) = [i \in DOMAIN messages |-> Message1(i)]
  BY DEF Rendered

LEMMA FoldStarts == ASSUME FoldInit PROVE FoldInv
  <1>1. messages \in Seq(MessageSizes)
    <2>1. PICK n \in 0..MaxMessages : messages \in [1..n -> MessageSizes]
      BY DEF FoldInit
    <2>2. n \in Nat
      BY FoldAssumption
    <2> QED BY <2>1, <2>2
  <1>2. chunks = Chunked /\ reductions = 0 /\ outcome = "none" /\ unanswered = {}
    BY DEF FoldInit
  <1>3. chunks \in Seq(Seq(Chars)) /\ Fit(chunks) /\ Read(chunks) = Read(Rendered(Len(messages)))
    BY <1>1, <1>2, ChunkedIs
  <1>4. Covered(chunks) = DOMAIN messages
    <2>1. Len(messages) \in Nat /\ DOMAIN messages = 1..Len(messages)
      BY <1>1
    <2>2. Rendered(Len(messages)) \in Seq(Seq(Chars))
      BY <1>1, <2>1, RenderedAre
    <2>3. Covered(chunks) = Covered(Rendered(Len(messages)))
      BY <1>3, <2>2, CoveredIsRead
    <2> QED BY <1>1, <2>1, <2>3, RenderedCovers
  <1>5. ReadInOrder
    BY <1>1, <1>3, RenderedIsAll DEF ReadInOrder
  <1> QED BY <1>1, <1>2, <1>3, <1>4, <1>5 DEF FoldInv, FoldTypeOK, NothingLost, MadeOfAll

\* A round: whatever is answered is cut so that it fits, and is of all that its
\* part was of, unless it is empty.
LEMMA ReduceKeeps == ASSUME FoldInv, Reduce PROVE FoldInv'
  <1> DEFINE N == Len(chunks)
  <1>1. chunks \in Seq(Seq(Chars)) /\ N \in Nat /\ DOMAIN chunks = 1..N /\ \A n \in 1..N : chunks[n] \in Seq(Chars)
    BY DEF FoldInv, FoldTypeOK
  <1>2. PICK size \in [1..N -> AnswerSizes] :
          /\ chunks' = Pieces(Join([n \in 1..N |-> Text(OfWhich(chunks[n]), size[n])]))
          /\ unanswered' = unanswered \cup UNION {OfWhich(chunks[n]) : n \in {m \in 1..N : size[m] = 0}}
    BY <1>1 DEF Reduce
  <1> DEFINE answer(n) == Text(OfWhich(chunks[n]), size[n])
             answers == [n \in 1..N |-> answer(n)]
  <1>3. ASSUME NEW n \in 1..N
        PROVE  /\ answer(n) \in Seq(Chars)
               /\ OfWhich(answer(n)) = IF size[n] = 0 THEN {} ELSE OfWhich(chunks[n])
    <2> DEFINE k  == size[n]
               of == OfWhich(chunks[n])
    <2>1. k \in Nat
      <3>1. k \in AnswerSizes /\ AnswerSizes \subseteq Nat
        BY FoldAssumption
      <3> QED BY <3>1
    <2>2. of \in SUBSET Nat
      <3>1. \A i \in DOMAIN chunks[n] : chunks[n][i] \in Chars
        BY <1>1
      <3>2. \A i \in DOMAIN chunks[n] : chunks[n][i].of \in SUBSET Nat
        BY <3>1 DEF Chars
      <3> QED BY <3>2 DEF OfWhich
    <2>3. answer(n) = Text(of, k)
      OBVIOUS
    <2> HIDE DEF k, of
    <2>4. \A i \in 1..k : [of |-> of, at |-> i] \in Chars
      BY <2>1, <2>2 DEF Chars
    <2>5. Text(of, k) \in Seq(Chars)
      BY <2>1, <2>4 DEF Text
    <2>6. OfWhich(Text(of, k)) = UNION {of : i \in 1..k}
      BY DEF OfWhich, Text
    <2>7. OfWhich(Text(of, k)) = IF k = 0 THEN {} ELSE of
      <3>1. CASE k = 0
        <4>1. 1..k = {}
          BY <3>1
        <4> QED BY <2>6, <3>1, <4>1
      <3>2. CASE k # 0
        <4>1. 1 \in 1..k
          BY <2>1, <3>2
        <4> QED BY <2>6, <3>2, <4>1
      <3> QED BY <3>1, <3>2
    <2> HIDE DEF answer
    <2> QED BY <2>3, <2>5, <2>7 DEF k, of
  <1>4. answers \in Seq(Seq(Chars)) /\ Len(answers) = N /\ \A n \in 1..N : answers[n] = answer(n)
    <2> HIDE DEF answer
    <2>1. \A n \in 1..N : answer(n) \in Seq(Chars)
      BY <1>3
    <2> HIDE DEF N
    <2> QED BY <1>1, <2>1
  <1> DEFINE j == Join(answers)
  <1>5. chunks' = Pieces(j)
    BY <1>2
  <1> HIDE DEF answers, answer
  <1>6. j \in Seq(Chars) /\ OfWhich(j) = Covered(answers)
    BY <1>4, JoinIs, JoinCovers
  <1> HIDE DEF j
  <1>7. chunks' \in Seq(Seq(Chars)) /\ Fit(chunks') /\ Covered(chunks') = Covered(answers)
    <2>1. Pieces(j) \in Seq(Seq(Chars)) /\ Fit(Pieces(j))
      BY <1>6, PiecesAre DEF Fit
    <2> QED BY <1>5, <1>6, <2>1, PiecesCover
  <1>8. Covered(answers) = UNION {IF size[n] = 0 THEN {} ELSE OfWhich(chunks[n]) : n \in 1..N}
    <2>1. Covered(answers) = UNION {OfWhich(answers[n]) : n \in 1..N}
      BY <1>4 DEF Covered
    <2>2. \A n \in 1..N : OfWhich(answers[n]) = IF size[n] = 0 THEN {} ELSE OfWhich(chunks[n])
      BY <1>3, <1>4
    <2> QED BY <2>1, <2>2
  <1>9. messages' = messages /\ outcome = "none" /\ outcome' = outcome /\ reductions' = reductions + 1 /\ reductions \in Nat
        /\ messages \in Seq(MessageSizes)
    BY DEF Reduce, FoldInv, FoldTypeOK
  <1>10. NothingLost'
    <2>1. Covered(chunks) = UNION {OfWhich(chunks[n]) : n \in 1..N}
      BY DEF Covered
    <2>2. DOMAIN messages \ unanswered \subseteq Covered(chunks) /\ Covered(chunks) \subseteq DOMAIN messages
      BY DEF FoldInv, NothingLost
    <2>3. Covered(chunks)' = UNION {IF size[n] = 0 THEN {} ELSE OfWhich(chunks[n]) : n \in 1..N}
      <3>1. Covered(chunks)' = Covered(chunks')
        BY DEF Covered
      <3> QED BY <1>7, <1>8, <3>1
    <2> HIDE DEF N
    <2>4. Covered(chunks)' \subseteq Covered(chunks)
      BY <2>1, <2>3
    <2>5. Covered(chunks) \subseteq Covered(chunks)' \cup unanswered'
      BY <1>2, <2>1, <2>3
    <2>6. unanswered \subseteq unanswered'
      BY <1>2
    <2> QED BY <1>9, <2>2, <2>4, <2>5, <2>6 DEF NothingLost
  <1>11. FoldTypeOK' /\ Fit(chunks)' /\ ReadInOrder' /\ MadeOfAll'
    <2>1. Fit(chunks)'
      BY <1>7 DEF Fit
    <2> QED BY <1>7, <1>9, <2>1 DEF FoldTypeOK, ReadInOrder, MadeOfAll, FoldInv
  <1> QED BY <1>10, <1>11 DEF FoldInv

LEMMA SameRead ==
  ASSUME ReadInOrder, UNCHANGED <<messages, chunks, reductions>>
  PROVE  ReadInOrder'
  <1>1. Read(chunks)' = Read(chunks')
    BY DEF Read, Spoken
  <1>2. Read([i \in DOMAIN messages |-> Message1(i)])' = Read([i \in DOMAIN messages |-> Message1(i)])
    BY DEF Read, Spoken, Message1, Text
  <1> QED BY <1>1, <1>2 DEF ReadInOrder

LEMMA ConcludeKeeps == ASSUME FoldInv, Conclude PROVE FoldInv'
  <1>1. UNCHANGED <<messages, chunks, reductions, unanswered>> /\ outcome' \in {"none", "summary", "failed"}
    BY DEF Conclude
  <1>2. FoldTypeOK' /\ Fit(chunks)' /\ ReadInOrder' /\ NothingLost'
    <2>1. FoldTypeOK'
      BY <1>1 DEF FoldInv, FoldTypeOK
    <2>2. Fit(chunks)'
      BY <1>1 DEF FoldInv, Fit
    <2>3. ReadInOrder'
      BY <1>1, SameRead DEF FoldInv
    <2>4. NothingLost'
      BY <1>1 DEF FoldInv, NothingLost, Covered
    <2> QED BY <2>1, <2>2, <2>3, <2>4
  <1>3. MadeOfAll'
    <2> SUFFICES ASSUME outcome' = "summary"
                 PROVE  DOMAIN messages \ unanswered \subseteq summary' /\ summary' \subseteq DOMAIN messages
      BY <1>1 DEF MadeOfAll
    <2>1. Suffices(chunks) /\ summary' = IF chunks = <<>> THEN {} ELSE OfWhich(Head(chunks))
      BY DEF Conclude
    <2>2. chunks \in Seq(Seq(Chars)) /\ Len(chunks) \in Nat /\ Len(chunks) <= 1
      BY <2>1 DEF FoldInv, FoldTypeOK, Suffices
    <2>3. summary' = Covered(chunks)
      <3>1. CASE chunks = <<>>
        BY <2>1, <3>1 DEF Covered
      <3>2. CASE chunks # <<>>
        <4>1. Len(chunks) = 1 /\ Head(chunks) = chunks[1]
          <5> DEFINE k == Len(chunks)
          <5>1. k \in Nat /\ k # 0
            BY <2>2, <3>2, EmptySeq
          <5>2. k <= 1
            BY <2>2
          <5>3. Head(chunks) = chunks[1]
            BY <2>2, <3>2
          <5> HIDE DEF k
          <5>4. k = 1
            BY ONLY <5>1, <5>2
          <5> QED BY <5>3, <5>4 DEF k
        <4>2. Covered(chunks) = UNION {OfWhich(chunks[n]) : n \in {1}}
          BY <4>1 DEF Covered
        <4> QED BY <2>1, <3>2, <4>1, <4>2
      <3> QED BY <3>1, <3>2
    <2> QED BY <2>3 DEF FoldInv, NothingLost
  <1> QED BY <1>2, <1>3 DEF FoldInv

\* Whatever the sizes of messages and answers, and in however many rounds a text
\* is folded: every part fits the context, the first parts are the messages in
\* their order, and a summary is made of all that a model did not leave out.
THEOREM FoldsKeepAll == FoldInit /\ [][FoldNext]_foldVars => []FoldKeepsAll
  <1>1. FoldInit => FoldInv
    BY FoldStarts
  <1>2. FoldInv /\ [FoldNext]_foldVars => FoldInv'
    <2> SUFFICES ASSUME FoldInv, [FoldNext]_foldVars PROVE FoldInv'
      OBVIOUS
    <2>1. CASE Reduce
      BY <2>1, ReduceKeeps
    <2>2. CASE Conclude
      BY <2>2, ConcludeKeeps
    <2>3. CASE UNCHANGED foldVars
      <3>1. UNCHANGED <<messages, chunks, reductions, outcome, summary, unanswered>>
        BY <2>3 DEF foldVars
      <3>2. FoldTypeOK'
        BY <3>1 DEF FoldInv, FoldTypeOK
      <3>3. Fit(chunks)'
        BY <3>1 DEF FoldInv, Fit
      <3>4. ReadInOrder'
        BY <3>1, SameRead DEF FoldInv
      <3>5. NothingLost'
        BY <3>1 DEF FoldInv, NothingLost, Covered
      <3>6. MadeOfAll'
        BY <3>1 DEF FoldInv, MadeOfAll
      <3> QED BY <3>2, <3>3, <3>4, <3>5, <3>6 DEF FoldInv
    <2> QED BY <2>1, <2>2, <2>3 DEF FoldNext
  <1>3. FoldInv => FoldKeepsAll
    <2>1. FoldInv => PartsFit
      <3> SUFFICES ASSUME FoldInv PROVE PartsFit
        OBVIOUS
      <3>1. DOMAIN chunks = 1..Len(chunks)
        BY DEF FoldInv, FoldTypeOK
      <3> QED BY <3>1 DEF FoldInv, Fit, PartsFit
    <2> QED BY <2>1 DEF FoldInv, FoldKeepsAll
  <1> QED BY <1>1, <1>2, <1>3, PTL

(* Extraction: the traces of one line.                                     *)

TraceSet  == {"edit", "run", "word", "failed"} \X Calls
Addings   == [seen : SUBSET TraceSet, kept : Seq(TraceSet), commands : Nat, skipped : Nat]
Whats     == {<<"active">>, <<"said">>, <<"queued">>, <<"goal">>, <<"answer">>}
                 \cup {<<"asked", c>> : c \in Calls} \cup {<<"answered", c>> : c \in Calls}
LineSet   == [what : Whats \cup {<<"tools">>}, traces : Seq(TraceSet)]
Segments  == [long : BOOLEAN, lines : Seq(LineSet), commands : Nat, skipped : Nat]

LEMMA LimitedIsRun == \A t \in TraceSet : Limited(t) <=> t[1] = "run"
  BY DEF TraceSet, Limited

LEMMA AddTraceIs ==
  ASSUME NEW a \in Addings, NEW t \in TraceSet
  PROVE  LET b == AddTrace(a, t)
         IN /\ b \in Addings
            /\ t \in b.seen /\ a.skipped <= b.skipped
            /\ \/ t \in a.seen /\ b = a
               \/ /\ b.seen = a.seen \cup {t} /\ t \notin a.seen
                  /\ \/ /\ b.kept = Append(a.kept, t) /\ b.skipped = a.skipped
                        /\ \/ t[1] # "run" /\ b.commands = a.commands
                           \/ t[1] = "run" /\ b.commands = a.commands + 1 /\ a.commands < MaxCommands
                     \/ b.kept = a.kept /\ t[1] = "run" /\ b.commands = a.commands /\ b.skipped = a.skipped + 1
  <1> DEFINE b == AddTrace(a, t)
  <1>1. a.seen \in SUBSET TraceSet /\ a.kept \in Seq(TraceSet) /\ a.commands \in Nat /\ a.skipped \in Nat
    BY DEF Addings
  <1>2. \A s \in SUBSET TraceSet, k \in Seq(TraceSet) : \A m \in Nat, n \in Nat :
            /\ Adding(s, k, m, n) \in Addings
            /\ Adding(s, k, m, n).seen = s /\ Adding(s, k, m, n).kept = k
            /\ Adding(s, k, m, n).commands = m /\ Adding(s, k, m, n).skipped = n
    BY DEF Adding, Addings
  <1>3. a.seen \cup {t} \in SUBSET TraceSet /\ Append(a.kept, t) \in Seq(TraceSet) /\ a.commands + 1 \in Nat /\ a.skipped + 1 \in Nat
    BY <1>1
  <1>4. CASE t \in a.seen
    <2>1. b = a
      BY <1>4 DEF AddTrace
    <2> HIDE DEF b
    <2> QED BY <1>1, <1>4, <2>1 DEF b
  <1>5. CASE t \notin a.seen /\ ~Limited(t)
    <2>1. b = Adding(a.seen \cup {t}, Append(a.kept, t), a.commands, a.skipped)
      BY <1>5 DEF AddTrace
    <2> DEFINE k == Append(a.kept, t)
               s == a.seen \cup {t}
               m == a.commands
    <2> HIDE DEF b, k, s, m
    <2>2. b \in Addings /\ b.seen = s /\ b.kept = k /\ b.commands = m /\ b.skipped = a.skipped
      <3>1. s \in SUBSET TraceSet /\ k \in Seq(TraceSet) /\ m \in Nat /\ a.skipped \in Nat
        BY <1>1, <1>3 DEF s, k, m
      <3>2. b = Adding(s, k, m, a.skipped)
        BY <2>1 DEF s, k, m
      <3> QED BY <1>2, <3>1, <3>2
    <2> USE DEF k, s, m
    <2> QED BY <1>1, <1>5, <2>2 DEF b, Limited
  <1>6. CASE t \notin a.seen /\ Limited(t) /\ a.commands < MaxCommands
    <2>1. b = Adding(a.seen \cup {t}, Append(a.kept, t), a.commands + 1, a.skipped)
      BY <1>6 DEF AddTrace
    <2> DEFINE k == Append(a.kept, t)
               s == a.seen \cup {t}
               m == a.commands + 1
    <2> HIDE DEF b, k, s, m
    <2>2. b \in Addings /\ b.seen = s /\ b.kept = k /\ b.commands = m /\ b.skipped = a.skipped
      <3>1. s \in SUBSET TraceSet /\ k \in Seq(TraceSet) /\ m \in Nat /\ a.skipped \in Nat
        BY <1>1, <1>3 DEF s, k, m
      <3>2. b = Adding(s, k, m, a.skipped)
        BY <2>1 DEF s, k, m
      <3> QED BY <1>2, <3>1, <3>2
    <2> USE DEF k, s, m
    <2>3. t[1] = "run"
      BY <1>6, LimitedIsRun
    <2> QED BY <1>1, <1>6, <2>2, <2>3 DEF b
  <1>7. CASE t \notin a.seen /\ Limited(t) /\ ~(a.commands < MaxCommands)
    <2>1. b = Adding(a.seen \cup {t}, a.kept, a.commands, a.skipped + 1)
      BY <1>7 DEF AddTrace
    <2> HIDE DEF b
    <2>2. b \in Addings /\ b.seen = a.seen \cup {t} /\ b.kept = a.kept /\ b.commands = a.commands /\ b.skipped = a.skipped + 1
      BY <1>1, <1>2, <1>3, <2>1
    <2>3. t[1] = "run"
      BY <1>7, LimitedIsRun
    <2> QED BY <1>1, <1>7, <2>2, <2>3 DEF b
  <1> QED BY <1>4, <1>5, <1>6, <1>7

StartOf(s) == Adding({}, <<>>, s.commands, s.skipped)

LEMMA StartIs ==
  ASSUME NEW s \in Segments
  PROVE  /\ StartOf(s) \in Addings /\ StartOf(s).seen = {} /\ StartOf(s).kept = <<>>
         /\ StartOf(s).commands = s.commands /\ StartOf(s).skipped = s.skipped
  BY DEF StartOf, Adding, Addings, Segments

AddUpTo(s, traces) == CHOOSE f : f = [n \in 0..Len(traces) |->
                          IF n = 0 THEN StartOf(s) ELSE AddTrace(f[n - 1], traces[n])]

MoveOf(traces) == [at \in Addings \X Nat |->
                       IF at[2] \in 1..Len(traces) THEN AddTrace(at[1], traces[at[2]]) ELSE at[1]]

LEMMA MoveIs ==
  ASSUME NEW traces \in Seq(TraceSet)
  PROVE  /\ Steps(MoveOf(traces), Addings)
         /\ \A a \in Addings, n \in 1..Len(traces) :
                AddTrace(a, traces[n]) \in Addings /\ MoveOf(traces)[<<a, n>>] = AddTrace(a, traces[n])
  <1>1. \A n \in 1..Len(traces) : traces[n] \in TraceSet
    OBVIOUS
  <1>2. \A a \in Addings, n \in 1..Len(traces) : AddTrace(a, traces[n]) \in Addings
    BY <1>1, AddTraceIs
  <1>3. \A at \in Addings \X Nat :
            /\ at[1] \in Addings
            /\ MoveOf(traces)[at] = IF at[2] \in 1..Len(traces) THEN AddTrace(at[1], traces[at[2]]) ELSE at[1]
    BY DEF MoveOf
  <1>4. \A at \in Addings \X Nat : MoveOf(traces)[at] \in Addings
    BY <1>2, <1>3
  <1>5. Steps(MoveOf(traces), Addings)
    BY <1>4 DEF Steps, MoveOf
  <1>6. ASSUME NEW a \in Addings, NEW n \in 1..Len(traces) PROVE MoveOf(traces)[<<a, n>>] = AddTrace(a, traces[n])
    <2>1. <<a, n>> \in Addings \X Nat /\ <<a, n>>[1] = a /\ <<a, n>>[2] = n
      OBVIOUS
    <2> QED BY <1>3, <2>1
  <1> QED BY <1>2, <1>5, <1>6

LEMMA AddUpToIs ==
  ASSUME NEW s \in Segments, NEW traces \in Seq(TraceSet)
  PROVE  /\ Builds(AddUpTo(s, traces), Addings, StartOf(s), MoveOf(traces), Len(traces))
         /\ \A n \in 1..Len(traces) : AddUpTo(s, traces)[n] = AddTrace(AddUpTo(s, traces)[n - 1], traces[n])
  <1> DEFINE N     == Len(traces)
             start == StartOf(s)
             move  == MoveOf(traces)
             V     == Addings
             u     == AddUpTo(s, traces)
  <1>1. N \in Nat /\ start \in V
    BY StartIs
  <1>2. PICK h : Builds(h, V, start, move, N)
    <2>1. Steps(move, V)
      BY MoveIs
    <2> HIDE DEF V, move, start, N
    <2> QED BY <1>1, <2>1, BuiltTo
  <1>3. h \in [0..N -> V] /\ h[0] = start /\ \A n \in 1..N : h[n] = move[<<h[n - 1], n>>]
    BY <1>2 DEF Builds
  <1>4. \A n \in 1..N : n - 1 \in 0..N /\ n \in 0..N
    BY <1>1
  <1>5. \A n \in 1..N : h[n] = AddTrace(h[n - 1], traces[n])
    <2>1. \A a \in V, n \in 1..N : move[<<a, n>>] = AddTrace(a, traces[n])
      BY MoveIs
    <2> HIDE DEF V, move, N
    <2> QED BY <1>3, <1>4, <2>1
  <1>6. h = [n \in 0..N |-> IF n = 0 THEN start ELSE AddTrace(h[n - 1], traces[n])]
    <2>1. \A n \in 0..N : h[n] = IF n = 0 THEN start ELSE AddTrace(h[n - 1], traces[n])
      BY <1>1, <1>3, <1>5
    <2>2. h = [n \in 0..N |-> h[n]]
      BY <1>3
    <2> QED BY <2>1, <2>2
  <1>7. u = [n \in 0..N |-> IF n = 0 THEN start ELSE AddTrace(u[n - 1], traces[n])]
    BY <1>6 DEF AddUpTo
  <1> HIDE DEF u, start, V, move
  <1> DEFINE T == {n \in Nat : n <= N => u[n] = h[n]}
  <1>8. 0 \in T
    BY <1>1, <1>3, <1>7
  <1>9. ASSUME NEW n \in Nat, n \in T PROVE n + 1 \in T
    <2> SUFFICES ASSUME n + 1 <= N PROVE u[n + 1] = h[n + 1]
      OBVIOUS
    <2>1. n + 1 \in 0..N /\ n + 1 # 0 /\ (n + 1) - 1 = n /\ n <= N /\ n + 1 \in 1..N
      BY <1>1
    <2>2. u[n + 1] = AddTrace(u[n], traces[n + 1])
      BY <1>7, <2>1
    <2>3. h[n + 1] = AddTrace(h[n], traces[n + 1])
      BY <1>5, <2>1
    <2> QED BY <1>9, <2>1, <2>2, <2>3
  <1>10. \A n \in Nat : n \in T
    <2> HIDE DEF T
    <2> QED BY <1>8, <1>9, FromZero
  <1>11. \A n \in 0..N : u[n] = h[n]
    BY <1>1, <1>10
  <1>12. u = h
    <2>1. u = [n \in 0..N |-> u[n]]
      BY <1>7
    <2>2. h = [n \in 0..N |-> h[n]]
      BY <1>3
    <2> QED BY <1>11, <2>1, <2>2
  <1> QED BY <1>2, <1>5, <1>12 DEF u, start, V, move

LEMMA AddedIsLast ==
  ASSUME NEW s \in Segments, NEW traces \in Seq(TraceSet)
  PROVE  Added(s, traces) = AddUpTo(s, traces)[Len(traces)] /\ Added(s, traces) \in Addings
  <1>1. Added(s, traces) = AddUpTo(s, traces)[Len(traces)]
    BY DEF Added, AddUpTo, StartOf
  <1>2. AddUpTo(s, traces) \in [0..Len(traces) -> Addings]
    BY AddUpToIs DEF Builds
  <1>3. Len(traces) \in 0..Len(traces)
    OBVIOUS
  <1> QED BY <1>1, <1>2, <1>3

LEMMA AddedOfNone == ASSUME NEW s \in Segments PROVE Added(s, <<>>) = StartOf(s)
  <1>1. <<>> \in Seq(TraceSet) /\ Len(<<>>) = 0
    OBVIOUS
  <1>2. AddUpTo(s, <<>>)[0] = StartOf(s)
    BY <1>1, AddUpToIs DEF Builds
  <1> QED BY <1>1, <1>2, AddedIsLast

LEMMA AddedAppend ==
  ASSUME NEW s \in Segments, NEW traces \in Seq(TraceSet), NEW t \in TraceSet
  PROVE  Added(s, Append(traces, t)) = AddTrace(Added(s, traces), t)
  <1> DEFINE q == Append(traces, t)
             N == Len(traces)
             f == AddUpTo(s, traces)
             g == AddUpTo(s, q)
             start == StartOf(s)
  <1>1. q \in Seq(TraceSet) /\ N \in Nat /\ Len(q) = N + 1 /\ q[N + 1] = t /\ \A n \in 1..N : q[n] = traces[n]
    OBVIOUS
  <1> HIDE DEF q
  <1>2. /\ Builds(f, Addings, start, MoveOf(traces), N)
        /\ \A n \in 1..N : f[n] = AddTrace(f[n - 1], traces[n])
    BY AddUpToIs
  <1>3. /\ Builds(g, Addings, start, MoveOf(q), N + 1)
        /\ \A n \in 1..(N + 1) : g[n] = AddTrace(g[n - 1], q[n])
    BY <1>1, AddUpToIs
  <1>4. Added(s, q) = g[N + 1] /\ Added(s, traces) = f[N]
    BY <1>1, AddedIsLast
  <1> HIDE DEF f, g, start, N
  <1>5. f \in [0..N -> Addings] /\ f[0] = start /\ g[0] = start
    BY <1>2, <1>3 DEF Builds
  <1>6. Builds(f, Addings, start, MoveOf(q), N)
    <2>1. ASSUME NEW n \in 1..N PROVE f[n] = MoveOf(q)[<<f[n - 1], n>>]
      <3>1. n - 1 \in 0..N /\ n \in 1..(N + 1)
        BY <1>1
      <3>2. f[n - 1] \in Addings
        BY <1>5, <3>1
      <3>3. MoveOf(q)[<<f[n - 1], n>>] = AddTrace(f[n - 1], q[n])
        BY <1>1, <3>1, <3>2, MoveIs
      <3>4. q[n] = traces[n]
        BY <1>1
      <3> QED BY <1>2, <3>3, <3>4
    <2> QED BY <1>5, <2>1 DEF Builds
  <1>7. \A i \in 0..N : i \in 0..(N + 1) => f[i] = g[i]
    <2> DEFINE m == N + 1
               V == Addings
               move == MoveOf(q)
    <2>1. N \in Nat /\ m \in Nat
      BY <1>1
    <2>2. Builds(f, V, start, move, N) /\ Builds(g, V, start, move, m)
      BY <1>3, <1>6
    <2> HIDE DEF m, V, move
    <2>3. \A i \in 0..N : i \in 0..m => f[i] = g[i]
      BY <2>1, <2>2, BuildsAlike
    <2> QED BY <2>3 DEF m
  <1>8. f[N] = g[N]
    BY <1>1, <1>7
  <1>9. g[N + 1] = AddTrace(g[N], t)
    <2>1. N + 1 \in 1..(N + 1) /\ (N + 1) - 1 = N
      BY <1>1
    <2> QED BY <1>1, <1>3, <2>1
  <1> QED BY <1>4, <1>8, <1>9 DEF q

\* Where the commands are among traces.
RunsIn(kept) == {j \in DOMAIN kept : kept[j][1] = "run"}

\* All that was seen is shown, or is a command and said to be left out; commands
\* are counted, and limited.
AddSound(s, a) ==
    /\ a \in Addings
    /\ \A t \in a.seen : t \in Range(a.kept) \/ (t[1] = "run" /\ a.skipped > 0)
    /\ IsFiniteSet(RunsIn(a.kept)) /\ a.commands = s.commands + Cardinality(RunsIn(a.kept))
    /\ a.commands <= MaxCommands /\ s.skipped <= a.skipped

LEMMA RangeAppend ==
  ASSUME NEW V, NEW p \in Seq(V), NEW t \in V PROVE Range(Append(p, t)) = Range(p) \cup {t}
  <1> DEFINE q == Append(p, t)
             N == Len(p)
  <1>1. /\ N \in Nat /\ DOMAIN p = 1..N /\ DOMAIN q = (1..N) \cup {N + 1}
        /\ q[N + 1] = t /\ \A n \in 1..N : q[n] = p[n]
    OBVIOUS
  <1> HIDE DEF q, N
  <1>2. Range(q) = {q[n] : n \in DOMAIN q} /\ Range(p) = {p[n] : n \in DOMAIN p}
    BY DEF Range
  <1>3. Range(q) = Range(p) \cup {t}
    BY <1>1, <1>2
  <1> QED BY <1>3 DEF q

LEMMA RunsAppend ==
  ASSUME NEW p \in Seq(TraceSet), NEW t \in TraceSet, IsFiniteSet(RunsIn(p))
  PROVE  /\ IsFiniteSet(RunsIn(Append(p, t)))
         /\ Cardinality(RunsIn(Append(p, t))) = IF t[1] = "run" THEN Cardinality(RunsIn(p)) + 1 ELSE Cardinality(RunsIn(p))
  <1> DEFINE q == Append(p, t)
             N == Len(p)
             R == RunsIn(p)
  <1>1. /\ N \in Nat /\ DOMAIN p = 1..N /\ DOMAIN q = (1..N) \cup {N + 1}
        /\ q[N + 1] = t /\ \A n \in 1..N : q[n] = p[n]
    OBVIOUS
  <1> HIDE DEF q, N
  <1>2. RunsIn(q) = IF t[1] = "run" THEN R \cup {N + 1} ELSE R
    <2>1. N + 1 \notin 1..N
      BY <1>1
    <2>2. \A j : j \in RunsIn(q) <=> j \in R \/ (j = N + 1 /\ t[1] = "run")
      BY <1>1, <2>1 DEF RunsIn
    <2> HIDE DEF R
    <2> QED BY <2>2
  <1>3. N + 1 \notin R
    BY <1>1 DEF RunsIn
  <1> HIDE DEF R
  <1>4. IsFiniteSet(R)
    BY DEF R
  <1>5. IsFiniteSet(R \cup {N + 1}) /\ Cardinality(R \cup {N + 1}) = Cardinality(R) + 1
    BY <1>3, <1>4, FS_AddElement
  <1>6. CASE t[1] = "run"
    BY <1>2, <1>5, <1>6 DEF q, R
  <1>7. CASE t[1] # "run"
    BY <1>2, <1>4, <1>7 DEF q, R
  <1> QED BY <1>6, <1>7

LEMMA AddStepSound ==
  ASSUME NEW s \in Segments, NEW a, AddSound(s, a), NEW t \in TraceSet
  PROVE  AddSound(s, AddTrace(a, t))
  <1> DEFINE b == AddTrace(a, t)
  <1>1. /\ b \in Addings /\ a.skipped <= b.skipped
        /\ \/ t \in a.seen /\ b = a
           \/ /\ b.seen = a.seen \cup {t} /\ t \notin a.seen
              /\ \/ /\ b.kept = Append(a.kept, t) /\ b.skipped = a.skipped
                    /\ \/ t[1] # "run" /\ b.commands = a.commands
                       \/ t[1] = "run" /\ b.commands = a.commands + 1 /\ a.commands < MaxCommands
                 \/ b.kept = a.kept /\ t[1] = "run" /\ b.commands = a.commands /\ b.skipped = a.skipped + 1
    BY AddTraceIs DEF AddSound
  <1> HIDE DEF b
  <1>2. /\ a.kept \in Seq(TraceSet) /\ a.commands \in Nat /\ a.skipped \in Nat
        /\ s.commands \in Nat /\ s.skipped \in Nat /\ MaxCommands \in Nat
    BY MaxCommandsAssumption DEF AddSound, Addings, Segments
  <1>3. /\ IsFiniteSet(RunsIn(a.kept)) /\ a.commands = s.commands + Cardinality(RunsIn(a.kept))
        /\ a.commands <= MaxCommands /\ s.skipped <= a.skipped
        /\ \A x \in a.seen : x \in Range(a.kept) \/ (x[1] = "run" /\ a.skipped > 0)
    BY DEF AddSound
  <1>4. CASE b = a
    BY <1>4 DEF b
  <1>5. CASE b.seen = a.seen \cup {t} /\ b.kept = Append(a.kept, t) /\ b.skipped = a.skipped
             /\ ((t[1] # "run" /\ b.commands = a.commands) \/ (t[1] = "run" /\ b.commands = a.commands + 1 /\ a.commands < MaxCommands))
    <2>1. Range(b.kept) = Range(a.kept) \cup {t}
      BY <1>2, <1>5, RangeAppend
    <2>2. /\ IsFiniteSet(RunsIn(b.kept))
          /\ Cardinality(RunsIn(b.kept)) = IF t[1] = "run" THEN Cardinality(RunsIn(a.kept)) + 1 ELSE Cardinality(RunsIn(a.kept))
      BY <1>2, <1>3, <1>5, RunsAppend
    <2>3. Cardinality(RunsIn(a.kept)) \in Nat
      BY <1>3, FS_CardinalityType
    <2>4. b.commands = s.commands + Cardinality(RunsIn(b.kept)) /\ b.commands <= MaxCommands
      <3> DEFINE k == Cardinality(RunsIn(a.kept))
                 l == Cardinality(RunsIn(b.kept))
                 m == a.commands
                 n == b.commands
      <3>1. k \in Nat /\ m \in Nat /\ s.commands \in Nat /\ MaxCommands \in Nat /\ m = s.commands + k /\ m <= MaxCommands
        BY <1>2, <1>3, <2>3
      <3>2. CASE t[1] = "run"
        <4>1. l = k + 1 /\ n = m + 1 /\ m < MaxCommands
          BY <1>5, <2>2, <3>2
        <4> HIDE DEF k, l, m, n
        <4> QED BY <3>1, <4>1 DEF l, n
      <3>3. CASE t[1] # "run"
        <4>1. l = k /\ n = m
          BY <1>5, <2>2, <3>3
        <4> HIDE DEF k, l, m, n
        <4> QED BY <3>1, <4>1 DEF l, n
      <3> QED BY <3>2, <3>3
    <2>5. \A x \in b.seen : x \in Range(b.kept) \/ (x[1] = "run" /\ b.skipped > 0)
      BY <1>3, <1>5, <2>1
    <2> QED BY <1>1, <1>3, <1>5, <2>2, <2>4, <2>5 DEF AddSound, b
  <1>6. CASE b.seen = a.seen \cup {t} /\ b.kept = a.kept /\ t[1] = "run" /\ b.commands = a.commands /\ b.skipped = a.skipped + 1
    <2>1. b.skipped > 0 /\ s.skipped <= b.skipped
      BY <1>2, <1>3, <1>6
    <2>2. \A x \in b.seen : x \in Range(b.kept) \/ (x[1] = "run" /\ b.skipped > 0)
      BY <1>3, <1>6, <2>1
    <2>3. IsFiniteSet(RunsIn(b.kept)) /\ b.commands = s.commands + Cardinality(RunsIn(b.kept)) /\ b.commands <= MaxCommands
      BY <1>3, <1>6
    <2>4. b \in Addings
      BY <1>1
    <2>5. AddSound(s, b)
      BY ONLY <2>1, <2>2, <2>3, <2>4 DEF AddSound
    <2> QED BY <2>5 DEF b
  <1>7. \/ b = a
        \/ /\ b.seen = a.seen \cup {t} /\ b.kept = Append(a.kept, t) /\ b.skipped = a.skipped
           /\ ((t[1] # "run" /\ b.commands = a.commands) \/ (t[1] = "run" /\ b.commands = a.commands + 1 /\ a.commands < MaxCommands))
        \/ b.seen = a.seen \cup {t} /\ b.kept = a.kept /\ t[1] = "run" /\ b.commands = a.commands /\ b.skipped = a.skipped + 1
    BY ONLY <1>1, Zenon
  <1> QED BY <1>4, <1>5, <1>6, <1>7, Zenon

LEMMA AddedSound ==
  ASSUME NEW s \in Segments, s.commands <= MaxCommands
  PROVE  \A traces \in Seq(TraceSet) : AddSound(s, Added(s, traces))
  <1> DEFINE S == {traces \in Seq(TraceSet) : AddSound(s, Added(s, traces))}
  <1>1. <<>> \in S
    <2> DEFINE a == StartOf(s)
    <2>1. a \in Addings /\ a.seen = {} /\ a.kept = <<>> /\ a.commands = s.commands /\ a.skipped = s.skipped
      BY StartIs
    <2>2. s.commands \in Nat /\ s.skipped \in Nat
      BY DEF Segments
    <2>3. RunsIn(<<>>) = {}
      BY DEF RunsIn
    <2>4. IsFiniteSet({}) /\ Cardinality({}) = 0
      BY FS_EmptySet
    <2> HIDE DEF a
    <2>5. AddSound(s, a)
      <3>1. RunsIn(a.kept) = {} /\ s.commands = s.commands + 0
        BY <2>1, <2>2, <2>3
      <3>2. a.commands = s.commands + Cardinality(RunsIn(a.kept)) /\ IsFiniteSet(RunsIn(a.kept))
        BY <2>1, <2>4, <3>1
      <3>3. a.commands <= MaxCommands /\ s.skipped <= a.skipped /\ \A x \in a.seen : FALSE
        BY <2>1, <2>2
      <3> QED BY <2>1, <3>2, <3>3 DEF AddSound
    <2>6. <<>> \in Seq(TraceSet)
      OBVIOUS
    <2> QED BY <2>5, <2>6, AddedOfNone DEF a
  <1>2. \A traces \in Seq(TraceSet) : traces \in S => \A t \in TraceSet : Append(traces, t) \in S
    <2> SUFFICES ASSUME NEW traces \in Seq(TraceSet), AddSound(s, Added(s, traces)), NEW t \in TraceSet
                 PROVE  Append(traces, t) \in Seq(TraceSet) /\ AddSound(s, Added(s, Append(traces, t)))
      OBVIOUS
    <2>1. AddSound(s, AddTrace(Added(s, traces), t))
      BY AddStepSound
    <2> QED BY <2>1, AddedAppend
  <1>3. \A traces \in Seq(TraceSet) : traces \in S
    <2> HIDE DEF S
    <2> QED BY <1>1, <1>2, BySnoc
  <1> QED BY <1>3

-----------------------------------------------------------------------------
(* Extraction: what is under a request.                                    *)

Answers(s, c) == Note(<<"answered", c>>) \in Range(s.lines)

\* What is told of is shown, or is a command and said to be left out.
TellsOf(s, t) == t \in ShownIn(s) \/ (t[1] = "run" /\ s.skipped > 0)

\* Lines are only added, and traces only at the end of a line.
LineGrows(l, m) == m.what = l.what /\ Len(l.traces) <= Len(m.traces) /\ \A j \in 1..Len(l.traces) : m.traces[j] = l.traces[j]
GrowsInto(s, t) ==
    /\ t.long = s.long /\ s.skipped <= t.skipped
    /\ Len(s.lines) <= Len(t.lines) /\ \A k \in 1..Len(s.lines) : LineGrows(s.lines[k], t.lines[k])

FewCommands(s) == s.commands <= MaxCommands /\ IsFiniteSet(CommandsOf(s)) /\ Cardinality(CommandsOf(s)) <= s.commands
SoundSegments  == {s \in Segments : FewCommands(s)}

LEMMA GrowsItself == ASSUME NEW s \in Segments PROVE GrowsInto(s, s)
  <1>1. s.lines \in Seq(LineSet) /\ s.skipped \in Nat
    BY DEF Segments
  <1>2. \A k \in 1..Len(s.lines) : LineGrows(s.lines[k], s.lines[k])
    <2> TAKE k \in 1..Len(s.lines)
    <2>1. s.lines[k] \in LineSet
      BY <1>1
    <2>2. s.lines[k].traces \in Seq(TraceSet)
      BY <2>1 DEF LineSet
    <2>3. Len(s.lines[k].traces) \in Nat
      BY <2>2
    <2> QED BY <2>3 DEF LineGrows
  <1>3. Len(s.lines) \in Nat
    BY <1>1
  <1> QED BY <1>1, <1>2, <1>3 DEF GrowsInto

\* What was worth it, told or shown stays so.
LEMMA GrowsKeeps ==
  ASSUME NEW s \in Segments, NEW t \in Segments, GrowsInto(s, t)
  PROVE  /\ WorthIt(s) => WorthIt(t)
         /\ \A x : TellsOf(s, x) => TellsOf(t, x)
         /\ \A x : x \in ShownIn(s) => x \in ShownIn(t)
  <1>1. /\ s.lines \in Seq(LineSet) /\ t.lines \in Seq(LineSet) /\ s.skipped \in Nat /\ t.skipped \in Nat
        /\ DOMAIN s.lines = 1..Len(s.lines) /\ DOMAIN t.lines = 1..Len(t.lines)
        /\ Len(s.lines) \in Nat /\ Len(t.lines) \in Nat
    BY DEF Segments
  <1>2. /\ t.long = s.long /\ s.skipped <= t.skipped /\ Len(s.lines) <= Len(t.lines)
        /\ \A k \in 1..Len(s.lines) : LineGrows(s.lines[k], t.lines[k])
    BY DEF GrowsInto
  <1>3. ASSUME NEW k \in DOMAIN s.lines, NEW j \in DOMAIN s.lines[k].traces
        PROVE  k \in DOMAIN t.lines /\ j \in DOMAIN t.lines[k].traces /\ t.lines[k].traces[j] = s.lines[k].traces[j] /\ j \in Nat
    <2>1. k \in 1..Len(s.lines) /\ k \in 1..Len(t.lines)
      BY <1>1, <1>2
    <2>2. s.lines[k] \in LineSet /\ t.lines[k] \in LineSet
      BY <1>1, <2>1
    <2>3. s.lines[k].traces \in Seq(TraceSet) /\ t.lines[k].traces \in Seq(TraceSet)
      BY <2>2 DEF LineSet
    <2> DEFINE p == s.lines[k].traces
               q == t.lines[k].traces
    <2>4. Len(p) <= Len(q) /\ \A i \in 1..Len(p) : q[i] = p[i]
      BY <1>2, <2>1 DEF LineGrows
    <2>5. p \in Seq(TraceSet) /\ q \in Seq(TraceSet) /\ j \in DOMAIN p
      BY <2>3
    <2> HIDE DEF p, q
    <2>6. j \in DOMAIN q /\ q[j] = p[j] /\ j \in Nat
      BY <2>4, <2>5
    <2> QED BY <1>1, <2>1, <2>6 DEF p, q
  <1>4. \A x : x \in ShownIn(s) => x \in ShownIn(t)
    <2> SUFFICES ASSUME NEW x \in ShownIn(s) PROVE x \in ShownIn(t)
      OBVIOUS
    <2>1. PICK k \in DOMAIN s.lines : x \in Range(s.lines[k].traces)
      BY DEF ShownIn
    <2>2. PICK j \in DOMAIN s.lines[k].traces : x = s.lines[k].traces[j]
      BY <2>1 DEF Range
    <2>3. k \in DOMAIN t.lines /\ j \in DOMAIN t.lines[k].traces /\ t.lines[k].traces[j] = x
      BY <1>3, <2>2
    <2>4. x \in Range(t.lines[k].traces)
      BY <2>3 DEF Range
    <2> QED BY <2>3, <2>4 DEF ShownIn
  <1>5. s.skipped > 0 => t.skipped > 0
    BY <1>1, <1>2
  <1>6. WorthIt(s) => WorthIt(t)
    <2>1. CASE s.long
      BY <1>2, <2>1 DEF WorthIt
    <2>2. CASE \E k \in DOMAIN s.lines : \E j \in DOMAIN s.lines[k].traces : j > 1 /\ s.lines[k].traces[j][1] = "edit"
      <3>1. PICK k \in DOMAIN s.lines : \E j \in DOMAIN s.lines[k].traces : j > 1 /\ s.lines[k].traces[j][1] = "edit"
        BY <2>2
      <3>2. PICK j \in DOMAIN s.lines[k].traces : j > 1 /\ s.lines[k].traces[j][1] = "edit"
        BY <3>1
      <3>3. k \in DOMAIN t.lines /\ j \in DOMAIN t.lines[k].traces /\ t.lines[k].traces[j][1] = "edit"
        BY <1>3, <3>2
      <3> QED BY <3>2, <3>3 DEF WorthIt
    <2> QED BY <2>1, <2>2 DEF WorthIt
  <1> QED BY <1>4, <1>5, <1>6 DEF TellsOf

\* Commands of a further line.
LEMMA CommandsAppend ==
  ASSUME NEW s \in Segments, NEW t \in Segments, NEW l \in LineSet, t.lines = Append(s.lines, l),
         IsFiniteSet(CommandsOf(s)), IsFiniteSet(RunsIn(l.traces))
  PROVE  IsFiniteSet(CommandsOf(t)) /\ Cardinality(CommandsOf(t)) <= Cardinality(CommandsOf(s)) + Cardinality(RunsIn(l.traces))
  <1> DEFINE N == Len(s.lines)
             R == RunsIn(l.traces)
             M == {<<N + 1, j>> : j \in R}
             C == CommandsOf(s)
             D == CommandsOf(t)
  <1>1. /\ N \in Nat /\ DOMAIN s.lines = 1..N /\ DOMAIN t.lines = (1..N) \cup {N + 1}
        /\ t.lines[N + 1] = l /\ \A n \in 1..N : t.lines[n] = s.lines[n]
    <2>1. s.lines \in Seq(LineSet)
      BY DEF Segments
    <2> QED BY <2>1
  <1>2. D = C \cup M
    <2> HIDE DEF N
    <2>1. \A x : x \in C <=> \E i \in DOMAIN s.lines : \E j \in DOMAIN s.lines[i].traces : s.lines[i].traces[j][1] = "run" /\ x = <<i, j>>
      BY DEF CommandsOf
    <2>2. \A x : x \in D <=> \E i \in DOMAIN t.lines : \E j \in DOMAIN t.lines[i].traces : t.lines[i].traces[j][1] = "run" /\ x = <<i, j>>
      BY DEF CommandsOf
    <2>3. \A x : x \in M <=> \E j \in DOMAIN l.traces : l.traces[j][1] = "run" /\ x = <<N + 1, j>>
      BY DEF RunsIn
    <2> HIDE DEF C, D, M, R
    <2>4. ASSUME NEW x \in D PROVE x \in C \cup M
      <3>1. PICK i \in DOMAIN t.lines : \E j \in DOMAIN t.lines[i].traces : t.lines[i].traces[j][1] = "run" /\ x = <<i, j>>
        BY <2>2
      <3>2. CASE i = N + 1
        BY <1>1, <2>3, <3>1, <3>2
      <3>3. CASE i \in 1..N
        BY <1>1, <2>1, <3>1, <3>3
      <3> QED BY <1>1, <3>2, <3>3
    <2>5. ASSUME NEW x \in C PROVE x \in D
      <3>1. PICK i \in DOMAIN s.lines : \E j \in DOMAIN s.lines[i].traces : s.lines[i].traces[j][1] = "run" /\ x = <<i, j>>
        BY <2>1
      <3> QED BY <1>1, <2>2, <3>1
    <2>6. ASSUME NEW x \in M PROVE x \in D
      BY <1>1, <2>2, <2>3
    <2> QED BY <2>4, <2>5, <2>6
  <1> HIDE DEF R, C, D
  <1>3. IsFiniteSet(R) /\ IsFiniteSet(C)
    BY DEF R, C
  <1>4. IsFiniteSet(M) /\ Cardinality(M) <= Cardinality(R)
    <2> DEFINE f == [j \in R |-> <<N + 1, j>>]
    <2>1. f \in Surjection(R, M)
      BY DEF Surjection
    <2> HIDE DEF f, M
    <2> QED BY <1>3, <2>1, FS_Surjection
  <1> HIDE DEF M
  <1>5. /\ IsFiniteSet(C \cup M)
        /\ Cardinality(C \cup M) = Cardinality(C) + Cardinality(M) - Cardinality(C \cap M)
    BY <1>3, <1>4, FS_Union
  <1>6. Cardinality(C \cap M) \in Nat
    BY <1>3, FS_Intersection, FS_CardinalityType
  <1>7. Cardinality(C) \in Nat /\ Cardinality(M) \in Nat /\ Cardinality(R) \in Nat
    BY <1>3, <1>4, FS_CardinalityType
  <1>8. Cardinality(C \cup M) <= Cardinality(C) + Cardinality(R)
    BY <1>4, <1>5, <1>6, <1>7
  <1> QED BY <1>2, <1>5, <1>8 DEF C, D, R

\* With the traces that are kept.
KeptLines(lines, kept) == IF kept = <<>> THEN lines ELSE Append(lines, Tools(kept))

LEMMA AddIs ==
  ASSUME NEW s \in Segments, NEW traces \in Seq(TraceSet)
  PROVE  LET a == Added(s, traces)  t == Add(s, traces)
         IN /\ t \in Segments /\ t.long = s.long /\ t.commands = a.commands /\ t.skipped = a.skipped
            /\ t.lines = KeptLines(s.lines, a.kept)
  <1> DEFINE a == Added(s, traces)
             t == Add(s, traces)
             lines == KeptLines(s.lines, a.kept)
  <1>1. a \in Addings
    BY AddedIsLast
  <1>2. t = [s EXCEPT !.lines = lines, !.commands = a.commands, !.skipped = a.skipped]
    BY DEF Add, KeptLines
  <1> HIDE DEF a, t
  <1>3. a.kept \in Seq(TraceSet) /\ a.commands \in Nat /\ a.skipped \in Nat
    BY <1>1 DEF Addings
  <1>4. lines \in Seq(LineSet)
    <2>1. s.lines \in Seq(LineSet)
      BY DEF Segments
    <2>2. Tools(a.kept) \in LineSet
      BY <1>3 DEF Tools, LineSet
    <2>3. Append(s.lines, Tools(a.kept)) \in Seq(LineSet)
      BY <2>1, <2>2
    <2> QED BY <2>1, <2>3 DEF KeptLines
  <1> HIDE DEF lines
  <1>5. t \in Segments /\ t.long = s.long /\ t.commands = a.commands /\ t.skipped = a.skipped /\ t.lines = lines
    BY <1>2, <1>3, <1>4 DEF Segments
  <1> QED BY <1>5 DEF a, t, lines

LEMMA AddSoundly ==
  ASSUME NEW s \in SoundSegments, NEW traces \in Seq(TraceSet)
  PROVE  Add(s, traces) \in SoundSegments
  <1> DEFINE a == Added(s, traces)
             t == Add(s, traces)
  <1>1. s \in Segments /\ s.commands <= MaxCommands /\ IsFiniteSet(CommandsOf(s)) /\ Cardinality(CommandsOf(s)) <= s.commands
    BY DEF SoundSegments, FewCommands
  <1>2. AddSound(s, a)
    BY <1>1, AddedSound
  <1>3. /\ t \in Segments /\ t.commands = a.commands /\ t.lines = KeptLines(s.lines, a.kept)
    BY <1>1, AddIs
  <1> HIDE DEF a, t
  <1>4. /\ a.kept \in Seq(TraceSet) /\ IsFiniteSet(RunsIn(a.kept)) /\ a.commands \in Nat
        /\ a.commands = s.commands + Cardinality(RunsIn(a.kept)) /\ a.commands <= MaxCommands
    BY <1>2 DEF AddSound, Addings
  <1>5. s.commands \in Nat /\ Cardinality(CommandsOf(s)) \in Nat /\ Cardinality(RunsIn(a.kept)) \in Nat
    BY <1>1, <1>4, FS_CardinalityType DEF Segments
  <1>6. IsFiniteSet(CommandsOf(t)) /\ Cardinality(CommandsOf(t)) <= t.commands
    <2>1. CASE a.kept = <<>>
      <3>1. t.lines = s.lines
        BY <1>3, <2>1 DEF KeptLines
      <3>2. CommandsOf(t) = CommandsOf(s)
        BY <3>1 DEF CommandsOf
      <3> QED BY <1>1, <1>3, <1>4, <1>5, <3>2
    <2>2. CASE a.kept # <<>>
      <3> DEFINE l == Tools(a.kept)
      <3>1. l \in LineSet /\ l.traces = a.kept
        BY <1>4 DEF Tools, LineSet
      <3>2. t.lines = Append(s.lines, l)
        BY <1>3, <2>2 DEF KeptLines
      <3> HIDE DEF l
      <3>3. IsFiniteSet(RunsIn(l.traces))
        BY <1>4, <3>1
      <3>4. IsFiniteSet(CommandsOf(t)) /\ Cardinality(CommandsOf(t)) <= Cardinality(CommandsOf(s)) + Cardinality(RunsIn(l.traces))
        BY <1>1, <1>3, <3>1, <3>2, <3>3, CommandsAppend
      <3>5. Cardinality(CommandsOf(t)) \in Nat
        BY <3>4, FS_CardinalityType
      <3>6. Cardinality(CommandsOf(t)) <= Cardinality(CommandsOf(s)) + Cardinality(RunsIn(a.kept))
        BY <3>1, <3>4
      <3> DEFINE k == Cardinality(CommandsOf(t))
                 m == Cardinality(CommandsOf(s))
                 n == Cardinality(RunsIn(a.kept))
      <3>7. k <= m + n /\ m <= s.commands /\ a.commands = s.commands + n /\ k \in Nat /\ m \in Nat /\ n \in Nat /\ s.commands \in Nat
        BY <1>1, <1>4, <1>5, <3>5, <3>6
      <3> HIDE DEF k, m, n
      <3>8. k <= a.commands
        BY <3>7
      <3> QED BY <1>3, <3>4, <3>8 DEF k
    <2> QED BY <2>1, <2>2
  <1>7. t \in SoundSegments
    BY <1>3, <1>4, <1>6 DEF SoundSegments, FewCommands
  <1> QED BY <1>7 DEF t

LEMMA LineGrowsItself == ASSUME NEW l \in LineSet PROVE LineGrows(l, l)
  <1>1. Len(l.traces) \in Nat
    BY DEF LineSet
  <1> QED BY <1>1 DEF LineGrows

LEMMA WithOneLine ==
  ASSUME NEW p \in Seq(LineSet), NEW l \in LineSet
  PROVE  /\ Len(p) \in Nat /\ Append(p, l) \in Seq(LineSet) /\ Len(Append(p, l)) = Len(p) + 1 /\ Append(p, l)[Len(p) + 1] = l
         /\ \A i \in 1..Len(p) : Append(p, l)[i] = p[i] /\ LineGrows(p[i], Append(p, l)[i])
         /\ Range(Append(p, l)) = Range(p) \cup {l}
  <1>1. /\ Len(p) \in Nat /\ Append(p, l) \in Seq(LineSet) /\ Len(Append(p, l)) = Len(p) + 1 /\ Append(p, l)[Len(p) + 1] = l
        /\ \A i \in 1..Len(p) : Append(p, l)[i] = p[i] /\ p[i] \in LineSet
    OBVIOUS
  <1>2. Range(Append(p, l)) = Range(p) \cup {l}
    BY RangeAppend
  <1> QED BY <1>1, <1>2, LineGrowsItself

\* One trace more.
LEMMA KeptGrows ==
  ASSUME NEW p \in Seq(LineSet), NEW k \in Seq(TraceSet), NEW t \in TraceSet
  PROVE  LET q == KeptLines(p, k)  r == KeptLines(p, Append(k, t))
         IN /\ Len(q) <= Len(r) /\ \A i \in 1..Len(q) : LineGrows(q[i], r[i])
            /\ \A l : l.what # <<"tools">> => (l \in Range(q) <=> l \in Range(r))
  <1> DEFINE q == KeptLines(p, k)
             j == Append(k, t)
             r == KeptLines(p, j)
             N == Len(p)
             L == Tools(k)
             M == Tools(j)
  <1>1. j \in Seq(TraceSet) /\ j # <<>> /\ Len(k) <= Len(j) /\ \A i \in 1..Len(k) : j[i] = k[i]
    <2>1. j \in Seq(TraceSet) /\ Len(j) = Len(k) + 1 /\ Len(k) \in Nat /\ \A i \in 1..Len(k) : j[i] = k[i]
      OBVIOUS
    <2>2. Len(j) # 0 /\ Len(k) <= Len(j)
      BY <2>1
    <2>3. Len(<<>>) = 0
      OBVIOUS
    <2> HIDE DEF j
    <2> QED BY <2>1, <2>2, <2>3
  <1>2. L \in LineSet /\ M \in LineSet /\ L.what = <<"tools">> /\ M.what = <<"tools">> /\ L.traces = k /\ M.traces = j
    BY <1>1 DEF Tools, LineSet
  <1>3. r = Append(p, M)
    BY <1>1 DEF KeptLines
  <1>4. LineGrows(L, M)
    <2> HIDE DEF L, M, j
    <2> QED BY <1>1, <1>2 DEF LineGrows
  <1>5. /\ N \in Nat /\ Len(r) = N + 1 /\ r[N + 1] = M /\ Range(r) = Range(p) \cup {M}
        /\ \A i \in 1..N : r[i] = p[i] /\ LineGrows(p[i], r[i])
    BY <1>2, <1>3, WithOneLine
  <1>6. CASE k = <<>>
    <2>1. q = p
      BY <1>6 DEF KeptLines
    <2> HIDE DEF q, r, L, M, j
    <2>2. Len(q) <= Len(r) /\ \A i \in 1..Len(q) : LineGrows(q[i], r[i])
      BY <1>5, <2>1
    <2>3. \A l : l.what # <<"tools">> => (l \in Range(q) <=> l \in Range(r))
      BY <1>2, <1>5, <2>1
    <2> QED BY <2>2, <2>3 DEF q, r, j
  <1>7. CASE k # <<>>
    <2>1. q = Append(p, L)
      BY <1>7 DEF KeptLines
    <2>2. Len(q) = N + 1 /\ q[N + 1] = L /\ Range(q) = Range(p) \cup {L} /\ \A i \in 1..N : q[i] = p[i]
      BY <1>2, <2>1, WithOneLine
    <2> HIDE DEF q, r, L, M, j, N
    <2>3. Len(q) <= Len(r)
      BY <1>5, <2>2
    <2>4. ASSUME NEW i \in 1..(N + 1) PROVE LineGrows(q[i], r[i])
      <3>1. CASE i = N + 1
        BY <1>4, <1>5, <2>2, <3>1
      <3>2. CASE i # N + 1
        <4>1. i \in 1..N
          BY <1>5, <3>2
        <4> QED BY <1>5, <2>2, <4>1
      <3> QED BY <3>1, <3>2
    <2>5. \A l : l.what # <<"tools">> => (l \in Range(q) <=> l \in Range(r))
      BY <1>2, <1>5, <2>2
    <2>6. Len(q) <= Len(r) /\ \A i \in 1..Len(q) : LineGrows(q[i], r[i])
      BY <2>2, <2>3, <2>4
    <2> QED BY <2>5, <2>6 DEF q, r, j
  <1> QED BY <1>6, <1>7

LEMMA KeptStays ==
  ASSUME NEW p \in Seq(LineSet), NEW k \in Seq(TraceSet)
  PROVE  KeptLines(p, k) \in Seq(LineSet) /\ \A i \in 1..Len(KeptLines(p, k)) : LineGrows(KeptLines(p, k)[i], KeptLines(p, k)[i])
  <1>1. Tools(k) \in LineSet
    BY DEF Tools, LineSet
  <1>2. KeptLines(p, k) \in Seq(LineSet)
    BY <1>1, WithOneLine DEF KeptLines
  <1> DEFINE q == KeptLines(p, k)
  <1> HIDE DEF q
  <1>3. \A i \in 1..Len(q) : q[i] \in LineSet
    BY <1>2 DEF q
  <1> QED BY <1>2, <1>3, LineGrowsItself DEF q

LEMMA AddTells ==
  ASSUME NEW s \in SoundSegments, NEW traces \in Seq(TraceSet), NEW t \in TraceSet
  PROVE  LET x == Add(s, traces)  y == Add(s, Append(traces, t))
         IN /\ GrowsInto(x, y) /\ TellsOf(y, t)
            /\ \A c : Answers(y, c) <=> Answers(x, c)
  <1> DEFINE a == Added(s, traces)
             q == Append(traces, t)
             b == Added(s, q)
             x == Add(s, traces)
             y == Add(s, q)
             p == s.lines
  <1>1. s \in Segments /\ s.commands <= MaxCommands /\ q \in Seq(TraceSet)
    BY DEF SoundSegments, FewCommands
  <1>2. a \in Addings /\ b = AddTrace(a, t)
    BY <1>1, AddedIsLast, AddedAppend
  <1>3. b \in Addings /\ t \in b.seen /\ a.skipped <= b.skipped /\ (b.kept = a.kept \/ b.kept = Append(a.kept, t))
    <2> HIDE DEF a, b
    <2>1. LET d == AddTrace(a, t) IN d \in Addings /\ t \in d.seen /\ a.skipped <= d.skipped /\ (d.kept = a.kept \/ d.kept = Append(a.kept, t))
      BY <1>2, AddTraceIs
    <2> QED BY <1>2, <2>1
  <1>4. AddSound(s, b)
    <2> HIDE DEF q
    <2> QED BY <1>1, AddedSound
  <1>5. x \in Segments /\ x.long = s.long /\ x.skipped = a.skipped /\ x.lines = KeptLines(p, a.kept)
    BY <1>1, AddIs
  <1>6. y \in Segments /\ y.long = s.long /\ y.skipped = b.skipped /\ y.lines = KeptLines(p, b.kept)
    <2> HIDE DEF q
    <2> QED BY <1>1, AddIs
  <1> HIDE DEF a, b, x, y, q
  <1>7. p \in Seq(LineSet) /\ a.kept \in Seq(TraceSet) /\ b.kept \in Seq(TraceSet)
    BY <1>1, <1>2, <1>3 DEF Segments, Addings
  <1> HIDE DEF p
  <1>8. /\ Len(x.lines) <= Len(y.lines) /\ \A i \in 1..Len(x.lines) : LineGrows(x.lines[i], y.lines[i])
        /\ \A l : l.what # <<"tools">> => (l \in Range(x.lines) <=> l \in Range(y.lines))
    <2>1. CASE b.kept = a.kept
      <3>1. y.lines = x.lines
        BY <1>5, <1>6, <2>1
      <3>2. x.lines \in Seq(LineSet) /\ \A i \in 1..Len(x.lines) : LineGrows(x.lines[i], x.lines[i])
        BY <1>5, <1>7, KeptStays
      <3>3. Len(x.lines) <= Len(x.lines)
        BY <3>2
      <3> QED BY <3>1, <3>2, <3>3
    <2>2. CASE b.kept = Append(a.kept, t)
      BY <1>5, <1>6, <1>7, <2>2, KeptGrows
    <2> QED BY <1>3, <2>1, <2>2
  <1>9. GrowsInto(x, y)
    BY <1>3, <1>5, <1>6, <1>8 DEF GrowsInto
  <1>10. TellsOf(y, t)
    <2>1. CASE t \in Range(b.kept)
      <3>1. b.kept # <<>>
        BY <2>1 DEF Range
      <3>2. y.lines = Append(p, Tools(b.kept))
        BY <1>6, <3>1 DEF KeptLines
      <3> DEFINE n == Len(p) + 1
      <3>3. Tools(b.kept) \in LineSet /\ Tools(b.kept).traces = b.kept
        BY <1>7 DEF Tools, LineSet
      <3>4. n \in DOMAIN y.lines /\ y.lines[n] = Tools(b.kept)
        <4>1. Len(p) \in Nat /\ Append(p, Tools(b.kept)) \in Seq(LineSet) /\ Len(Append(p, Tools(b.kept))) = n /\ Append(p, Tools(b.kept))[n] = Tools(b.kept)
          BY <1>7, <3>3, WithOneLine
        <4>2. y.lines \in Seq(LineSet) /\ Len(y.lines) = n /\ y.lines[n] = Tools(b.kept) /\ n \in 1..n
          BY <3>2, <4>1
        <4> QED BY <4>2
      <3> HIDE DEF n
      <3>5. t \in Range(y.lines[n].traces)
        BY <2>1, <3>3, <3>4
      <3> QED BY <3>4, <3>5 DEF TellsOf, ShownIn
    <2>2. CASE t[1] = "run" /\ b.skipped > 0
      BY <1>6, <2>2 DEF TellsOf
    <2> QED BY <1>3, <1>4, <2>1, <2>2 DEF AddSound
  <1>11. ASSUME NEW c PROVE Answers(y, c) <=> Answers(x, c)
    <2>1. Note(<<"answered", c>>).what = <<"answered", c>>
      BY DEF Note
    <2>2. <<"answered", c>> # <<"tools">>
      OBVIOUS
    <2> QED BY <1>8, <2>1, <2>2 DEF Answers
  <1> QED BY <1>9, <1>10, <1>11 DEF x, y, q

\* One note more.
LEMMA NoteTells ==
  ASSUME NEW s \in SoundSegments, NEW w \in Whats, NEW t,
         t = [s EXCEPT !.lines = Append(@, Note(w))]
  PROVE  /\ t \in SoundSegments /\ GrowsInto(s, t) /\ t.lines = Append(s.lines, Note(w)) /\ Note(w) \in LineSet
         /\ \A c : Answers(t, c) <=> Answers(s, c) \/ w = <<"answered", c>>
  <1> DEFINE l == Note(w)
  <1>1. s \in Segments /\ FewCommands(s) /\ s.lines \in Seq(LineSet)
    BY DEF SoundSegments, Segments
  <1>2. l \in LineSet /\ l.traces = <<>> /\ l.what = w
    BY DEF Note, LineSet
  <1>3. t.lines = Append(s.lines, l) /\ t.long = s.long /\ t.commands = s.commands /\ t.skipped = s.skipped /\ t \in Segments
    <2>1. Append(s.lines, l) \in Seq(LineSet)
      BY <1>1, <1>2, WithOneLine
    <2> DEFINE m == Append(s.lines, l)
    <2>2. t = [s EXCEPT !.lines = m]
      OBVIOUS
    <2> HIDE DEF m
    <2>3. t.lines = m /\ t.long = s.long /\ t.commands = s.commands /\ t.skipped = s.skipped /\ t \in Segments
      BY <1>1, <2>1, <2>2 DEF Segments, m
    <2> QED BY <2>3 DEF m
  <1> HIDE DEF l
  <1>4. /\ Len(s.lines) \in Nat /\ Len(t.lines) = Len(s.lines) + 1 /\ Range(t.lines) = Range(s.lines) \cup {l}
        /\ \A i \in 1..Len(s.lines) : LineGrows(s.lines[i], t.lines[i])
    BY <1>1, <1>2, <1>3, WithOneLine
  <1>5. GrowsInto(s, t)
    <2>1. s.skipped \in Nat
      BY <1>1 DEF Segments
    <2>2. s.skipped <= t.skipped /\ Len(s.lines) <= Len(t.lines)
      BY <1>3, <1>4, <2>1
    <2> QED BY <1>3, <1>4, <2>2 DEF GrowsInto
  <1>6. FewCommands(t)
    <2>1. RunsIn(l.traces) = {}
      BY <1>2 DEF RunsIn
    <2>2. IsFiniteSet(RunsIn(l.traces)) /\ Cardinality(RunsIn(l.traces)) = 0
      BY <2>1, FS_EmptySet
    <2>3. IsFiniteSet(CommandsOf(s)) /\ Cardinality(CommandsOf(s)) <= s.commands /\ s.commands <= MaxCommands
      BY <1>1 DEF FewCommands
    <2>4. IsFiniteSet(CommandsOf(t)) /\ Cardinality(CommandsOf(t)) <= Cardinality(CommandsOf(s)) + Cardinality(RunsIn(l.traces))
      BY <1>1, <1>2, <1>3, <2>2, <2>3, CommandsAppend
    <2>5. Cardinality(CommandsOf(t)) \in Nat /\ Cardinality(CommandsOf(s)) \in Nat /\ s.commands \in Nat
      BY <1>1, <2>3, <2>4, FS_CardinalityType DEF Segments
    <2>6. Cardinality(CommandsOf(t)) <= Cardinality(CommandsOf(s)) + 0
      BY <2>2, <2>4
    <2>7. Cardinality(CommandsOf(t)) <= s.commands
      BY <2>3, <2>5, <2>6
    <2> QED BY <1>3, <2>3, <2>4, <2>7 DEF FewCommands
  <1>7. ASSUME NEW c PROVE Answers(t, c) <=> Answers(s, c) \/ w = <<"answered", c>>
    <2>1. Note(<<"answered", c>>) = l <=> w = <<"answered", c>>
      BY <1>2 DEF Note, l
    <2> QED BY <1>4, <2>1 DEF Answers
  <1> QED BY <1>2, <1>3, <1>5, <1>6, <1>7 DEF SoundSegments, l

LEMMA NewSegmentIs ==
  ASSUME NEW long \in BOOLEAN
  PROVE  /\ NewSegment(long) \in SoundSegments /\ \A c : ~Answers(NewSegment(long), c)
  <1> DEFINE s == NewSegment(long)
  <1>1. s.long = long /\ s.lines = <<>> /\ s.commands = 0 /\ s.skipped = 0 /\ s \in Segments
    BY DEF NewSegment, Segments
  <1> HIDE DEF s
  <1>2. CommandsOf(s) = {} /\ Range(s.lines) = {}
    BY <1>1 DEF CommandsOf, Range
  <1>3. IsFiniteSet(CommandsOf(s)) /\ Cardinality(CommandsOf(s)) = 0
    BY <1>2, FS_EmptySet
  <1>4. FewCommands(s)
    BY <1>1, <1>3, MaxCommandsAssumption DEF FewCommands
  <1> QED BY <1>1, <1>2, <1>4 DEF SoundSegments, Answers, s

-----------------------------------------------------------------------------
(* Extraction: the requests of a reader.                                   *)

SoundReaders == [segments : Seq(SoundSegments), traces : Seq(TraceSet), pending : SUBSET Calls]
View(r) == Drained(r).segments

\* All but the last request stay, and the last one only grows.
Continues(b, a) ==
    Len(b) <= Len(a) /\ \A i \in 1..Len(b) : GrowsInto(b[i], a[i]) /\ (i < Len(b) => a[i] = b[i])

\* The one note that came in is w.
SaysOnly(b, a, w) ==
    \A c : \A i \in 1..Len(a) :
        Answers(a[i], c) => (i \in 1..Len(b) /\ Answers(b[i], c)) \/ (i = Len(a) /\ w = <<"answered", c>>)

LEMMA AddOfNone == ASSUME NEW s \in Segments PROVE Add(s, <<>>) = s
  <1> DEFINE t == Add(s, <<>>)
             a == StartOf(s)
  <1>1. a.kept = <<>> /\ a.commands = s.commands /\ a.skipped = s.skipped
    BY StartIs
  <1>2. t \in Segments /\ t.long = s.long /\ t.commands = a.commands /\ t.skipped = a.skipped
        /\ t.lines = KeptLines(s.lines, a.kept)
    <2>1. <<>> \in Seq(TraceSet)
      OBVIOUS
    <2>2. Added(s, <<>>) = a
      BY AddedOfNone
    <2> HIDE DEF a
    <2> QED BY <2>1, <2>2, AddIs
  <1> HIDE DEF a, t
  <1>3. t.lines = s.lines
    BY <1>1, <1>2 DEF KeptLines
  <1>4. s = [long |-> s.long, lines |-> s.lines, commands |-> s.commands, skipped |-> s.skipped]
    BY DEF Segments
  <1>5. t = [long |-> t.long, lines |-> t.lines, commands |-> t.commands, skipped |-> t.skipped]
    BY <1>2 DEF Segments
  <1>6. t = s
    BY <1>1, <1>2, <1>3, <1>4, <1>5
  <1> QED BY <1>6 DEF t

LEMMA LastSegment ==
  ASSUME NEW b \in Seq(SoundSegments), b # <<>>, NEW x \in SoundSegments
  PROVE  LET a == [b EXCEPT ![Len(b)] = x]
         IN /\ Len(b) \in Nat \ {0} /\ Len(b) \in 1..Len(b) /\ b[Len(b)] \in SoundSegments /\ a # <<>>
            /\ a \in Seq(SoundSegments) /\ Len(a) = Len(b) /\ a[Len(b)] = x
            /\ \A i \in 1..Len(b) : i # Len(b) => a[i] = b[i]
  <1> DEFINE L == Len(b)
             a == [b EXCEPT ![L] = x]
  <1>1. L \in Nat /\ L # 0
    BY EmptySeq
  <1>2. L \in Nat \ {0} /\ L \in 1..L
    BY <1>1
  <1>3. b[L] \in SoundSegments
    BY <1>2
  <1>4. a \in Seq(SoundSegments) /\ Len(a) = L /\ a[L] = x /\ \A i \in 1..L : i # L => a[i] = b[i]
    BY <1>2
  <1>5. a # <<>>
    <2>1. Len(<<>>) = 0
      OBVIOUS
    <2> HIDE DEF a, L
    <2> QED BY <1>1, <1>4, <2>1
  <1> QED BY <1>2, <1>3, <1>4, <1>5

LEMMA DrainedIs ==
  ASSUME NEW r \in SoundReaders
  PROVE  /\ Drained(r) = [segments |-> View(r), traces |-> <<>>, pending |-> r.pending]
         /\ View(r) \in Seq(SoundSegments) /\ Len(View(r)) = Len(r.segments)
         /\ r.segments = <<>> <=> View(r) = <<>>
         /\ r.segments # <<>> => /\ r.segments[Len(r.segments)] \in SoundSegments
                                /\ View(r) = [r.segments EXCEPT ![Len(r.segments)] = Add(r.segments[Len(r.segments)], r.traces)]
  <1> DEFINE b == r.segments
             L == Len(b)
             x == Add(b[L], r.traces)
             d == Drained(r)
             v == IF r.traces = <<>> \/ b = <<>> THEN b ELSE [b EXCEPT ![L] = x]
  <1>1. b \in Seq(SoundSegments) /\ r.traces \in Seq(TraceSet) /\ r.pending \in SUBSET Calls
    BY DEF SoundReaders
  <1>3. d = [segments |-> v, traces |-> <<>>, pending |-> r.pending]
    <2>1. r = [segments |-> b, traces |-> r.traces, pending |-> r.pending]
      BY DEF SoundReaders
    <2>2. CASE r.traces = <<>> \/ b = <<>>
      <3>1. d = [r EXCEPT !.traces = <<>>] /\ v = b
        BY <2>2 DEF Drained
      <3> HIDE DEF d, v, b
      <3> QED BY <2>1, <3>1
    <2>3. CASE ~(r.traces = <<>> \/ b = <<>>)
      <3>1. d = [r EXCEPT !.traces = <<>>, !.segments = WithLast(@, Add(Last(@), r.traces))]
        BY <2>3 DEF Drained
      <3>2. WithLast(b, Add(Last(b), r.traces)) = v
        BY <2>3 DEF WithLast, Last
      <3> DEFINE u == WithLast(b, Add(Last(b), r.traces))
      <3>3. d = [r EXCEPT !.traces = <<>>, !.segments = u]
        <4>1. [r EXCEPT !.traces = <<>>].segments = b
          BY <2>1
        <4> QED BY <3>1, <4>1
      <3> HIDE DEF d, u, b, v
      <3>4. d = [segments |-> u, traces |-> <<>>, pending |-> r.pending]
        BY <2>1, <3>3
      <3> QED BY <3>2, <3>4 DEF u
    <2> QED BY <2>2, <2>3
  <1> HIDE DEF v, d
  <1>4. View(r) = v
    BY <1>3 DEF View, d
  <1>5. CASE b = <<>>
    BY <1>1, <1>3, <1>4, <1>5 DEF v, d
  <1>6. CASE b # <<>>
    <2> HIDE DEF b
    <2>1. L \in 1..L /\ b[L] \in SoundSegments /\ b[L] \in Segments
      <3>1. b[L] \in SoundSegments /\ L \in 1..L
        BY <1>1, <1>6, LastSegment
      <3> QED BY <3>1 DEF SoundSegments
    <2>2. x \in SoundSegments
      <3> HIDE DEF L
      <3> QED BY <1>1, <2>1, AddSoundly
    <2>4. v = [b EXCEPT ![L] = x]
      <3>1. CASE r.traces = <<>>
        <4>1. x = b[L]
          BY <2>1, <3>1, AddOfNone
        <4>2. [b EXCEPT ![L] = b[L]] = b
          BY <1>1
        <4> QED BY <3>1, <4>1, <4>2 DEF v
      <3>2. CASE r.traces # <<>>
        BY <1>6, <3>2 DEF v
      <3> QED BY <3>1, <3>2
    <2> HIDE DEF x
    <2>5. v \in Seq(SoundSegments) /\ Len(v) = L /\ v # <<>>
      BY <1>1, <1>6, <2>2, <2>4, LastSegment
    <2> QED BY <1>3, <1>4, <1>6, <2>1, <2>4, <2>5 DEF d, b, x
  <1> QED BY <1>5, <1>6

LEMMA DrainedSound ==
  ASSUME NEW r \in SoundReaders
  PROVE  /\ Drained(r) \in SoundReaders /\ Drained(r).segments = View(r)
         /\ Drained(r).traces = <<>> /\ Drained(r).pending = r.pending
  <1> DEFINE d == Drained(r)
             v == View(r)
  <1>1. d = [segments |-> v, traces |-> <<>>, pending |-> r.pending] /\ v \in Seq(SoundSegments)
    BY DrainedIs
  <1>2. r.pending \in SUBSET Calls /\ <<>> \in Seq(TraceSet)
    BY DEF SoundReaders
  <1> HIDE DEF d, v
  <1>3. d \in SoundReaders /\ d.segments = v /\ d.traces = <<>> /\ d.pending = r.pending
    BY <1>1, <1>2 DEF SoundReaders
  <1> QED BY <1>3 DEF d, v

\* Without traces nothing changes.
LEMMA ViewOfQuiet == ASSUME NEW r \in SoundReaders, r.traces = <<>> PROVE View(r) = r.segments
  <1>1. Drained(r) = [r EXCEPT !.traces = <<>>]
    BY DEF Drained
  <1> QED BY <1>1 DEF View, SoundReaders

\* What is pending changes nothing of what is read.
LEMMA ViewOfPending ==
  ASSUME NEW r \in SoundReaders, NEW P \in SUBSET Calls, NEW q, q = [r EXCEPT !.pending = P]
  PROVE  /\ q \in SoundReaders /\ q.segments = r.segments /\ q.traces = r.traces /\ q.pending = P
         /\ View(q) = View(r)
  <1>1. q \in SoundReaders /\ q.segments = r.segments /\ q.traces = r.traces /\ q.pending = P
    BY DEF SoundReaders
  <1>2. View(q) = View(r)
    <2>1. CASE r.segments = <<>>
      BY <1>1, <2>1, DrainedIs
    <2>2. CASE r.segments # <<>>
      BY <1>1, <2>2, DrainedIs
    <2> QED BY <2>1, <2>2
  <1> QED BY <1>1, <1>2

LEMMA SameView ==
  ASSUME NEW b \in Seq(SoundSegments), NEW w PROVE Continues(b, b) /\ SaysOnly(b, b, w)
  <1>1. Len(b) \in Nat /\ \A i \in 1..Len(b) : b[i] \in Segments
    BY DEF SoundSegments
  <1> QED BY <1>1, GrowsItself DEF Continues, SaysOnly

LEMMA LastGrows ==
  ASSUME NEW b \in Seq(SoundSegments), b # <<>>, NEW x \in SoundSegments, NEW w,
         GrowsInto(b[Len(b)], x), \A c : Answers(x, c) => Answers(b[Len(b)], c) \/ w = <<"answered", c>>
  PROVE  LET a == [b EXCEPT ![Len(b)] = x] IN Continues(b, a) /\ SaysOnly(b, a, w)
  <1> DEFINE L == Len(b)
             a == [b EXCEPT ![L] = x]
  <1>1. /\ L \in Nat \ {0} /\ L \in 1..L
        /\ a \in Seq(SoundSegments) /\ Len(a) = L /\ a[L] = x /\ \A i \in 1..L : i # L => a[i] = b[i]
    BY LastSegment
  <1>2. \A i \in 1..L : b[i] \in Segments
    BY DEF SoundSegments
  <1>3. GrowsInto(b[L], x) /\ \A c : Answers(x, c) => Answers(b[L], c) \/ w = <<"answered", c>>
    OBVIOUS
  <1> HIDE DEF a, L
  <1>4. ASSUME NEW i \in 1..L PROVE GrowsInto(b[i], a[i]) /\ (i < L => a[i] = b[i])
    <2>1. CASE i = L
      BY <1>1, <1>3, <2>1
    <2>2. CASE i # L
      BY <1>1, <1>2, <2>2, GrowsItself
    <2> QED BY <2>1, <2>2
  <1>5. ASSUME NEW c, NEW i \in 1..L, Answers(a[i], c)
        PROVE  Answers(b[i], c) \/ (i = L /\ w = <<"answered", c>>)
    <2>1. CASE i = L
      BY <1>1, <1>3, <1>5, <2>1
    <2>2. CASE i # L
      BY <1>1, <1>5, <2>2
    <2> QED BY <2>1, <2>2
  <1>6. Len(b) <= Len(a)
    BY <1>1 DEF L
  <1>7. Continues(b, a)
    BY <1>4, <1>6 DEF Continues, L
  <1>8. SaysOnly(b, a, w)
    BY <1>1, <1>5 DEF SaysOnly, L
  <1> QED BY <1>7, <1>8 DEF a, L

LEMMA OneMoreSegment ==
  ASSUME NEW b \in Seq(SoundSegments), NEW x \in SoundSegments, \A c : ~Answers(x, c), NEW w
  PROVE  LET a == Append(b, x)
         IN a \in Seq(SoundSegments) /\ Len(a) = Len(b) + 1 /\ Continues(b, a) /\ SaysOnly(b, a, w)
  <1> DEFINE L == Len(b)
             a == Append(b, x)
  <1>1. L \in Nat /\ a \in Seq(SoundSegments) /\ Len(a) = L + 1 /\ a[L + 1] = x /\ \A i \in 1..L : a[i] = b[i]
    OBVIOUS
  <1>2. \A i \in 1..L : b[i] \in Segments
    BY DEF SoundSegments
  <1> HIDE DEF a, L
  <1>3. \A i \in 1..L : GrowsInto(b[i], a[i])
    BY <1>1, <1>2, GrowsItself
  <1>4. Continues(b, a)
    BY <1>1, <1>3 DEF Continues, L
  <1>5. ASSUME NEW c, NEW i \in 1..(L + 1), Answers(a[i], c) PROVE i \in 1..L /\ Answers(b[i], c)
    <2>1. i # L + 1
      BY <1>1, <1>5
    <2>2. i \in 1..L
      BY <1>1, <2>1
    <2> QED BY <1>1, <1>5, <2>2
  <1>6. SaysOnly(b, a, w)
    BY <1>1, <1>5 DEF SaysOnly, L
  <1> QED BY <1>1, <1>4, <1>6 DEF a, L

LEMMA QuietView ==
  ASSUME NEW r \in SoundReaders, r.traces = <<>>, NEW v \in Seq(SoundSegments), NEW q, q = [r EXCEPT !.segments = v]
  PROVE  q \in SoundReaders /\ q.segments = v /\ q.pending = r.pending /\ q.traces = <<>> /\ View(q) = v
  <1>1. q \in SoundReaders /\ q.segments = v /\ q.pending = r.pending /\ q.traces = <<>>
    BY DEF SoundReaders
  <1> QED BY <1>1, ViewOfQuiet

LEMMA NotedIs ==
  ASSUME NEW r \in SoundReaders, NEW w \in Whats
  PROVE  LET n == Noted(r, w)
         IN /\ n \in SoundReaders /\ n.pending = r.pending /\ Len(View(n)) = Len(View(r))
            /\ Continues(View(r), View(n)) /\ SaysOnly(View(r), View(n), w)
  <1> DEFINE n == Noted(r, w)
             f == Drained(r)
             b == View(r)
             L == Len(b)
             x == WithNote(b[L], w)
  <1>1. /\ f \in SoundReaders /\ f.segments = b /\ f.traces = <<>> /\ f.pending = r.pending
        /\ b \in Seq(SoundSegments)
    BY DrainedSound, DrainedIs
  <1>2. n = IF f.segments = <<>> \/ Note(w) \in Range(Last(f.segments).lines) THEN f
            ELSE [f EXCEPT !.segments = WithLast(@, WithNote(Last(@), w))]
    BY DEF Noted
  <1> HIDE DEF n, f, b
  <1>3. CASE n = f
    BY <1>1, <1>3, ViewOfQuiet, SameView DEF n, b
  <1>4. CASE n # f
    <2>1. b # <<>> /\ n = [f EXCEPT !.segments = [b EXCEPT ![L] = x]]
      BY <1>1, <1>2, <1>4 DEF WithLast, Last
    <2>2. L \in 1..L /\ b[L] \in SoundSegments
      BY <1>1, <2>1, LastSegment
    <2>3. x = [b[L] EXCEPT !.lines = Append(@, Note(w))]
      BY DEF WithNote
    <2> DEFINE s == b[L]
    <2>4. s \in SoundSegments /\ x = [s EXCEPT !.lines = Append(@, Note(w))]
      BY <2>2, <2>3
    <2> HIDE DEF x, s, L
    <2>5. x \in SoundSegments /\ GrowsInto(s, x) /\ \A c : Answers(x, c) <=> Answers(s, c) \/ w = <<"answered", c>>
      BY <2>4, NoteTells
    <2> DEFINE v == [b EXCEPT ![L] = x]
    <2>6. v \in Seq(SoundSegments) /\ Len(v) = L
      BY <1>1, <2>1, <2>5, LastSegment DEF L
    <2>7. Continues(b, v) /\ SaysOnly(b, v, w)
      BY <1>1, <2>1, <2>5, LastGrows DEF L, s
    <2> HIDE DEF v
    <2>8. n \in SoundReaders /\ n.pending = r.pending /\ View(n) = v
      <3>1. n = [f EXCEPT !.segments = v]
        BY <2>1 DEF v
      <3>2. n \in SoundReaders /\ n.pending = f.pending /\ View(n) = v
        BY ONLY <1>1, <2>6, <3>1, QuietView
      <3> QED BY <1>1, <3>2
    <2> QED BY <2>6, <2>7, <2>8 DEF n, b, L
  <1> QED BY <1>3, <1>4

LEMMA OpenIs ==
  ASSUME NEW r \in SoundReaders, NEW long \in BOOLEAN
  PROVE  LET n == Open(r, long)
         IN /\ n \in SoundReaders /\ n.pending = r.pending /\ n.traces = <<>>
            /\ n.segments = Append(View(r), NewSegment(long)) /\ View(n) = n.segments /\ View(n) \in Seq(SoundSegments)
            /\ Len(View(n)) = Len(View(r)) + 1
            /\ Continues(View(r), View(n)) /\ \A w : SaysOnly(View(r), View(n), w)
  <1> DEFINE n == Open(r, long)
             f == Drained(r)
             b == View(r)
             v == Append(b, NewSegment(long))
  <1>1. /\ f \in SoundReaders /\ f.segments = b /\ f.traces = <<>> /\ f.pending = r.pending
        /\ b \in Seq(SoundSegments)
    BY DrainedSound, DrainedIs
  <1>2. n = [f EXCEPT !.segments = v]
    BY <1>1 DEF Open
  <1> HIDE DEF n, f, b
  <1>3. NewSegment(long) \in SoundSegments /\ \A c : ~Answers(NewSegment(long), c)
    BY NewSegmentIs
  <1>4. v \in Seq(SoundSegments) /\ Len(v) = Len(b) + 1 /\ Continues(b, v) /\ \A w : SaysOnly(b, v, w)
    BY <1>1, <1>3, OneMoreSegment
  <1> HIDE DEF v
  <1>5. n \in SoundReaders /\ n.segments = v /\ n.pending = r.pending /\ n.traces = <<>> /\ View(n) = v
    BY <1>1, <1>2, <1>4, QuietView
  <1> QED BY <1>4, <1>5 DEF n, b, v

LEMMA LastReplaced ==
  ASSUME NEW V, NEW b \in Seq(V), NEW z \in V, NEW x \in V
  PROVE  [Append(b, z) EXCEPT ![Len(b) + 1] = x] = Append(b, x)
  <1> DEFINE N == Len(b)
             u == [Append(b, z) EXCEPT ![N + 1] = x]
             v == Append(b, x)
  <1>1. N \in Nat
    OBVIOUS
  <1>2. v \in Seq(V) /\ Len(v) = N + 1 /\ v[N + 1] = x /\ \A i \in 1..N : v[i] = b[i]
    OBVIOUS
  <1>3. u \in Seq(V) /\ Len(u) = N + 1 /\ u[N + 1] = x /\ \A i \in 1..N : u[i] = b[i]
    <2> DEFINE p == Append(b, z)
    <2>1. p \in Seq(V) /\ Len(p) = N + 1 /\ \A i \in 1..N : p[i] = b[i]
      OBVIOUS
    <2> HIDE DEF p, N
    <2>2. [p EXCEPT ![N + 1] = x] \in Seq(V) /\ Len([p EXCEPT ![N + 1] = x]) = N + 1
      BY <1>1, <2>1
    <2>3. [p EXCEPT ![N + 1] = x][N + 1] = x /\ \A i \in 1..N : [p EXCEPT ![N + 1] = x][i] = p[i]
      BY <1>1, <2>1
    <2> QED BY <2>1, <2>2, <2>3 DEF p
  <1> HIDE DEF u, v, N
  <1>4. \A i \in 1..(N + 1) : u[i] = v[i]
    <2>1. \A i \in 1..(N + 1) : i = N + 1 \/ i \in 1..N
      BY <1>1
    <2> QED BY <1>2, <1>3, <2>1
  <1>5. u = v
    BY <1>2, <1>3, <1>4, SeqEqual
  <1> QED BY <1>5 DEF u, v, N

LEMMA ActiveIs ==
  ASSUME NEW r \in SoundReaders, NEW long \in BOOLEAN
  PROVE  LET n == TakeActive(r, long)
         IN /\ n \in SoundReaders /\ n.pending = r.pending /\ Len(View(n)) = Len(View(r)) + 1
            /\ Continues(View(r), View(n)) /\ \A w : SaysOnly(View(r), View(n), w)
  <1> DEFINE n == TakeActive(r, long)
             o == Open(r, long)
             b == View(r)
             z == NewSegment(long)
             x == WithNote(z, <<"active">>)
  <1>1. /\ o \in SoundReaders /\ o.pending = r.pending /\ o.traces = <<>> /\ o.segments = Append(b, z)
    BY OpenIs
  <1>2. b \in Seq(SoundSegments) /\ z \in SoundSegments /\ \A c : ~Answers(z, c)
    BY DrainedIs, NewSegmentIs
  <1>3. n = [o EXCEPT !.segments = WithLast(@, WithNote(Last(@), <<"active">>))]
    BY DEF TakeActive
  <1>4. <<"active">> \in Whats /\ x = [z EXCEPT !.lines = Append(@, Note(<<"active">>))]
    BY DEF Whats, WithNote
  <1> HIDE DEF n, o, b, z, x
  <1>5. x \in SoundSegments /\ \A c : Answers(x, c) <=> Answers(z, c) \/ <<"active">> = <<"answered", c>>
    BY <1>2, <1>4, NoteTells
  <1>6. \A c : <<"active">> # <<"answered", c>>
    OBVIOUS
  <1>7. \A c : ~Answers(x, c)
    BY <1>2, <1>5, <1>6
  <1> DEFINE v == Append(b, x)
  <1>8. WithLast(Append(b, z), WithNote(Last(Append(b, z)), <<"active">>)) = v
    <2> DEFINE p == Append(b, z)
               N == Len(b)
    <2>1. N \in Nat /\ p \in Seq(SoundSegments) /\ Len(p) = N + 1 /\ p[N + 1] = z /\ \A i \in 1..N : p[i] = b[i]
      BY <1>2
    <2>2. Last(p) = z
      BY <2>1 DEF Last
    <2>3. WithLast(p, x) = [p EXCEPT ![N + 1] = x]
      BY <2>1 DEF WithLast
    <2>4. [p EXCEPT ![N + 1] = x] = v
      BY <1>2, <1>5, LastReplaced
    <2> QED BY <2>2, <2>3, <2>4 DEF x
  <1>9. n = [o EXCEPT !.segments = v]
    BY <1>1, <1>3, <1>8
  <1>10. v \in Seq(SoundSegments) /\ Len(v) = Len(b) + 1 /\ Continues(b, v) /\ \A w : SaysOnly(b, v, w)
    BY <1>2, <1>5, <1>7, OneMoreSegment
  <1> HIDE DEF v
  <1>11. n \in SoundReaders /\ n.pending = r.pending /\ View(n) = v
    BY <1>1, <1>9, <1>10, QuietView
  <1> QED BY <1>10, <1>11 DEF n, b

LEMMA TracedIs ==
  ASSUME NEW r \in SoundReaders, NEW t \in TraceSet, r.segments # <<>>
  PROVE  LET n == Traced(r, t)
         IN /\ n \in SoundReaders /\ n.pending = r.pending /\ Len(View(n)) = Len(View(r))
            /\ View(n) \in Seq(SoundSegments) /\ View(n) # <<>>
            /\ Continues(View(r), View(n)) /\ SaysOnly(View(r), View(n), <<"tools">>)
            /\ TellsOf(View(n)[Len(View(n))], t)
  <1> DEFINE n == Traced(r, t)
             q == r.segments
             L == Len(q)
             s == q[L]
             k == r.traces
             j == Append(k, t)
             b == View(r)
             a == View(n)
             x == Add(s, k)
             y == Add(s, j)
  <1>1. q \in Seq(SoundSegments) /\ k \in Seq(TraceSet) /\ j \in Seq(TraceSet)
    BY DEF SoundReaders
  <1>2. n \in SoundReaders /\ n.segments = q /\ n.traces = j /\ n.pending = r.pending
    BY <1>1 DEF Traced, SoundReaders
  <1>3. /\ s \in SoundSegments /\ b = [q EXCEPT ![L] = x] /\ b \in Seq(SoundSegments) /\ Len(b) = L
    BY DrainedIs
  <1>4. a = [q EXCEPT ![L] = y] /\ a \in Seq(SoundSegments) /\ Len(a) = L
    <2> HIDE DEF n, j
    <2> QED BY <1>2, DrainedIs
  <1> HIDE DEF n, k, s, a, b
  <1>5. GrowsInto(x, y) /\ TellsOf(y, t) /\ \A c : Answers(y, c) <=> Answers(x, c)
    BY <1>1, <1>3, AddTells
  <1>6. x \in SoundSegments /\ y \in SoundSegments
    <2> HIDE DEF j
    <2> QED BY <1>1, <1>3, AddSoundly
  <1> HIDE DEF x, y, j, q
  <1>7. L \in 1..L /\ b # <<>> /\ b[L] = x /\ a[L] = y /\ a # <<>>
    <2>1. q # <<>>
      BY DEF q
    <2>2. L \in 1..L /\ [q EXCEPT ![L] = x] # <<>> /\ [q EXCEPT ![L] = x][L] = x
      BY <1>1, <1>6, <2>1, LastSegment
    <2>3. [q EXCEPT ![L] = y] # <<>> /\ [q EXCEPT ![L] = y][L] = y
      BY <1>1, <1>6, <2>1, LastSegment
    <2> QED BY <1>3, <1>4, <2>2, <2>3
  <1>8. a = [b EXCEPT ![L] = y]
    <2>1. [[q EXCEPT ![L] = x] EXCEPT ![L] = y] = [q EXCEPT ![L] = y]
      BY <1>1
    <2> QED BY <1>3, <1>4, <2>1
  <1> HIDE DEF L
  <1>9. Continues(b, a) /\ SaysOnly(b, a, <<"tools">>)
    <2>1. GrowsInto(b[Len(b)], y)
      BY <1>3, <1>5, <1>7
    <2>2. a = [b EXCEPT ![Len(b)] = y]
      BY <1>3, <1>8
    <2> DEFINE w == <<"tools">>
    <2>3. \A c : Answers(y, c) => Answers(b[Len(b)], c) \/ w = <<"answered", c>>
      BY <1>3, <1>5, <1>7
    <2> HIDE DEF w
    <2>4. Continues(b, a) /\ SaysOnly(b, a, w)
      <3>1. b \in Seq(SoundSegments) /\ b # <<>> /\ y \in SoundSegments
        BY <1>3, <1>6, <1>7
      <3> QED BY ONLY <3>1, <2>1, <2>2, <2>3, LastGrows
    <2> QED BY <2>4 DEF w
  <1> QED BY <1>2, <1>3, <1>4, <1>5, <1>7, <1>9 DEF n, a, b

-----------------------------------------------------------------------------
(* Extraction: one line.                                                   *)

\* What a line does to what is read.
Grown(r, n, more, w) ==
    /\ n \in SoundReaders /\ Len(View(n)) = Len(View(r)) + more
    /\ Continues(View(r), View(n)) /\ SaysOnly(View(r), View(n), w)

NoNote == <<"tools">>

LEMMA GrownBy ==
  ASSUME NEW r \in SoundReaders, NEW n
  PROVE  /\ \A w : n = r => Grown(r, n, 0, w)
         /\ \A w \in Whats : n = Noted(r, w) => Grown(r, n, 0, w) /\ n.pending = r.pending
         /\ \A long \in BOOLEAN : \A w : n = Open(r, long) => Grown(r, n, 1, w) /\ n.pending = r.pending
         /\ \A long \in BOOLEAN : \A w : n = TakeActive(r, long) => Grown(r, n, 1, w) /\ n.pending = r.pending
         /\ \A t \in TraceSet : n = Traced(r, t) /\ r.segments # <<>> =>
                Grown(r, n, 0, NoNote) /\ n.pending = r.pending /\ TellsOf(View(n)[Len(View(n))], t)
  <1>1. View(r) \in Seq(SoundSegments) /\ Len(View(r)) \in Nat
    BY DrainedIs
  <1>2. Len(View(r)) = Len(View(r)) + 0
    BY <1>1
  <1>3. ASSUME NEW w, n = r PROVE Grown(r, n, 0, w)
    BY <1>1, <1>2, <1>3, SameView DEF Grown
  <1>4. ASSUME NEW w \in Whats, n = Noted(r, w) PROVE Grown(r, n, 0, w) /\ n.pending = r.pending
    BY <1>2, <1>4, NotedIs DEF Grown
  <1>5. ASSUME NEW long \in BOOLEAN, NEW w, n = Open(r, long) PROVE Grown(r, n, 1, w) /\ n.pending = r.pending
    BY <1>5, OpenIs DEF Grown
  <1>6. ASSUME NEW long \in BOOLEAN, NEW w, n = TakeActive(r, long) PROVE Grown(r, n, 1, w) /\ n.pending = r.pending
    BY <1>6, ActiveIs DEF Grown
  <1>7. ASSUME NEW t \in TraceSet, n = Traced(r, t), r.segments # <<>>
        PROVE  Grown(r, n, 0, NoNote) /\ n.pending = r.pending /\ TellsOf(View(n)[Len(View(n))], t)
    BY <1>2, <1>7, TracedIs DEF Grown, NoNote
  <1> QED BY <1>3, <1>4, <1>5, <1>6, <1>7

LEMMA GrownBesides ==
  ASSUME NEW r \in SoundReaders, NEW k \in SoundReaders, View(k) = View(r), NEW n, NEW w, NEW m, Grown(k, n, m, w)
  PROVE  Grown(r, n, m, w)
  BY DEF Grown

LEMMA SaysNothing == \A c : NoNote # <<"answered", c>>
  BY DEF NoNote

LEMMA CallIs ==
  ASSUME NEW r \in SoundReaders, NEW c \in Calls, NEW n, n = TakeCall(r, c)
  PROVE  /\ \E w : Grown(r, n, 0, w) /\ \A d : w # <<"answered", d>>
         /\ r.pending \subseteq n.pending /\ n.pending \subseteq r.pending \cup {c}
         /\ r.segments = <<>> => n.pending = r.pending
         /\ r.segments # <<>> =>
                /\ agent = "claude" => c \in n.pending
                /\ Tool[c] \in {"edit", "run", "word"} => TellsOf(View(n)[Len(View(n))], Trace(Tool[c], c))
  <1>1. Tool[c] \in {"edit", "run", "word", "look", "ask"}
    BY ToolAssumption
  <1>2. CASE r.segments = <<>>
    <2>1. n = r
      BY <1>2 DEF TakeCall
    <2>2. Grown(r, n, 0, NoNote)
      BY <2>1, GrownBy
    <2> QED BY <1>2, <2>1, <2>2, SaysNothing
  <1>3. CASE r.segments # <<>>
    <2> DEFINE k == IF agent = "claude" THEN [r EXCEPT !.pending = @ \cup {c}] ELSE r
    <2>1. /\ k \in SoundReaders /\ k.segments = r.segments /\ View(k) = View(r)
          /\ r.pending \subseteq k.pending /\ k.pending \subseteq r.pending \cup {c}
          /\ agent = "claude" => c \in k.pending
      <3>1. CASE agent = "claude"
        <4>1. r.pending \cup {c} \in SUBSET Calls
          BY DEF SoundReaders
        <4>2. k = [r EXCEPT !.pending = r.pending \cup {c}]
          BY <3>1
        <4> HIDE DEF k
        <4>3. k \in SoundReaders /\ k.segments = r.segments /\ k.pending = r.pending \cup {c} /\ View(k) = View(r)
          BY <4>1, <4>2, ViewOfPending
        <4> QED BY <4>3
      <3>2. CASE agent # "claude"
        BY <3>2
      <3> QED BY <3>1, <3>2
    <2>2. n = CASE Tool[c] = "ask" -> Noted(k, <<"asked", c>>)
                [] Tool[c] = "look" -> k
                [] OTHER -> Traced(k, Trace(Tool[c], c))
      BY <1>3 DEF TakeCall
    <2> HIDE DEF k
    <2>3. CASE Tool[c] = "ask"
      <3>1. n = Noted(k, <<"asked", c>>)
        BY <1>3, <2>2, <2>3
      <3> DEFINE w == <<"asked", c>>
      <3>2. w \in Whats /\ \A d : w # <<"answered", d>>
        BY DEF Whats
      <3> HIDE DEF w
      <3>3. n = Noted(k, w)
        BY <3>1 DEF w
      <3>4. Grown(k, n, 0, w) /\ n.pending = k.pending
        BY <2>1, <3>2, <3>3, GrownBy
      <3>5. Grown(r, n, 0, w)
        BY <2>1, <3>4, GrownBesides
      <3> QED BY <1>3, <2>1, <2>3, <3>2, <3>4, <3>5
    <2>4. CASE Tool[c] = "look"
      <3>1. n = k
        BY <1>3, <2>2, <2>4
      <3>2. Grown(k, n, 0, NoNote)
        BY <2>1, <3>1, GrownBy
      <3>3. Grown(r, n, 0, NoNote)
        BY <2>1, <3>2, GrownBesides
      <3> QED BY <1>3, <2>1, <2>4, <3>1, <3>3, SaysNothing
    <2>5. CASE Tool[c] \in {"edit", "run", "word"}
      <3> DEFINE t == Trace(Tool[c], c)
      <3>1. n = Traced(k, t)
        BY <1>3, <2>2, <2>5
      <3>2. t \in TraceSet
        BY <2>5 DEF Trace, TraceSet
      <3> HIDE DEF t
      <3>3. Grown(k, n, 0, NoNote) /\ n.pending = k.pending /\ TellsOf(View(n)[Len(View(n))], t)
        BY <1>3, <2>1, <3>1, <3>2, GrownBy
      <3>4. Grown(r, n, 0, NoNote)
        BY <2>1, <3>3, GrownBesides
      <3> QED BY <1>3, <2>1, <3>3, <3>4, SaysNothing DEF t
    <2> QED BY <1>1, <2>3, <2>4, <2>5
  <1> QED BY <1>2, <1>3

LEMMA ResultIs ==
  ASSUME NEW r \in SoundReaders, NEW c, NEW error \in BOOLEAN, NEW line, line = Result(c, error),
         c \in Calls /\ error => Tool[c] # "ask", r.pending # {} => r.segments # <<>>, NEW n, n = TakeResult(r, line)
  PROVE  /\ \E w : Grown(r, n, 0, w) /\ \A d : w = <<"answered", d>> => d = c /\ c \in r.pending
         /\ n.pending = r.pending \ {c}
         /\ error /\ c \in r.pending => TellsOf(View(n)[Len(View(n))], Trace("failed", c))
  <1>1. line.call = c /\ line.error = error
    BY DEF Result
  <1>2. CASE c \notin r.pending
    <2>1. n = r
      BY <1>1, <1>2 DEF TakeResult
    <2>2. Grown(r, n, 0, NoNote)
      BY <2>1, GrownBy
    <2> QED BY <1>2, <2>1, <2>2, SaysNothing
  <1>3. CASE c \in r.pending
    <2> DEFINE k == [r EXCEPT !.pending = r.pending \ {c}]
               P == r.pending \ {c}
    <2>1. P \in SUBSET Calls /\ c \in Calls
      BY <1>3 DEF SoundReaders
    <2>2. k \in SoundReaders /\ k.segments = r.segments /\ k.pending = P /\ View(k) = View(r)
      <3>1. k = [r EXCEPT !.pending = P]
        OBVIOUS
      <3> HIDE DEF k, P
      <3> QED BY <2>1, <3>1, ViewOfPending
    <2>3. k.segments # <<>>
      BY <1>3, <2>2
    <2>4. n = IF Tool[c] = "ask" THEN Noted(k, <<"answered", c>>)
              ELSE IF error THEN Traced(k, Trace("failed", c)) ELSE k
      BY <1>1, <1>3 DEF TakeResult
    <2> HIDE DEF k, P
    <2>5. CASE Tool[c] = "ask"
      <3> DEFINE w == <<"answered", c>>
      <3>1. n = Noted(k, w)
        BY <1>3, <2>4, <2>5
      <3>2. w \in Whats /\ \A d : w = <<"answered", d>> => d = c
        BY <2>1 DEF Whats
      <3> HIDE DEF w
      <3>3. Grown(k, n, 0, w) /\ n.pending = k.pending
        BY <2>2, <3>1, <3>2, GrownBy
      <3>4. Grown(r, n, 0, w)
        BY <2>2, <3>3, GrownBesides
      <3> QED BY <1>3, <2>1, <2>2, <2>5, <3>2, <3>3, <3>4 DEF P
    <2>6. CASE Tool[c] # "ask" /\ error
      <3> DEFINE t == Trace("failed", c)
      <3>1. n = Traced(k, t)
        BY <1>3, <2>4, <2>6
      <3>2. t \in TraceSet
        BY <2>1 DEF Trace, TraceSet
      <3> HIDE DEF t
      <3>3. Grown(k, n, 0, NoNote) /\ n.pending = k.pending /\ TellsOf(View(n)[Len(View(n))], t)
        BY <2>2, <2>3, <3>1, <3>2, GrownBy
      <3>4. Grown(r, n, 0, NoNote)
        BY <2>2, <3>3, GrownBesides
      <3> QED BY <2>2, <3>3, <3>4, SaysNothing DEF t, P
    <2>7. CASE Tool[c] # "ask" /\ ~error
      <3>1. n = k
        BY <1>3, <2>4, <2>7
      <3>2. Grown(k, n, 0, NoNote)
        BY <2>2, <3>1, GrownBy
      <3>3. Grown(r, n, 0, NoNote)
        BY <2>2, <3>2, GrownBesides
      <3> QED BY <2>2, <2>7, <3>1, <3>3, SaysNothing DEF P
    <2> QED BY <2>5, <2>6, <2>7
  <1> QED BY <1>2, <1>3

LineKinds == {"say", "queued", "meta", "goal", "answer", "noise"}

LEMMA LineIs ==
  ASSUME NEW who \in {"claude", "codex"}, NEW line \in Transcribed(who)
  PROVE  \/ \E long \in BOOLEAN : line = Request(long)
         \/ \E long \in BOOLEAN : line = WithFile(long)
         \/ \E c \in Calls : line = Called(c)
         \/ who = "claude" /\ \E c \in Returning, e \in BOOLEAN : line = Result(c, e) /\ (e => Tool[c] # "ask")
         \/ \E k \in LineKinds : line = Line(k)
  BY DEF Transcribed, LineKinds

LEMMA Kinds ==
  /\ \A long : Request(long).kind = "request" /\ Request(long).long = long
  /\ \A long : WithFile(long).kind = "active" /\ WithFile(long).long = long
  /\ \A c : Called(c).kind = "call" /\ Called(c).call = c
  /\ \A c, e : Result(c, e).kind = "result" /\ Result(c, e).call = c /\ Result(c, e).error = e
  /\ \A k : Line(k).kind = k
  BY DEF Request, WithFile, Called, Result, Line

Opening(line) == line.kind \in {"request", "active"}

\* What one line does.
StepSound(r, n, line) ==
    /\ n \in SoundReaders /\ Continues(View(r), View(n))
    /\ Len(View(n)) = Len(View(r)) + (IF Opening(line) THEN 1 ELSE 0)
    /\ \A c : \A i \in 1..Len(View(n)) :
           Answers(View(n)[i], c) =>
               \/ i \in 1..Len(View(r)) /\ Answers(View(r)[i], c)
               \/ i = Len(View(n)) /\ line.kind = "result" /\ line.call = c /\ c \in r.pending
    /\ \A c : c \in n.pending => \/ c \in r.pending /\ ~(line.kind = "result" /\ line.call = c)
                                 \/ r.segments # <<>> /\ line.kind = "call" /\ line.call = c
    /\ \A c : c \in r.pending /\ c \notin n.pending => line.kind = "result" /\ line.call = c
    /\ line.kind = "call" /\ r.segments # <<>> =>
           /\ agent = "claude" => line.call \in n.pending
           /\ Tool[line.call] \in {"edit", "run", "word"} => TellsOf(View(n)[Len(View(n))], Trace(Tool[line.call], line.call))
    /\ line.kind = "result" /\ line.error /\ line.call \in r.pending =>
           TellsOf(View(n)[Len(View(n))], Trace("failed", line.call))

LEMMA StepIs ==
  ASSUME agent \in {"claude", "codex"}, NEW r \in SoundReaders, r.pending # {} => r.segments # <<>>,
         NEW line \in Transcribed(agent), NEW n, n = TakeLine(r, line)
  PROVE  StepSound(r, n, line)
  <1>0. Len(View(r)) \in Nat
    BY DrainedIs
  \* Lines that only note something, or nothing.
  <1>1. ASSUME NEW w, \A c : w # <<"answered", c>>, NEW more \in {0, 1}, Grown(r, n, more, w), n.pending = r.pending,
               line.kind \notin {"call", "result"}, Opening(line) <=> more = 1
        PROVE  StepSound(r, n, line)
    <2>1. Len(View(n)) = Len(View(r)) + (IF Opening(line) THEN 1 ELSE 0)
      BY <1>1 DEF Grown
    <2>2. n \in SoundReaders /\ Continues(View(r), View(n)) /\ SaysOnly(View(r), View(n), w)
      BY <1>1 DEF Grown
    <2>3. \A c : \A i \in 1..Len(View(n)) : Answers(View(n)[i], c) => i \in 1..Len(View(r)) /\ Answers(View(r)[i], c)
      BY <1>1, <2>2 DEF SaysOnly
    <2> QED BY <1>1, <2>1, <2>2, <2>3 DEF StepSound
  <1>2. ASSUME NEW long \in BOOLEAN, line = Request(long) PROVE StepSound(r, n, line)
    <2>1. line.kind = "request" /\ line.long = long
      BY <1>2, Kinds
    <2>2. n = Open(r, long)
      BY <2>1 DEF TakeLine
    <2>3. Grown(r, n, 1, NoNote) /\ n.pending = r.pending
      BY <2>2, GrownBy
    <2> QED BY <1>1, <2>1, <2>3, SaysNothing DEF Opening
  <1>3. ASSUME NEW long \in BOOLEAN, line = WithFile(long) PROVE StepSound(r, n, line)
    <2>1. line.kind = "active" /\ line.long = long
      BY <1>3, Kinds
    <2>2. n = TakeActive(r, long)
      BY <2>1 DEF TakeLine
    <2>3. Grown(r, n, 1, NoNote) /\ n.pending = r.pending
      BY <2>2, GrownBy
    <2> QED BY <1>1, <2>1, <2>3, SaysNothing DEF Opening
  <1>4. ASSUME NEW c \in Calls, line = Called(c) PROVE StepSound(r, n, line)
    <2>1. line.kind = "call" /\ line.call = c
      BY <1>4, Kinds
    <2>2. n = TakeCall(r, c)
      BY <2>1 DEF TakeLine
    <2>3. /\ \E w : Grown(r, n, 0, w) /\ \A d : w # <<"answered", d>>
          /\ r.pending \subseteq n.pending /\ n.pending \subseteq r.pending \cup {c}
          /\ r.segments = <<>> => n.pending = r.pending
          /\ r.segments # <<>> =>
                 /\ agent = "claude" => c \in n.pending
                 /\ Tool[c] \in {"edit", "run", "word"} => TellsOf(View(n)[Len(View(n))], Trace(Tool[c], c))
      BY <2>2, CallIs
    <2>4. PICK w : Grown(r, n, 0, w) /\ \A d : w # <<"answered", d>>
      BY <2>3
    <2>5. n \in SoundReaders /\ Continues(View(r), View(n)) /\ SaysOnly(View(r), View(n), w) /\ Len(View(n)) = Len(View(r)) + 0
      BY <2>4 DEF Grown
    <2>6. \A d : \A i \in 1..Len(View(n)) : Answers(View(n)[i], d) => i \in 1..Len(View(r)) /\ Answers(View(r)[i], d)
      BY <2>4, <2>5 DEF SaysOnly
    <2>7. Len(View(n)) = Len(View(r)) + (IF Opening(line) THEN 1 ELSE 0)
      BY <2>1, <2>5 DEF Opening
    <2> QED BY <2>1, <2>3, <2>5, <2>6, <2>7 DEF StepSound
  <1>5. ASSUME NEW c, NEW e \in BOOLEAN, line = Result(c, e), e => Tool[c] # "ask" PROVE StepSound(r, n, line)
    <2>1. line.kind = "result" /\ line.call = c /\ line.error = e
      BY <1>5, Kinds
    <2>2. n = TakeResult(r, line)
      BY <2>1 DEF TakeLine
    <2>3. /\ \E w : Grown(r, n, 0, w) /\ \A d : w = <<"answered", d>> => d = c /\ c \in r.pending
          /\ n.pending = r.pending \ {c}
          /\ e /\ c \in r.pending => TellsOf(View(n)[Len(View(n))], Trace("failed", c))
      BY <1>5, <2>2, ResultIs
    <2>4. PICK w : Grown(r, n, 0, w) /\ \A d : w = <<"answered", d>> => d = c /\ c \in r.pending
      BY <2>3
    <2>5. n \in SoundReaders /\ Continues(View(r), View(n)) /\ SaysOnly(View(r), View(n), w) /\ Len(View(n)) = Len(View(r)) + 0
      BY <2>4 DEF Grown
    <2>6. \A d : \A i \in 1..Len(View(n)) : Answers(View(n)[i], d) =>
              (i \in 1..Len(View(r)) /\ Answers(View(r)[i], d)) \/ (i = Len(View(n)) /\ d = c /\ c \in r.pending)
      BY <2>4, <2>5 DEF SaysOnly
    <2>7. Len(View(n)) = Len(View(r)) + (IF Opening(line) THEN 1 ELSE 0)
      BY <2>1, <2>5 DEF Opening
    <2> QED BY <2>1, <2>3, <2>5, <2>6, <2>7 DEF StepSound
  <1>6. ASSUME NEW k \in LineKinds, line = Line(k) PROVE StepSound(r, n, line)
    <2>1. line.kind = k /\ k \in {"say", "queued", "meta", "goal", "answer", "noise"}
      BY <1>6, Kinds DEF LineKinds
    <2>2. CASE n = r
      <3>1. Grown(r, n, 0, NoNote)
        BY <2>2, GrownBy
      <3> QED BY <1>1, <2>1, <2>2, <3>1, SaysNothing DEF Opening
    <2>3. ASSUME NEW w \in Whats, n = Noted(r, w), \A c : w # <<"answered", c>> PROVE StepSound(r, n, line)
      <3>1. Grown(r, n, 0, w) /\ n.pending = r.pending
        BY <2>3, GrownBy
      <3> QED BY <1>1, <2>1, <2>3, <3>1 DEF Opening
    <2>4. CASE k = "say"
      <3>1. <<"said">> \in Whats /\ \A c : <<"said">> # <<"answered", c>>
        BY DEF Whats
      <3>2. n = r \/ n = Noted(r, <<"said">>)
        BY <2>1, <2>4 DEF TakeLine
      <3> QED BY <2>2, <2>3, <3>1, <3>2
    <2>5. CASE k \in {"queued", "goal", "answer"}
      <3>1. <<k>> \in Whats /\ \A c : <<k>> # <<"answered", c>>
        BY <2>5 DEF Whats
      <3>2. n = Noted(r, <<k>>)
        BY <2>1, <2>5 DEF TakeLine
      <3> QED BY <2>3, <3>1, <3>2
    <2>6. CASE k \in {"meta", "noise"}
      <3>1. n = r
        BY <2>1, <2>6 DEF TakeLine
      <3> QED BY <2>2, <3>1
    <2> QED BY <2>1, <2>4, <2>5, <2>6
  <1> QED BY <1>2, <1>3, <1>4, <1>5, <1>6, LineIs

-----------------------------------------------------------------------------
(* Extraction: the file, and what the reading of it says.                  *)

\* OpenAt, Awaited and so on, of any file.
OpenIn(f, k)      == Cardinality({j \in 1..k : Opening(f[j])})
Asks(f, k, c)     == f[k].kind = "call" /\ f[k].call = c /\ OpenIn(f, k) > 0
Settles(line, c)  == line.kind = "result" /\ line.call = c
Expected(f, k, c) == \E j \in 1..k : Asks(f, j, c) /\ \A m \in j..k : ~Settles(f[m], c)
CallsIn(f, c)     == {k \in 1..Len(f) : f[k] = Called(c)}
AnswersIn(v, c)   == {i \in 1..Len(v) : Answers(v[i], c)}

LEMMA OpenInIs ==
  ASSUME NEW f, NEW k \in Nat
  PROVE  /\ IsFiniteSet({j \in 1..k : Opening(f[j])}) /\ OpenIn(f, k) \in Nat
         /\ \A i \in 0..k : OpenIn(f, i) <= OpenIn(f, k)
  <1> DEFINE S(n) == {j \in 1..n : Opening(f[j])}
  <1>1. ASSUME NEW n \in Nat PROVE IsFiniteSet(S(n)) /\ Cardinality(S(n)) \in Nat
    <2>1. IsFiniteSet(1..n)
      BY FS_Interval
    <2>2. S(n) \in SUBSET (1..n)
      OBVIOUS
    <2> HIDE DEF S
    <2> QED BY <2>1, <2>2, FS_Subset, FS_CardinalityType
  <1>2. ASSUME NEW i \in 0..k PROVE Cardinality(S(i)) <= Cardinality(S(k))
    <2>1. S(i) \in SUBSET S(k)
      OBVIOUS
    <2> HIDE DEF S
    <2> QED BY <1>1, <2>1, FS_Subset
  <1>3. \A n : OpenIn(f, n) = Cardinality(S(n))
    BY DEF OpenIn
  <1>4. IsFiniteSet(S(k)) /\ Cardinality(S(k)) \in Nat
    BY <1>1
  <1>5. IsFiniteSet({j \in 1..k : Opening(f[j])})
    BY <1>4
  <1> HIDE DEF S
  <1> QED BY <1>2, <1>3, <1>4, <1>5

\* A further line leaves what the lines before it say, and opens or does not.
Further(f, line, g) ==
    /\ Len(f) \in Nat /\ Len(g) = Len(f) + 1 /\ g[Len(f) + 1] = line /\ \A i \in 1..Len(f) : g[i] = f[i]
    /\ \A k \in 0..Len(f) : OpenIn(g, k) = OpenIn(f, k)
    /\ OpenIn(g, Len(f) + 1) = OpenIn(f, Len(f)) + (IF Opening(line) THEN 1 ELSE 0)

LEMMA FurtherLine ==
  ASSUME NEW f \in Seq(Transcribed(agent)), NEW line \in Transcribed(agent)
  PROVE  LET g == Append(f, line) IN g \in Seq(Transcribed(agent)) /\ Further(f, line, g)
  <1> DEFINE N == Len(f)
             D == Transcribed(agent)
             g == Append(f, line)
  <1> HIDE DEF D
  <1>0. f \in Seq(D) /\ line \in D
    BY DEF D
  <1>1. N \in Nat /\ g \in Seq(D) /\ Len(g) = N + 1 /\ g[N + 1] = line /\ \A i \in 1..N : g[i] = f[i]
    BY <1>0
  <1> HIDE DEF N, g
  <1>2. ASSUME NEW k \in 0..N PROVE OpenIn(g, k) = OpenIn(f, k)
    <2>1. {j \in 1..k : Opening(g[j])} = {j \in 1..k : Opening(f[j])}
      <3>1. \A j \in 1..k : g[j] = f[j]
        BY <1>1
      <3> QED BY <3>1
    <2> QED BY <2>1 DEF OpenIn
  <1>3. OpenIn(g, N + 1) = OpenIn(f, N) + (IF Opening(line) THEN 1 ELSE 0)
    <2> DEFINE S == {j \in 1..N : Opening(g[j])}
               T == {j \in 1..(N + 1) : Opening(g[j])}
    <2>1. IsFiniteSet(S) /\ Cardinality(S) = OpenIn(f, N)
      <3>1. N \in 0..N
        BY <1>1
      <3> QED BY <1>1, <1>2, <3>1, OpenInIs DEF OpenIn
    <2>2. Cardinality(S) \in Nat
      BY <2>1, FS_CardinalityType
    <2>3. N + 1 \notin S
      BY <1>1
    <2>4. OpenIn(g, N + 1) = Cardinality(T)
      BY DEF OpenIn
    <2>5. 1..(N + 1) = (1..N) \cup {N + 1}
      BY <1>1
    <2>6. CASE Opening(line)
      <3>1. T = S \cup {N + 1}
        BY <1>1, <2>5, <2>6
      <3> HIDE DEF S, T
      <3>2. Cardinality(S \cup {N + 1}) = Cardinality(S) + 1
        BY <2>1, <2>3, FS_AddElement
      <3> QED BY <2>1, <2>4, <2>6, <3>1, <3>2
    <2>7. CASE ~Opening(line)
      <3>1. T = S
        BY <1>1, <2>5, <2>7
      <3> HIDE DEF S, T
      <3> QED BY <2>1, <2>2, <2>4, <2>7, <3>1
    <2> QED BY <2>6, <2>7
  <1>4. Further(f, line, g)
    BY <1>1, <1>2, <1>3 DEF Further, N
  <1> QED BY <1>1, <1>4 DEF g, D

\* Calls and answers that are counted.
LEMMA CountedIs ==
  ASSUME NEW n \in Nat, NEW S \in SUBSET (1..n)
  PROVE  IsFiniteSet(S) /\ Cardinality(S) \in Nat
  <1>1. IsFiniteSet(1..n)
    BY FS_Interval
  <1>2. IsFiniteSet(S)
    BY <1>1, FS_Subset
  <1> QED BY <1>2, FS_CardinalityType

-----------------------------------------------------------------------------
(* Extraction: the invariant.                                              *)

\* Edits, commands and failures, of a file and the requests read of it.
CallTold(f, v, k) ==
    f[k].kind = "call" /\ OpenIn(f, k) > 0 /\ Tool[f[k].call] \in {"edit", "run", "word"} =>
        TellsOf(v[OpenIn(f, k)], Trace(Tool[f[k].call], f[k].call))
FailureTold(f, v, k) ==
    f[k].kind = "result" /\ f[k].error /\ Expected(f, k - 1, f[k].call) =>
        OpenIn(f, k) > 0 /\ TellsOf(v[OpenIn(f, k)], Trace("failed", f[k].call))

\* Each answer and each pending question has a call of its own.
Counted(f, v, pending, c) ==
    Cardinality(AnswersIn(v, c)) + (IF c \in pending THEN 1 ELSE 0) <= Cardinality(CallsIn(f, c))

ReadSoundly(f, r) ==
    /\ f \in Seq(Transcribed(agent))
    /\ r \in SoundReaders /\ (r.pending # {} => r.segments # <<>>)
    /\ Len(View(r)) = OpenIn(f, Len(f))
    /\ agent = "claude" => \A c : Expected(f, Len(f), c) => c \in r.pending
    /\ \A k \in 1..Len(f) : CallTold(f, View(r), k) /\ FailureTold(f, View(r), k)
    /\ \A c \in Calls : Counted(f, View(r), r.pending, c)

ExtractionInv == agent \in {"claude", "codex"} /\ ReadSoundly(file, reader)

\* What was told of is told of after one more line.
LEMMA ToldStays ==
  ASSUME NEW v \in Seq(SoundSegments), NEW w \in Seq(SoundSegments), Continues(v, w), NEW i \in 1..Len(v)
  PROVE  /\ v[i] \in Segments /\ i \in 1..Len(w) /\ w[i] \in Segments /\ GrowsInto(v[i], w[i])
         /\ \A t : TellsOf(v[i], t) => TellsOf(w[i], t)
         /\ WorthIt(v[i]) => WorthIt(w[i])
  <1>1. Len(v) \in Nat /\ Len(w) \in Nat /\ Len(v) <= Len(w) /\ GrowsInto(v[i], w[i])
    BY DEF Continues
  <1>2. i \in 1..Len(w)
    BY <1>1
  <1>3. v[i] \in Segments /\ w[i] \in Segments
    <2>1. v[i] \in SoundSegments /\ w[i] \in SoundSegments
      BY <1>2
    <2> QED BY <2>1 DEF SoundSegments
  <1> QED BY <1>1, <1>2, <1>3, GrowsKeeps

\* Calls that wait for their results are pending.
LEMMA StillExpected ==
  ASSUME agent \in {"claude", "codex"}, NEW f, NEW r, ReadSoundly(f, r),
         NEW line \in Transcribed(agent), NEW g, g = Append(f, line), NEW n, StepSound(r, n, line)
  PROVE  agent = "claude" => \A c : Expected(g, Len(g), c) => c \in n.pending
  <1> SUFFICES ASSUME agent = "claude", NEW c, Expected(g, Len(g), c) PROVE c \in n.pending
    OBVIOUS
  <1> DEFINE N == Len(f)
  <1>1. f \in Seq(Transcribed(agent)) /\ r \in SoundReaders /\ Len(View(r)) = OpenIn(f, N)
        /\ (Expected(f, N, c) => c \in r.pending)
    BY DEF ReadSoundly
  <1>2. /\ N \in Nat /\ Len(g) = N + 1 /\ g[N + 1] = line /\ \A i \in 1..N : g[i] = f[i]
        /\ \A k \in 0..N : OpenIn(g, k) = OpenIn(f, k)
        /\ OpenIn(g, N + 1) = OpenIn(f, N) + (IF Opening(line) THEN 1 ELSE 0)
    <2>1. Further(f, line, g)
      BY <1>1, FurtherLine
    <2> QED BY <2>1 DEF Further
  <1> HIDE DEF N
  <1>3. PICK j \in 1..(N + 1) : Asks(g, j, c) /\ \A m \in j..(N + 1) : ~Settles(g[m], c)
    BY <1>2 DEF Expected
  <1>4. CASE j = N + 1
    <2>1. line.kind = "call" /\ line.call = c /\ OpenIn(g, N + 1) > 0
      BY <1>2, <1>3, <1>4 DEF Asks
    <2>2. ~Opening(line)
      BY <2>1 DEF Opening
    <2>3. Len(View(r)) > 0
      <3>1. OpenIn(f, N) \in Nat
        BY <1>2, OpenInIs
      <3>2. OpenIn(g, N + 1) = OpenIn(f, N)
        BY <1>2, <2>2, <3>1
      <3> QED BY <1>1, <2>1, <3>2
    <2>4. r.segments # <<>>
      <3>1. View(r) # <<>>
        BY <2>3
      <3> QED BY <1>1, <3>1, DrainedIs
    <2> QED BY <2>1, <2>4 DEF StepSound
  <1>5. CASE j \in 1..N
    <2>1. Asks(f, j, c)
      BY <1>2, <1>3, <1>5 DEF Asks
    <2>2. \A m \in j..N : ~Settles(f[m], c)
      <3> TAKE m \in j..N
      <3>1. m \in j..(N + 1) /\ g[m] = f[m]
        BY <1>2, <1>5
      <3> QED BY <1>3, <3>1
    <2>3. c \in r.pending
      BY <1>1, <1>5, <2>1, <2>2 DEF Expected
    <2>4. ~Settles(line, c)
      <3>1. N + 1 \in j..(N + 1)
        BY <1>2, <1>5
      <3> QED BY <1>2, <1>3, <3>1
    <2> QED BY <2>3, <2>4 DEF StepSound, Settles
  <1> QED BY <1>2, <1>4, <1>5

\* What was told of stays, and the new line is told of.
LEMMA StillTold ==
  ASSUME agent \in {"claude", "codex"}, NEW f, NEW r, ReadSoundly(f, r),
         NEW line \in Transcribed(agent), NEW g, g = Append(f, line), NEW n, StepSound(r, n, line)
  PROVE  \A k \in 1..Len(g) : CallTold(g, View(n), k) /\ FailureTold(g, View(n), k)
  <1> DEFINE N == Len(f)
             v == View(r)
             w == View(n)
  <1>1. /\ f \in Seq(Transcribed(agent)) /\ r \in SoundReaders /\ Len(v) = OpenIn(f, N)
        /\ (agent = "claude" => \A c : Expected(f, N, c) => c \in r.pending)
        /\ \A k \in 1..N : CallTold(f, v, k) /\ FailureTold(f, v, k)
    BY DEF ReadSoundly
  <1>2. /\ N \in Nat /\ Len(g) = N + 1 /\ g[N + 1] = line /\ \A i \in 1..N : g[i] = f[i]
        /\ \A k \in 0..N : OpenIn(g, k) = OpenIn(f, k)
        /\ OpenIn(g, N + 1) = OpenIn(f, N) + (IF Opening(line) THEN 1 ELSE 0)
    <2>1. Further(f, line, g)
      BY <1>1, FurtherLine
    <2> QED BY <2>1 DEF Further
  <1>3. v \in Seq(SoundSegments) /\ (r.segments = <<>> <=> v = <<>>)
    BY <1>1, DrainedIs
  <1>4. n \in SoundReaders /\ Continues(v, w) /\ Len(w) = Len(v) + (IF Opening(line) THEN 1 ELSE 0)
    BY DEF StepSound
  <1>5. w \in Seq(SoundSegments)
    BY <1>4, DrainedIs
  <1> HIDE DEF N, v, w
  <1>6. \A i \in 0..N : OpenIn(f, i) \in Nat /\ OpenIn(f, i) <= Len(v)
    <2> TAKE i \in 0..N
    <2>1. N \in Nat /\ i \in Nat
      BY <1>2
    <2>2. OpenIn(f, i) \in Nat
      BY <2>1, OpenInIs
    <2>3. OpenIn(f, i) <= OpenIn(f, N)
      BY <2>1, OpenInIs
    <2> QED BY <1>1, <2>2, <2>3
  <1>7. \A k \in 0..N : \A c : Expected(g, k, c) => Expected(f, k, c)
    <2> SUFFICES ASSUME NEW k \in 0..N, NEW c, Expected(g, k, c) PROVE Expected(f, k, c)
      OBVIOUS
    <2>1. PICK j \in 1..k : Asks(g, j, c) /\ \A m \in j..k : ~Settles(g[m], c)
      BY DEF Expected
    <2>2. j \in 1..N /\ j \in 0..N
      BY <1>2
    <2>3. Asks(f, j, c)
      BY <1>2, <2>1, <2>2 DEF Asks
    <2>4. \A m \in j..k : ~Settles(f[m], c)
      <3> TAKE m \in j..k
      <3>1. m \in 1..N
        BY <1>2, <2>2
      <3> QED BY <1>2, <2>1, <3>1
    <2> QED BY <2>3, <2>4 DEF Expected
  <1>8. ASSUME NEW k \in 1..N PROVE CallTold(g, w, k) /\ FailureTold(g, w, k)
    <2> DEFINE o == OpenIn(f, k)
    <2>1. g[k] = f[k] /\ OpenIn(g, k) = o /\ k \in 0..N /\ k - 1 \in 0..N
      BY <1>2
    <2>2. o \in Nat /\ o <= Len(v)
      BY <1>6, <2>1
    <2>3. CallTold(f, v, k) /\ FailureTold(f, v, k)
      BY <1>1
    <2> HIDE DEF o
    <2>4. o > 0 => \A t : TellsOf(v[o], t) => TellsOf(w[o], t)
      <3> SUFFICES ASSUME o > 0 PROVE \A t : TellsOf(v[o], t) => TellsOf(w[o], t)
        OBVIOUS
      <3>1. o \in 1..Len(v)
        BY <1>3, <2>2
      <3> QED BY <1>3, <1>4, <1>5, <3>1, ToldStays
    <2>5. CallTold(g, w, k)
      BY <2>1, <2>3, <2>4 DEF CallTold, o
    <2>6. FailureTold(g, w, k)
      BY <1>7, <2>1, <2>3, <2>4 DEF FailureTold, o
    <2> QED BY <2>5, <2>6
  <1>9. ~Opening(line) => OpenIn(g, N + 1) = Len(v) /\ Len(w) = Len(v) /\ Len(v) \in Nat
    BY <1>1, <1>2, <1>4, <1>6
  <1>10. CallTold(g, w, N + 1)
    <2> SUFFICES ASSUME line.kind = "call", OpenIn(g, N + 1) > 0, Tool[line.call] \in {"edit", "run", "word"}
                 PROVE  TellsOf(w[OpenIn(g, N + 1)], Trace(Tool[line.call], line.call))
      BY <1>2 DEF CallTold
    <2>1. OpenIn(g, N + 1) = Len(v) /\ Len(w) = Len(v) /\ Len(v) > 0
      BY <1>9 DEF Opening
    <2>2. r.segments # <<>>
      BY <1>3, <2>1
    <2>3. TellsOf(w[Len(w)], Trace(Tool[line.call], line.call))
      BY <2>2 DEF StepSound, w
    <2> QED BY <2>1, <2>3
  <1>11. FailureTold(g, w, N + 1)
    <2> SUFFICES ASSUME line.kind = "result", line.error, Expected(g, N, line.call)
                 PROVE  OpenIn(g, N + 1) > 0 /\ TellsOf(w[OpenIn(g, N + 1)], Trace("failed", line.call))
      BY <1>2 DEF FailureTold
    <2>1. Expected(f, N, line.call)
      BY <1>2, <1>7
    <2>2. agent = "claude" /\ line.call \in r.pending
      <3>1. agent = "claude"
        BY LineIs, Kinds DEF LineKinds
      <3> QED BY <1>1, <2>1, <3>1
    <2>3. OpenIn(g, N + 1) = Len(v) /\ Len(w) = Len(v)
      BY <1>9 DEF Opening
    <2>4. Len(v) > 0
      <3>1. PICK j \in 1..N : Asks(f, j, line.call)
        BY <2>1 DEF Expected
      <3>2. OpenIn(f, j) > 0 /\ OpenIn(f, j) \in Nat /\ OpenIn(f, j) <= Len(v)
        BY <1>6, <3>1 DEF Asks
      <3> QED BY <1>9, <2>3, <3>2, <1>3
    <2>5. TellsOf(w[Len(w)], Trace("failed", line.call))
      BY <2>2 DEF StepSound, w
    <2> QED BY <2>3, <2>4, <2>5
  <1>12. \A k \in 1..(N + 1) : k \in 1..N \/ k = N + 1
    BY <1>2
  <1> QED BY <1>2, <1>8, <1>10, <1>11, <1>12 DEF w

\* An answer that comes in is no longer pending, and a question that is pending
\* from now on has been put just now.
LEMMA StillCounted ==
  ASSUME agent \in {"claude", "codex"}, NEW f, NEW r, ReadSoundly(f, r),
         NEW line \in Transcribed(agent), NEW g, g = Append(f, line), NEW n, StepSound(r, n, line), NEW c \in Calls
  PROVE  Counted(g, View(n), n.pending, c)
  <1> DEFINE N == Len(f)
             v == View(r)
             w == View(n)
             A == AnswersIn(v, c)
             B == AnswersIn(w, c)
             C == CallsIn(f, c)
             D == CallsIn(g, c)
             p == IF c \in r.pending THEN 1 ELSE 0
             q == IF c \in n.pending THEN 1 ELSE 0
  <1>1. /\ f \in Seq(Transcribed(agent)) /\ r \in SoundReaders
        /\ Cardinality(A) + p <= Cardinality(C)
    BY DEF ReadSoundly, Counted
  <1>2. N \in Nat /\ Len(g) = N + 1 /\ g[N + 1] = line /\ \A i \in 1..N : g[i] = f[i]
    <2>1. Further(f, line, g)
      BY <1>1, FurtherLine
    <2> QED BY <2>1 DEF Further
  <1>3. v \in Seq(SoundSegments) /\ w \in Seq(SoundSegments)
    <2>1. n \in SoundReaders
      BY DEF StepSound
    <2> QED BY <1>1, <2>1, DrainedIs
  <1>4. Len(v) \in Nat /\ Len(w) \in Nat
    BY <1>3
  <1>5. A \in SUBSET (1..Len(v)) /\ B \in SUBSET (1..Len(w)) /\ C \in SUBSET (1..N) /\ D \in SUBSET (1..(N + 1))
    BY <1>2 DEF AnswersIn, CallsIn
  <1>6. \A i \in B : i \in A \/ (i = Len(w) /\ line.kind = "result" /\ line.call = c /\ c \in r.pending)
    BY DEF StepSound, AnswersIn
  <1>7. C \in SUBSET D
    BY <1>2 DEF CallsIn
  <1>8. line = Called(c) => D = C \cup {N + 1}
    <2> SUFFICES ASSUME line = Called(c) PROVE D = C \cup {N + 1}
      OBVIOUS
    <2>1. 1..(N + 1) = (1..N) \cup {N + 1}
      BY <1>2
    <2> QED BY <1>2, <2>1 DEF CallsIn
  <1> HIDE DEF N, A, B, C, D
  <1>9. /\ IsFiniteSet(A) /\ IsFiniteSet(B) /\ IsFiniteSet(C) /\ IsFiniteSet(D)
        /\ Cardinality(A) \in Nat /\ Cardinality(B) \in Nat /\ Cardinality(C) \in Nat /\ Cardinality(D) \in Nat
    <2>1. N + 1 \in Nat
      BY <1>2
    <2> QED BY <1>2, <1>4, <1>5, <2>1, CountedIs
  <1>10. Cardinality(C) <= Cardinality(D)
    BY <1>7, <1>9, FS_Subset
  <1>11. CASE line.kind = "result" /\ line.call = c /\ c \in r.pending
    <2>1. c \notin n.pending
      BY <1>11 DEF StepSound
    <2>2. B \in SUBSET (A \cup {Len(w)})
      BY <1>6
    <2> DEFINE X == A \cup {Len(w)}
    <2>3. IsFiniteSet(X) /\ Cardinality(X) <= Cardinality(A) + 1
      <3>1. IsFiniteSet(X) /\ Cardinality(X) = IF Len(w) \in A THEN Cardinality(A) ELSE Cardinality(A) + 1
        BY ONLY <1>9, FS_AddElement
      <3> QED BY <1>9, <3>1
    <2> HIDE DEF X
    <2>4. B \in SUBSET X
      BY <2>2 DEF X
    <2>5. Cardinality(B) <= Cardinality(X) /\ Cardinality(X) \in Nat
      BY <2>3, <2>4, FS_Subset, FS_CardinalityType
    <2>6. p = 1 /\ q = 0
      BY <1>11, <2>1
    <2> HIDE DEF p, q
    <2>7. Cardinality(B) + q <= Cardinality(D)
      BY <1>1, <1>9, <1>10, <2>3, <2>5, <2>6
    <2> QED BY <2>7 DEF Counted, B, D, q
  <1>12. CASE ~(line.kind = "result" /\ line.call = c /\ c \in r.pending)
    <2>1. B \in SUBSET A
      BY <1>6, <1>12
    <2>2. Cardinality(B) <= Cardinality(A)
      BY <1>9, <2>1, FS_Subset
    <2>3. CASE c \in n.pending /\ c \notin r.pending
      <3>1. line.kind = "call" /\ line.call = c
        BY <2>3 DEF StepSound
      <3>2. line = Called(c)
        <4>1. PICK d \in Calls : line = Called(d)
          BY <3>1, LineIs, Kinds DEF LineKinds
        <4> QED BY <3>1, <4>1, Kinds
      <3>3. N + 1 \notin C
        BY <1>2, <1>5
      <3>4. Cardinality(D) = Cardinality(C) + 1
        BY <1>8, <1>9, <3>2, <3>3, FS_AddElement
      <3>5. p = 0 /\ q = 1
        BY <2>3
      <3> HIDE DEF p, q
      <3>6. Cardinality(B) + q <= Cardinality(D)
        BY <1>1, <1>9, <2>2, <3>4, <3>5
      <3> QED BY <3>6 DEF Counted, B, D, q
    <2>4. CASE ~(c \in n.pending /\ c \notin r.pending)
      <3>1. q <= p /\ p \in {0, 1} /\ q \in {0, 1}
        BY <2>4
      <3> HIDE DEF p, q
      <3>2. Cardinality(B) + q <= Cardinality(D)
        BY <1>1, <1>9, <1>10, <2>2, <3>1
      <3> QED BY <3>2 DEF Counted, B, D, q
    <2> QED BY <2>3, <2>4
  <1> QED BY <1>11, <1>12

LEMMA ReadOn ==
  ASSUME agent \in {"claude", "codex"}, NEW f, NEW r, ReadSoundly(f, r), NEW line \in Transcribed(agent)
  PROVE  ReadSoundly(Append(f, line), TakeLine(r, line)) /\ Continues(View(r), View(TakeLine(r, line)))
  <1> DEFINE g == Append(f, line)
             n == TakeLine(r, line)
  <1>1. /\ f \in Seq(Transcribed(agent)) /\ r \in SoundReaders /\ (r.pending # {} => r.segments # <<>>)
        /\ Len(View(r)) = OpenIn(f, Len(f))
    BY DEF ReadSoundly
  <1>2. StepSound(r, n, line)
    BY <1>1, StepIs
  <1>3. g \in Seq(Transcribed(agent)) /\ Further(f, line, g)
    BY <1>1, FurtherLine
  <1>4. agent = "claude" => \A c : Expected(g, Len(g), c) => c \in n.pending
    BY <1>2, StillExpected
  <1>5. \A k \in 1..Len(g) : CallTold(g, View(n), k) /\ FailureTold(g, View(n), k)
    BY <1>2, StillTold
  <1>6. \A c \in Calls : Counted(g, View(n), n.pending, c)
    BY <1>2, StillCounted
  <1> HIDE DEF g, n
  <1>7. n \in SoundReaders /\ Continues(View(r), View(n)) /\ Len(View(n)) = OpenIn(g, Len(g))
    BY <1>1, <1>2, <1>3 DEF StepSound, Further
  <1>8. n.pending # {} => n.segments # <<>>
    <2> SUFFICES ASSUME n.pending # {} PROVE n.segments # <<>>
      OBVIOUS
    <2>1. r.segments # <<>>
      BY <1>1, <1>2 DEF StepSound
    <2>2. Len(View(r)) \in Nat /\ Len(View(r)) # 0
      <3>1. View(r) \in Seq(SoundSegments) /\ View(r) # <<>>
        BY <1>1, <2>1, DrainedIs
      <3> QED BY <3>1, EmptySeq
    <2>3. View(n) # <<>>
      <3>1. Len(View(n)) # 0
        BY <1>7, <2>2, DrainedIs DEF Continues
      <3> QED BY <3>1
    <2> QED BY <1>7, <2>3, DrainedIs
  <1>9. ReadSoundly(g, n)
    BY <1>3, <1>4, <1>5, <1>6, <1>7, <1>8 DEF ReadSoundly
  <1> QED BY <1>7, <1>9 DEF g, n

-----------------------------------------------------------------------------
(* Extraction: the theorem.                                                *)

LEMMA ReadFromTheStart == ExtractionInit => ExtractionInv
  <1> SUFFICES ASSUME ExtractionInit PROVE ExtractionInv
    OBVIOUS
  <1>1. agent \in {"claude", "codex"} /\ file = <<>> /\ reader = NewReader
    BY DEF ExtractionInit
  <1>2. reader \in SoundReaders /\ reader.segments = <<>> /\ reader.pending = {}
    BY <1>1 DEF NewReader, SoundReaders
  <1>3. View(reader) = <<>>
    BY <1>2, DrainedIs
  <1>4. file \in Seq(Transcribed(agent)) /\ Len(file) = 0 /\ Len(View(reader)) = 0 /\ 1..0 = {}
    BY <1>1, <1>3
  <1>5. OpenIn(file, 0) = 0
    <2>1. {j \in 1..0 : Opening(file[j])} = {}
      BY <1>4
    <2> QED BY <2>1, FS_EmptySet DEF OpenIn
  <1>6. \A c : ~Expected(file, 0, c)
    BY <1>4 DEF Expected
  <1>7. \A c \in Calls : Counted(file, View(reader), reader.pending, c)
    <2> TAKE c \in Calls
    <2>1. AnswersIn(View(reader), c) = {} /\ CallsIn(file, c) = {}
      BY <1>4 DEF AnswersIn, CallsIn
    <2>2. Cardinality(AnswersIn(View(reader), c)) = 0 /\ Cardinality(CallsIn(file, c)) = 0
      BY <2>1, FS_EmptySet
    <2> QED BY <1>2, <2>2 DEF Counted
  <1> QED BY <1>1, <1>2, <1>4, <1>5, <1>6, <1>7 DEF ExtractionInv, ReadSoundly

\* What a step does to what is read.
LEMMA ReadStep ==
  ASSUME ExtractionInv, [ExtractionNext]_extractionVars
  PROVE  ExtractionInv' /\ Continues(Reading, Reading')
  <1>1. agent \in {"claude", "codex"} /\ ReadSoundly(file, reader) /\ reader \in SoundReaders
    BY DEF ExtractionInv, ReadSoundly
  <1>2. Reading = View(reader) /\ Reading' = View(reader')
    BY DEF Reading, View
  <1>3. ASSUME NEW line \in Transcribed(agent), Goes(line) PROVE ExtractionInv' /\ Continues(View(reader), View(reader'))
    <2>1. file' = Append(file, line) /\ reader' = TakeLine(reader, line) /\ agent' = agent
      BY <1>3 DEF Goes
    <2>2. ReadSoundly(Append(file, line), TakeLine(reader, line)) /\ Continues(View(reader), View(TakeLine(reader, line)))
      BY <1>1, ReadOn
    <2>3. ReadSoundly(file, reader)'
      BY <2>1, <2>2 DEF ReadSoundly, Transcribed
    <2>4. Continues(View(reader), View(reader'))
      BY <2>1, <2>2
    <2> QED BY <1>1, <2>1, <2>3, <2>4 DEF ExtractionInv
  <1>4. CASE UNCHANGED extractionVars
    <2>1. agent' = agent /\ file' = file /\ reader' = reader
      BY <1>4 DEF extractionVars
    <2>2. ReadSoundly(file, reader)'
      BY <1>1, <2>1 DEF ReadSoundly, Transcribed
    <2>3. View(reader) \in Seq(SoundSegments)
      BY <1>1, DrainedIs
    <2>4. Continues(View(reader), View(reader))
      BY <2>3, SameView
    <2>5. Continues(View(reader), View(reader'))
      BY <2>1, <2>4
    <2>6. ExtractionInv'
      BY <1>1, <2>1, <2>2 DEF ExtractionInv
    <2> QED BY <1>2, <2>5, <2>6
  <1> QED BY <1>2, <1>3, <1>4 DEF ExtractionNext

\* What the invariant says in the words of the properties.
LEMMA InTheFile ==
  ASSUME ExtractionInv
  PROVE  /\ DOMAIN file = 1..Len(file) /\ Len(file) \in Nat /\ Reading = View(reader)
         /\ Reading \in Seq(SoundSegments) /\ DOMAIN Reading = 1..Len(Reading)
         /\ \A k \in 1..Len(file) :
                /\ OpenAt(k) = OpenIn(file, k) /\ OpenAt(k) \in Nat /\ OpenAt(k) <= Len(Reading)
                /\ CallTold(file, Reading, k) /\ FailureTold(file, Reading, k)
                /\ file[k].kind = "result" /\ Awaited(k) => Expected(file, k - 1, file[k].call)
  <1>1. /\ file \in Seq(Transcribed(agent)) /\ reader \in SoundReaders /\ Len(View(reader)) = OpenIn(file, Len(file))
        /\ \A k \in 1..Len(file) : CallTold(file, View(reader), k) /\ FailureTold(file, View(reader), k)
    BY DEF ExtractionInv, ReadSoundly
  <1>2. DOMAIN file = 1..Len(file) /\ Len(file) \in Nat
    BY <1>1
  <1>3. Reading = View(reader)
    BY DEF Reading, View
  <1>4. Reading \in Seq(SoundSegments)
    BY <1>1, <1>3, DrainedIs
  <1>5. \A k : OpenAt(k) = OpenIn(file, k)
    BY DEF OpenAt, OpenIn, Opens, Opening
  <1>6. ASSUME NEW k \in 1..Len(file) PROVE OpenAt(k) \in Nat /\ OpenAt(k) <= Len(Reading)
    <2>1. k \in Nat /\ k \in 0..Len(file)
      BY <1>2
    <2>2. OpenIn(file, k) \in Nat
      BY <2>1, OpenInIs
    <2>3. OpenIn(file, k) <= OpenIn(file, Len(file))
      BY <1>2, <2>1, OpenInIs
    <2> QED BY <1>1, <1>3, <1>5, <2>2, <2>3
  <1>7. ASSUME NEW k \in 1..Len(file), file[k].kind = "result", Awaited(k)
        PROVE  Expected(file, k - 1, file[k].call)
    <2> DEFINE c == file[k].call
    <2>1. PICK j \in 1..k : IsCall(j) /\ file[j].call = c /\ OpenAt(j) > 0 /\ \A m \in j..k - 1 : file[m].kind = "result" => file[m].call # c
      BY <1>7 DEF Awaited
    <2>2. j # k
      BY <1>7, <2>1 DEF IsCall
    <2>3. j \in 1..(k - 1)
      BY <1>2, <2>2
    <2>4. Asks(file, j, c)
      BY <1>5, <2>1 DEF Asks, IsCall
    <2>5. \A m \in j..(k - 1) : ~Settles(file[m], c)
      BY <2>1 DEF Settles
    <2> QED BY <2>3, <2>4, <2>5 DEF Expected
  <1>8. DOMAIN Reading = 1..Len(Reading)
    BY <1>4
  <1> QED BY <1>1, <1>2, <1>3, <1>4, <1>5, <1>6, <1>7, <1>8

LEMMA ReadRightly == ExtractionInv => EditsAndFailuresShown /\ LeftOutIsSaid /\ OutcomesHaveCalls
  <1> SUFFICES ASSUME ExtractionInv PROVE EditsAndFailuresShown /\ LeftOutIsSaid /\ OutcomesHaveCalls
    OBVIOUS
  <1>1. EditsAndFailuresShown
    <2>1. ASSUME NEW k \in DOMAIN file, IsCall(k), OpenAt(k) > 0, Tool[file[k].call] \in {"edit", "word"}
          PROVE  Trace(Tool[file[k].call], file[k].call) \in ShownIn(Reading[OpenAt(k)])
      <3>1. TellsOf(Reading[OpenAt(k)], Trace(Tool[file[k].call], file[k].call))
        BY <2>1, InTheFile DEF CallTold, IsCall
      <3>2. Trace(Tool[file[k].call], file[k].call)[1] # "run"
        BY <2>1 DEF Trace
      <3> QED BY <3>1, <3>2 DEF TellsOf
    <2>2. ASSUME NEW k \in DOMAIN file, file[k].kind = "result", file[k].error, Awaited(k)
          PROVE  Trace("failed", file[k].call) \in ShownIn(Reading[OpenAt(k)])
      <3>1. TellsOf(Reading[OpenAt(k)], Trace("failed", file[k].call))
        BY <2>2, InTheFile DEF FailureTold
      <3>2. Trace("failed", file[k].call)[1] # "run"
        BY DEF Trace
      <3> QED BY <3>1, <3>2 DEF TellsOf
    <2> QED BY <2>1, <2>2 DEF EditsAndFailuresShown
  <1>2. LeftOutIsSaid
    <2>1. ASSUME NEW k \in DOMAIN file, IsCall(k), OpenAt(k) > 0, Tool[file[k].call] = "run", NEW s, s = Reading[OpenAt(k)]
          PROVE  (Trace("run", file[k].call) \in ShownIn(s) \/ s.skipped > 0) /\ Cardinality(CommandsOf(s)) <= MaxCommands
      <3>1. TellsOf(s, Trace("run", file[k].call))
        BY <2>1, InTheFile DEF CallTold, IsCall
      <3>2. OpenAt(k) \in 1..Len(Reading) /\ Reading \in Seq(SoundSegments)
        BY <2>1, InTheFile
      <3>3. s \in SoundSegments
        BY <2>1, <3>2
      <3>4. s.commands \in Nat /\ s.commands <= MaxCommands /\ IsFiniteSet(CommandsOf(s)) /\ Cardinality(CommandsOf(s)) <= s.commands
        BY <3>3 DEF SoundSegments, Segments, FewCommands
      <3>5. Cardinality(CommandsOf(s)) \in Nat
        BY <3>4, FS_CardinalityType
      <3>6. Cardinality(CommandsOf(s)) <= MaxCommands
        BY <3>4, <3>5, MaxCommandsAssumption
      <3> QED BY <3>1, <3>6 DEF TellsOf
    <2> QED BY <2>1 DEF LeftOutIsSaid
  <1>3. OutcomesHaveCalls
    <2> SUFFICES ASSUME NEW c \in Calls
                 PROVE  Cardinality({i \in DOMAIN Reading : Note(<<"answered", c>>) \in Range(Reading[i].lines)})
                            <= Cardinality({k \in DOMAIN file : file[k] = Called(c)})
      BY DEF OutcomesHaveCalls
    <2> DEFINE A == {i \in DOMAIN Reading : Note(<<"answered", c>>) \in Range(Reading[i].lines)}
               C == {k \in DOMAIN file : file[k] = Called(c)}
    <2>1. A = AnswersIn(View(reader), c) /\ C = CallsIn(file, c)
      BY InTheFile DEF AnswersIn, CallsIn, Answers
    <2>2. A \in SUBSET (1..Len(Reading)) /\ C \in SUBSET (1..Len(file)) /\ Len(Reading) \in Nat /\ Len(file) \in Nat
      BY InTheFile
    <2> HIDE DEF A, C
    <2>3. Cardinality(A) + (IF c \in reader.pending THEN 1 ELSE 0) <= Cardinality(C)
      BY <2>1 DEF ExtractionInv, ReadSoundly, Counted
    <2>4. Cardinality(A) \in Nat /\ Cardinality(C) \in Nat
      BY <2>2, CountedIs
    <2>5. Cardinality(A) <= Cardinality(C)
      BY <2>3, <2>4
    <2> QED BY <2>5 DEF A, C
  <1> QED BY <1>1, <1>2, <1>3

\* Whatever the transcript says, in any order, and however long it grows: edits and
\* failures are shown under the request that was open, commands are shown or said
\* to be left out, answers to Claude's questions have calls, and a longer file is
\* read as the shorter one was, with more behind it (Reader of services/extract.py).
THEOREM ReadingsAlwaysAgree ==
  ExtractionInit /\ [][ExtractionNext]_extractionVars => ReadingsAgree
  <1>1. ExtractionInit => ExtractionInv
    BY ReadFromTheStart
  <1>2. ExtractionInv /\ [ExtractionNext]_extractionVars => ExtractionInv'
    BY ReadStep
  <1>3. ExtractionInv => EditsAndFailuresShown /\ LeftOutIsSaid /\ OutcomesHaveCalls
    BY ReadRightly
  <1>4. ExtractionInv /\ ExtractionInv' /\ [ExtractionNext]_extractionVars =>
            [LET before == Reading  after == Reading'
             IN \A i \in 1..Len(before) - 1 : i \in DOMAIN after /\ after[i] = before[i]]_extractionVars
    <2> SUFFICES ASSUME ExtractionInv, ExtractionInv', [ExtractionNext]_extractionVars, NEW i \in 1..Len(Reading) - 1
                 PROVE  i \in DOMAIN Reading' /\ Reading'[i] = Reading[i]
      OBVIOUS
    <2>1. Continues(Reading, Reading')
      BY ReadStep
    <2>2. Reading \in Seq(SoundSegments) /\ (Reading \in Seq(SoundSegments))'
      BY InTheFile, PTL
    <2> QED BY <2>1, <2>2 DEF Continues
  <1>5. ExtractionInv /\ ExtractionInv' /\ [ExtractionNext]_extractionVars =>
            [Substantial(Reading) => Substantial(Reading')]_extractionVars
    <2> SUFFICES ASSUME ExtractionInv, ExtractionInv', [ExtractionNext]_extractionVars, Substantial(Reading)
                 PROVE  Substantial(Reading')
      OBVIOUS
    <2>1. Continues(Reading, Reading')
      BY ReadStep
    <2>2. Reading \in Seq(SoundSegments) /\ (Reading \in Seq(SoundSegments))'
      BY InTheFile, PTL
    <2>3. PICK i \in 1..Len(Reading) : WorthIt(Reading[i])
      BY <2>2 DEF Substantial
    <2>4. i \in DOMAIN Reading' /\ WorthIt(Reading'[i])
      BY <2>1, <2>2, <2>3, ToldStays
    <2> QED BY <2>4 DEF Substantial
  <1> QED BY <1>1, <1>2, <1>3, <1>4, <1>5, PTL DEF ReadingsAgree, EarlierRequestsStay, StaysSubstantial
=============================================================================
