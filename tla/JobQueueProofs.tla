--------------------------- MODULE JobQueueProofs ---------------------------
(***************************************************************************)
(* Proofs about JobQueue for every value of its constants: the claim token *)
(* fences late results out, a deleted session stays deleted, the queue     *)
(* implements the abstract lease, and, where no unlocked window of the     *)
(* code is open, no activity of a session is lost.                         *)
(***************************************************************************)
EXTENDS JobQueue, TLAPS

-----------------------------------------------------------------------------
(* The row operators yield rows.                                           *)

LEMMA Members ==
    /\ 0 \in Versions /\ 0 \in Ages /\ 0 \in Nat
    /\ \A st \in {"ABSENT", "PENDING", "CLAIMED", "DONE", "FAILED"} : st \in Statuses
BY BoundAssumption DEF Versions, Ages, Statuses

LEMMA UnclaimedType ==
    ASSUME NEW row \in JobRow, NEW status \in Statuses
    PROVE  Unclaimed(row, status) \in JobRow
BY DEF Unclaimed, JobRow

LEMMA NoJobType == NoJob \in JobRow /\ NoPost \in Posts
BY Members DEF NoJob, NoPost, Posts, JobRow

LEMMA NewJobType == ASSUME NEW v \in Versions PROVE NewJob(v) \in JobRow
BY Members DEF NewJob, NoJob, JobRow

LEMMA ContinuedType ==
    ASSUME NEW row \in JobRow, NEW v \in Versions, NEW early \in BOOLEAN
    PROVE  Continued(row, v, early) \in JobRow
<1>1. ASSUME NEW fresh \in BOOLEAN, NEW status \in Statuses, NEW attempts \in Nat, NEW due \in BOOLEAN
      PROVE  [row EXCEPT !.digest = v, !.text = TRUE, !.age = 0, !.background = FALSE, !.refined = FALSE,
                         !.fresh = fresh, !.status = status, !.attempts = attempts, !.due = due] \in JobRow
  BY Members DEF JobRow
<1>2. /\ (row.status = "CLAIMED" /\ ~early) \in BOOLEAN
      /\ row.status \in Statuses /\ row.attempts \in Nat /\ row.due \in BOOLEAN
  BY DEF JobRow
<1>3. CASE row.status \in {"DONE", "FAILED"}
  BY <1>1, <1>2, <1>3, Members, Zenon DEF Continued
<1>4. CASE row.status \notin {"DONE", "FAILED"}
  BY <1>1, <1>2, <1>4, Zenon DEF Continued
<1> QED BY <1>3, <1>4

LEMMA FailedType == ASSUME NEW row \in JobRow PROVE Failed(row) \in JobRow
<1>1. /\ Unclaimed(row, "PENDING") \in JobRow /\ Unclaimed(row, "DONE") \in JobRow
      /\ Unclaimed(row, "FAILED") \in JobRow /\ row.attempts + 1 \in Nat
  BY Members, UnclaimedType DEF JobRow
<1>2. ASSUME NEW r \in JobRow, NEW n \in Nat, NEW due \in BOOLEAN
      PROVE  [r EXCEPT !.attempts = n, !.due = due] \in JobRow
  BY DEF JobRow
<1> QED BY <1>1, <1>2 DEF Failed

LEMMA WrittenType ==
    ASSUME NEW row \in JobRow, NEW q \in Providers PROVE Written(row, q) \in JobRow
BY Members DEF Written, Unclaimed, JobRow

LEMMA ReopenedType ==
    ASSUME NEW row \in JobRow, NEW kind \in Kinds PROVE Reopened(row, kind) \in JobRow
BY Members DEF Reopened, Unclaimed, JobRow, Kinds

LEMMA LoadedType == ASSUME NEW row \in JobRow PROVE Loaded(row) \in JobRow
BY Members DEF Loaded, JobRow

LEMMA FlushType ==
    ASSUME NEW now \in JobRow, NEW loaded \in JobRow, NEW wanted \in JobRow
    PROVE  Flush(now, loaded, wanted) \in JobRow
BY DEF Flush, Column, JobRow

LEMMA SetRowType ==
    ASSUME NEW s \in Sessions, NEW row \in JobRow, job \in [Sessions -> JobRow], SetRow(s, row)
    PROVE  job' \in [Sessions -> JobRow]
BY DEF SetRow

-----------------------------------------------------------------------------
(* Type correctness, one step per action.                                  *)

LEMMA InitType == Init => TypeOK
BY NoJobType, BoundAssumption DEF Init, TypeOK, Versions

LEMMA DeviceType == ASSUME TypeOK, NEW s \in Sessions, Device(s) PROVE TypeOK'
<1>1. CASE Stop(s)
  <2>0. 1..MaxVersion \subseteq Versions
    BY DEF Versions
  <2>1. PICK v \in Versions : /\ raw'  = [raw EXCEPT ![s] = v]
                              /\ post' = [post EXCEPT ![s] = [version |-> v, crossed |-> FALSE]]
    BY <1>1, <2>0, Zenon DEF Stop
  <2>2. [version |-> v, crossed |-> FALSE] \in Posts
    BY DEF Posts
  <2> QED BY <1>1, <2>1, <2>2 DEF Stop, TypeOK
<1>2. CASE LosePost(s)
  BY <1>2, NoJobType DEF LosePost, TypeOK
<1>3. CASE Enqueue(s)
  <2>1. post[s] \in Posts /\ post[s].version \in Versions /\ post[s].crossed \in BOOLEAN /\ job[s] \in JobRow
    BY DEF TypeOK, Posts
  <2>2. job' \in [Sessions -> JobRow]
    <3>1. CASE SetRow(s, NewJob(post[s].version))
      BY <3>1, <2>1, NewJobType, SetRowType DEF TypeOK
    <3>2. CASE \E early \in {FALSE, post[s].crossed} : SetRow(s, Continued(job[s], post[s].version, early))
      BY <3>2, <2>1, ContinuedType, SetRowType DEF TypeOK
    <3>3. CASE UNCHANGED job
      BY <3>3 DEF TypeOK
    <3> QED BY <1>3, <3>1, <3>2, <3>3 DEF Enqueue
  <2>3. seen' \in [Sessions -> {"no", "same", "moved"}]
    BY <1>3 DEF Enqueue, TypeOK
  <2> QED BY <1>3, <2>2, <2>3, NoJobType DEF Enqueue, TypeOK
<1> QED BY <1>1, <1>2, <1>3 DEF Device

LEMMA ClaimNextType ==
    ASSUME TypeOK, NEW s \in Sessions, NEW p \in Providers, ClaimNext(s, p)
    PROVE  TypeOK'
<1>1. PICK t \in Tokens :
        /\ SetRow(s, [job[s] EXCEPT !.status = "CLAIMED", !.token = t, !.fresh = FALSE, !.expired = FALSE])
        /\ work' = work \cup {[session |-> s, token |-> t, version |-> raw[s],
                               choices |-> Fallbacks(job[s], p)]}
  BY DEF ClaimNext
<1>2. [job[s] EXCEPT !.status = "CLAIMED", !.token = t, !.fresh = FALSE, !.expired = FALSE] \in JobRow
  <2>1. job[s] \in JobRow
    BY DEF TypeOK
  <2> QED BY <2>1, Members DEF JobRow
<1>3. job' \in [Sessions -> JobRow]
  BY <1>1, <1>2, SetRowType DEF TypeOK
<1>4. Fallbacks(job[s], p) \in SUBSET Providers
  BY DEF Fallbacks, TypeOK
<1>5. work' \in SUBSET Claims
  BY <1>1, <1>4 DEF TypeOK, Claims
<1>6. post' \in [Sessions -> Posts]
  <2>1. post' = [post EXCEPT ![s].crossed = post[s] # NoPost]
    BY DEF ClaimNext
  <2>2. [post[s] EXCEPT !.crossed = post[s] # NoPost] \in Posts
    BY DEF TypeOK, Posts
  <2> QED BY <2>1, <2>2 DEF TypeOK
<1> QED BY <1>3, <1>5, <1>6 DEF ClaimNext, TypeOK

LEMMA WorkerType == ASSUME TypeOK, NEW w \in work, Worker(w) PROVE TypeOK'
<1> USE DEF TypeOK
<1>1. /\ w \in Claims /\ w.session \in Sessions /\ w.version \in Versions
      /\ w.choices \subseteq Providers /\ job[w.session] \in JobRow
      /\ work \ {w} \in SUBSET Claims
  BY DEF Claims
<1>2. [job[w.session] EXCEPT !.path = TRUE] \in JobRow
  BY <1>1 DEF JobRow
<1>3. CASE Heartbeat(w)
  <2>1. [job[w.session] EXCEPT !.expired = FALSE] \in JobRow
    BY <1>1 DEF JobRow
  <2> QED BY <1>1, <1>3, <2>1, SetRowType DEF Heartbeat
<1>4. CASE Release(w)
  <2>1. Unclaimed(job[w.session], "PENDING") \in JobRow
    BY <1>1, UnclaimedType DEF Statuses
  <2>2. PICK later \in BOOLEAN :
          SetRow(w.session, [Unclaimed(job[w.session], "PENDING") EXCEPT !.due = ~later])
    BY <1>4 DEF Release
  <2>3. [Unclaimed(job[w.session], "PENDING") EXCEPT !.due = ~later] \in JobRow
    BY <2>1 DEF JobRow
  <2>4. job' \in [Sessions -> JobRow]
    BY <1>1, <2>2, <2>3, SetRowType
  <2> QED BY <1>1, <1>4, <2>4 DEF Release
<1>5. CASE Fail(w)
  BY <1>1, <1>5, FailedType, SetRowType DEF Fail
<1>6. CASE Complete(w)
  <2>1. job' \in [Sessions -> JobRow]
    BY <1>1, <1>2, <1>6, WrittenType, SetRowType DEF Complete
  <2> QED BY <1>1, <1>6, <2>1 DEF Complete
<1>7. CASE CompleteWithLinks(w)
  <2>1. job' \in [Sessions -> JobRow]
    BY <1>1, <1>2, <1>7, SetRowType DEF CompleteWithLinks
  <2>2. finishing' \in SUBSET [session: Sessions, row: JobRow, by: Providers]
    BY <1>1, <1>2, <1>7, LoadedType DEF CompleteWithLinks
  <2> QED BY <1>1, <1>7, <2>1, <2>2 DEF CompleteWithLinks
<1>8. CASE Abandon(w) \/ WorkerDies(w)
  BY <1>1, <1>8 DEF Abandon, WorkerDies
<1> QED BY <1>3, <1>4, <1>5, <1>6, <1>7, <1>8 DEF Worker

LEMMA FinishWrittenType ==
    ASSUME TypeOK, NEW f \in finishing, FinishWritten(f) PROVE TypeOK'
<1>1. /\ f.session \in Sessions /\ f.row \in JobRow /\ f.by \in Providers
      /\ job[f.session] \in JobRow
  BY DEF TypeOK
<1>2. Flush(job[f.session], f.row, Written(f.row, f.by)) \in JobRow
  BY <1>1, WrittenType, FlushType
<1>3. job' \in [Sessions -> JobRow]
  BY <1>1, <1>2, SetRowType DEF FinishWritten, TypeOK
<1> QED BY <1>3 DEF FinishWritten, TypeOK

LEMMA JanitorType == ASSUME TypeOK, JanitorPass PROVE TypeOK'
<1>0. \A s \in Sessions : job[s] \in JobRow
  BY DEF TypeOK
<1>1. CASE ReclaimStale
  <2>1. job' \in [Sessions -> JobRow]
    BY <1>0, <1>1, UnclaimedType DEF ReclaimStale, Statuses
  <2> QED BY <1>1, <2>1 DEF ReclaimStale, TypeOK
<1>2. CASE PurgeTranscripts
  <2>1. \A s \in Sessions : [job[s] EXCEPT !.text = FALSE] \in JobRow
    BY <1>0 DEF JobRow
  <2>2. job' \in [Sessions -> JobRow]
    BY <1>0, <1>2, <2>1 DEF PurgeTranscripts
  <2> QED BY <1>2, <2>2 DEF PurgeTranscripts, TypeOK
<1>3. CASE SettleDecided
  <2>1. \A s \in Sessions :
          [Unclaimed(job[s], "DONE") EXCEPT !.completed = TRUE, !.text = FALSE] \in JobRow
    BY <1>0, Members DEF JobRow, Unclaimed
  <2>2. job' \in [Sessions -> JobRow]
    BY <1>0, <1>3, <2>1 DEF SettleDecided
  <2> QED BY <1>3, <2>2 DEF SettleDecided, TypeOK
<1>4. ASSUME NEW s \in Sessions, ScanTrivial(s) PROVE TypeOK'
  BY <1>4 DEF ScanTrivial, TypeOK
<1>5. ASSUME NEW s \in Sessions, SettleWithoutNote(s) PROVE TypeOK'
  <2>1. [job[s] EXCEPT !.status = "DONE", !.completed = TRUE, !.text = FALSE, !.by = Janitor] \in JobRow
    BY <1>0, Members DEF JobRow
  <2>2. job' \in [Sessions -> JobRow]
    BY <1>5, <2>1, SetRowType DEF SettleWithoutNote, TypeOK
  <2> QED BY <1>5, <2>2 DEF SettleWithoutNote, TypeOK
<1>6. ASSUME NEW s \in Sessions, NEW kind \in Kinds, Reopen(s, kind) PROVE TypeOK'
  <2>1. job' \in [Sessions -> JobRow]
    BY <1>0, <1>6, ReopenedType, SetRowType DEF Reopen, TypeOK
  <2>2. seen' \in [Sessions -> {"no", "same", "moved"}]
    BY <1>6 DEF Reopen, TypeOK
  <2> QED BY <1>6, <2>1, <2>2 DEF Reopen, TypeOK
<1>7. ASSUME NEW s \in Sessions, NEW kind \in Kinds, ListRow(s, kind) PROVE TypeOK'
  <2>1. Loaded(job[s]) \in JobRow
    BY <1>0, LoadedType
  <2> QED BY <1>7, <2>1 DEF ListRow, TypeOK
<1>8. ASSUME NEW l \in listed, SaveListed(l) PROVE TypeOK'
  <2>1. l.session \in Sessions /\ l.kind \in Kinds /\ l.row \in JobRow
    BY DEF TypeOK
  <2>2. Flush(job[l.session], l.row, Reopened(l.row, l.kind)) \in JobRow
    BY <1>0, <2>1, ReopenedType, FlushType
  <2>3. job' \in [Sessions -> JobRow]
    BY <1>8, <2>1, <2>2, SetRowType DEF SaveListed, TypeOK
  <2>4. seen' \in [Sessions -> {"no", "same", "moved"}]
    BY <1>8, <2>1 DEF SaveListed, TypeOK
  <2> QED BY <1>8, <2>3, <2>4 DEF SaveListed, TypeOK
<1> QED BY <1>1, <1>2, <1>3, <1>4, <1>5, <1>6, <1>7, <1>8 DEF JanitorPass

LEMMA OwnerType == ASSUME TypeOK, OwnerCommand PROVE TypeOK'
<1>1. ASSUME NEW s \in Sessions, Retry(s) PROVE TypeOK'
  <2>0. job[s] \in JobRow
    BY DEF TypeOK
  <2>1. [Unclaimed(job[s], "PENDING") EXCEPT !.attempts = 0, !.due = TRUE] \in JobRow
    BY <2>0, Members DEF JobRow, Unclaimed
  <2>2. job' \in [Sessions -> JobRow]
    BY <1>1, <2>1, SetRowType DEF Retry, TypeOK
  <2> QED BY <1>1, <2>2 DEF Retry, TypeOK
<1>2. ASSUME NEW s \in Sessions, Forget(s) PROVE TypeOK'
  <2> DEFINE row == [job[s] EXCEPT !.path = FALSE, !.text = FALSE]
  <2>0. job[s] \in JobRow
    BY DEF TypeOK
  <2>3. row \in JobRow
    BY <2>0 DEF JobRow
  <2> HIDE DEF row
  <2>1. row \in JobRow /\ Unclaimed(row, "DONE") \in JobRow
    BY <2>3, UnclaimedType, Members
  <2>9. [Unclaimed(row, "DONE") EXCEPT !.completed = TRUE] \in JobRow
    BY <2>1 DEF JobRow
  <2>2. job' \in [Sessions -> JobRow]
    BY <1>2, <2>1, <2>9, SetRowType DEF Forget, TypeOK, row
  <2>4. job[s].digest \in Versions /\ 0 \in Versions
    BY Members DEF TypeOK, JobRow
  <2> QED BY <1>2, <2>2, <2>4 DEF Forget, TypeOK
<1>3. ASSUME NEW s \in Sessions, Allow(s) PROVE TypeOK'
  BY <1>3 DEF Allow, TypeOK
<1>4. ASSUME NEW p \in Providers, RemoveProvider(p) PROVE TypeOK'
  BY <1>4 DEF RemoveProvider, TypeOK
<1> QED BY <1>1, <1>2, <1>3, <1>4 DEF OwnerCommand

LEMMA TimeType == ASSUME TypeOK, NEW s \in Sessions, Time(s) PROVE TypeOK'
<1>1. job[s] \in JobRow
  BY DEF TypeOK
<1>2. CASE GrowOlder(s)
  <2>1. [job[s] EXCEPT !.age = @ + 1] \in JobRow
    BY <1>1, <1>2 DEF JobRow, GrowOlder, Ages
  <2> QED BY <1>2, <2>1, SetRowType DEF GrowOlder, TypeOK
<1>3. CASE BackoffEnds(s)
  <2>1. [job[s] EXCEPT !.due = TRUE] \in JobRow
    BY <1>1 DEF JobRow
  <2> QED BY <1>3, <2>1, SetRowType DEF BackoffEnds, TypeOK
<1>4. CASE ClaimExpires(s)
  <2>1. [job[s] EXCEPT !.expired = TRUE] \in JobRow
    BY <1>1 DEF JobRow
  <2> QED BY <1>4, <2>1, SetRowType DEF ClaimExpires, TypeOK
<1> QED BY <1>2, <1>3, <1>4 DEF Time

LEMMA NextType == TypeOK /\ [Next]_vars => TypeOK'
<1> SUFFICES ASSUME TypeOK, [Next]_vars PROVE TypeOK'
  OBVIOUS
<1>1. CASE ServerRestarts
  BY <1>1, NoJobType DEF ServerRestarts, TypeOK
<1>2. CASE UNCHANGED vars
  BY <1>2 DEF vars, TypeOK
<1> QED
  BY <1>1, <1>2, DeviceType, ClaimNextType, WorkerType, FinishWrittenType, JanitorType, OwnerType, TimeType
  DEF Next

(* Every variable keeps its type: what Job and the payloads of a claim can *)
(* hold, through every handler, pass and command (backend/models.py).      *)
THEOREM TypeCorrect == Spec => []TypeOK
<1>1. Init => TypeOK
  BY InitType
<1>2. TypeOK /\ [Next]_vars => TypeOK'
  BY NextType
<1> QED BY <1>1, <1>2, PTL DEF Spec

-----------------------------------------------------------------------------
(* Leases.  Only claim_next grants one: every other handler, pass, command *)
(* and passing of time keeps the lease of a session or ends it, also when  *)
(* it saves a row it read before.                                          *)

Keeps ==
    \A s \in Sessions :
        job'[s].status = "CLAIMED" =>
            job[s].status = "CLAIMED" /\ job'[s].token \in {job[s].token, NoToken}

LEMMA KeepsOwner ==
    ASSUME Keeps PROVE \A s \in Sessions : Owner'[s] \in {Owner[s], NoToken}
BY DEF Keeps, Owner

LEMMA SetRowKeeps ==
    ASSUME TypeOK, NEW s \in Sessions, NEW row, SetRow(s, row),
           row.status = "CLAIMED" => job[s].status = "CLAIMED" /\ row.token \in {job[s].token, NoToken}
    PROVE  Keeps
<1>1. \A o \in Sessions : job'[o] = IF o = s THEN row ELSE job[o]
  BY DEF SetRow, TypeOK
<1> QED BY <1>1 DEF Keeps, Owner

LEMMA SameRowsKeep == ASSUME UNCHANGED job PROVE Keeps
BY DEF Keeps, Owner

LEMMA DeviceKeeps == ASSUME TypeOK, NEW s \in Sessions, Device(s) PROVE Keeps
<1>0. job[s] \in JobRow /\ post[s] \in Posts
  BY DEF TypeOK
<1>1. CASE UNCHANGED job
  BY <1>1, SameRowsKeep
<1>2. CASE SetRow(s, NewJob(post[s].version))
  <2>1. NewJob(post[s].version).status = "PENDING"
    BY DEF NewJob, NoJob
  <2> QED BY <1>2, <2>1, SetRowKeeps
<1>3. ASSUME NEW early \in BOOLEAN, SetRow(s, Continued(job[s], post[s].version, early)) PROVE Keeps
  <2>1. /\ Continued(job[s], post[s].version, early).token = job[s].token
        /\ Continued(job[s], post[s].version, early).status = "CLAIMED" => job[s].status = "CLAIMED"
    BY <1>0 DEF Continued, JobRow
  <2> QED BY <1>3, <2>1, SetRowKeeps
<1>4. post[s].crossed \in BOOLEAN
  BY <1>0 DEF Posts
<1> QED BY <1>1, <1>2, <1>3, <1>4 DEF Device, Stop, LosePost, Enqueue

LEMMA UnclaimedStatus ==
    ASSUME NEW row \in JobRow, NEW status \in Statuses
    PROVE  Unclaimed(row, status).status = status /\ Unclaimed(row, status).token = NoToken
BY DEF Unclaimed, JobRow

LEMMA WrittenStatus ==
    ASSUME NEW row \in JobRow, NEW q \in Providers
    PROVE  /\ Written(row, q).status = IF row.fresh THEN "PENDING" ELSE "DONE"
           /\ Written(row, q).token = NoToken
BY DEF Written, Unclaimed, JobRow

LEMMA FailedStatus ==
    ASSUME NEW row \in JobRow
    PROVE  /\ Failed(row).status \in {"PENDING", "DONE", "FAILED"}
           /\ Failed(row).status = "DONE" => row.refined
           /\ Failed(row).token = NoToken
BY DEF Failed, Unclaimed, JobRow

LEMMA ReopenedStatus ==
    ASSUME NEW row \in JobRow, NEW kind \in Kinds
    PROVE  Reopened(row, kind).status = "PENDING" /\ Reopened(row, kind).token \in {row.token, NoToken}
BY DEF Reopened, Unclaimed, JobRow, Kinds

LEMMA WorkerKeeps == ASSUME TypeOK, NEW w \in work, Worker(w) PROVE Keeps
<1>0. w.session \in Sessions /\ w.choices \subseteq Providers /\ job[w.session] \in JobRow
  BY DEF TypeOK, Claims
<1>1. CASE Heartbeat(w)
  <2>1. /\ [job[w.session] EXCEPT !.expired = FALSE].status = job[w.session].status
        /\ [job[w.session] EXCEPT !.expired = FALSE].token = job[w.session].token
    BY <1>0 DEF JobRow
  <2> QED BY <1>0, <1>1, <2>1, SetRowKeeps DEF Heartbeat
<1>2. CASE Release(w)
  <2>1. Unclaimed(job[w.session], "PENDING") \in JobRow
    BY <1>0, UnclaimedType, Members
  <2>2. PICK later \in BOOLEAN :
          SetRow(w.session, [Unclaimed(job[w.session], "PENDING") EXCEPT !.due = ~later])
    BY <1>2 DEF Release
  <2>3. [Unclaimed(job[w.session], "PENDING") EXCEPT !.due = ~later].status = "PENDING"
    BY <1>0, <2>1, UnclaimedStatus, Members DEF JobRow
  <2> QED BY <1>0, <2>2, <2>3, SetRowKeeps
<1>3. CASE Fail(w)
  BY <1>0, <1>3, FailedStatus, SetRowKeeps DEF Fail
<1>4. [job[w.session] EXCEPT !.path = TRUE] \in JobRow
  BY <1>0 DEF JobRow
<1>5. CASE Complete(w)
  <2>1. PICK q \in Providers : SetRow(w.session, Written([job[w.session] EXCEPT !.path = TRUE], q))
    BY <1>0, <1>5 DEF Complete
  <2> QED BY <1>0, <1>4, <2>1, WrittenStatus, SetRowKeeps
<1>6. CASE CompleteWithLinks(w)
  <2>1. /\ [job[w.session] EXCEPT !.path = TRUE].status = job[w.session].status
        /\ [job[w.session] EXCEPT !.path = TRUE].token = job[w.session].token
    BY <1>0 DEF JobRow
  <2>2. SetRow(w.session, [job[w.session] EXCEPT !.path = TRUE])
    BY <1>6 DEF CompleteWithLinks
  <2> QED BY <1>0, <2>1, <2>2, SetRowKeeps
<1>7. CASE Abandon(w) \/ WorkerDies(w)
  BY <1>7, SameRowsKeep DEF Abandon, WorkerDies
<1> QED BY <1>1, <1>2, <1>3, <1>5, <1>6, <1>7 DEF Worker

(* Saving a stale row writes its status and its token only where they      *)
(* change, and then they become those of a row nobody holds.               *)
LEMMA FlushKeeps ==
    ASSUME NEW now \in JobRow, NEW loaded \in JobRow, NEW wanted \in JobRow,
           wanted.status # "CLAIMED", wanted.token \in {loaded.token, NoToken}
    PROVE  LET row == Flush(now, loaded, wanted) IN
           row.status = "CLAIMED" => now.status = "CLAIMED" /\ row.token \in {now.token, NoToken}
BY DEF Flush, Column

LEMMA FinishWrittenKeeps == ASSUME TypeOK, NEW f \in finishing, FinishWritten(f) PROVE Keeps
<1>1. /\ f.session \in Sessions /\ f.row \in JobRow /\ f.by \in Providers
      /\ job[f.session] \in JobRow
  BY DEF TypeOK
<1>2. /\ Written(f.row, f.by) \in JobRow /\ Written(f.row, f.by).status # "CLAIMED"
      /\ Written(f.row, f.by).token = NoToken
  BY <1>1, WrittenType, WrittenStatus
<1>3. SetRow(f.session, Flush(job[f.session], f.row, Written(f.row, f.by)))
  BY DEF FinishWritten
<1> QED BY <1>1, <1>2, <1>3, FlushKeeps, SetRowKeeps

LEMMA JanitorKeeps == ASSUME TypeOK, JanitorPass PROVE Keeps
<1>0. \A s \in Sessions : job[s] \in JobRow
  BY DEF TypeOK
<1>1. CASE ReclaimStale
  <2>1. \A s \in Sessions : job'[s] = job[s] \/ job'[s].status = "PENDING"
    BY <1>0, <1>1, UnclaimedStatus, Members DEF ReclaimStale
  <2> QED BY <2>1 DEF Keeps, Owner
<1>2. CASE PurgeTranscripts
  <2>1. \A s \in Sessions : job'[s].status = job[s].status /\ job'[s].token = job[s].token
    BY <1>0, <1>2 DEF PurgeTranscripts, JobRow
  <2> QED BY <2>1 DEF Keeps, Owner
<1>3. CASE SettleDecided
  <2>1. \A s \in Sessions :
          /\ Unclaimed(job[s], "DONE") \in JobRow
          /\ [Unclaimed(job[s], "DONE") EXCEPT !.completed = TRUE, !.text = FALSE].status = "DONE"
    BY <1>0, UnclaimedType, UnclaimedStatus, Members DEF JobRow
  <2>2. \A s \in Sessions : job'[s] = job[s] \/ job'[s].status = "DONE"
    BY <1>3, <2>1 DEF SettleDecided
  <2> QED BY <2>2 DEF Keeps, Owner
<1>4. ASSUME NEW s \in Sessions, ScanTrivial(s) PROVE Keeps
  BY <1>4, SameRowsKeep DEF ScanTrivial
<1>5. ASSUME NEW s \in Sessions, SettleWithoutNote(s) PROVE Keeps
  <2>1. [job[s] EXCEPT !.status = "DONE", !.completed = TRUE, !.text = FALSE, !.by = Janitor].status = "DONE"
    BY <1>0 DEF JobRow
  <2> QED BY <1>5, <2>1, SetRowKeeps, SameRowsKeep DEF SettleWithoutNote
<1>6. ASSUME NEW s \in Sessions, NEW kind \in Kinds, Reopen(s, kind) PROVE Keeps
  BY <1>0, <1>6, ReopenedStatus, SetRowKeeps DEF Reopen
<1>7. ASSUME NEW s \in Sessions, NEW kind \in Kinds, ListRow(s, kind) PROVE Keeps
  BY <1>7, SameRowsKeep DEF ListRow
<1>8. ASSUME NEW l \in listed, SaveListed(l) PROVE Keeps
  <2>1. l.session \in Sessions /\ l.kind \in Kinds /\ l.row \in JobRow
    BY DEF TypeOK
  <2>2. /\ Reopened(l.row, l.kind) \in JobRow /\ Reopened(l.row, l.kind).status = "PENDING"
        /\ Reopened(l.row, l.kind).token \in {l.row.token, NoToken}
    BY <2>1, ReopenedType, ReopenedStatus
  <2>3. \/ UNCHANGED job
        \/ SetRow(l.session, Flush(job[l.session], l.row, Reopened(l.row, l.kind)))
    BY <1>8 DEF SaveListed
  <2> QED BY <1>0, <2>1, <2>2, <2>3, FlushKeeps, SetRowKeeps, SameRowsKeep
<1> QED BY <1>1, <1>2, <1>3, <1>4, <1>5, <1>6, <1>7, <1>8 DEF JanitorPass

LEMMA ForgetRow ==
    ASSUME TypeOK, NEW s \in Sessions, Forget(s)
    PROVE  \E row \in JobRow :
             /\ SetRow(s, row)
             /\ row.status # "CLAIMED" /\ (row.status = "ABSENT" => job[s].status = "ABSENT")
             /\ row.digest = job[s].digest /\ row.refined = job[s].refined
<1> DEFINE row == [job[s] EXCEPT !.path = FALSE, !.text = FALSE]
           done == Unclaimed(row, "DONE")
<1>1. job[s] \in JobRow
  BY DEF TypeOK
<1>2. /\ row \in JobRow /\ row.status = job[s].status
      /\ row.digest = job[s].digest /\ row.refined = job[s].refined
  BY <1>1 DEF JobRow
<1>3. SetRow(s, IF row.status \in {"PENDING", "CLAIMED"} THEN [done EXCEPT !.completed = TRUE] ELSE row)
  BY DEF Forget
<1> HIDE DEF row
<1>4. done \in JobRow /\ done.status = "DONE" /\ done.digest = row.digest /\ done.refined = row.refined
  <2>1. done \in JobRow /\ done.status = "DONE"
    BY <1>2, UnclaimedType, UnclaimedStatus, Members
  <2>2. done.digest = row.digest /\ done.refined = row.refined
    BY <1>2 DEF Unclaimed, JobRow
  <2> QED BY <2>1, <2>2
<1> HIDE DEF done
<1>5. /\ [done EXCEPT !.completed = TRUE] \in JobRow
      /\ [done EXCEPT !.completed = TRUE].status = "DONE"
      /\ [done EXCEPT !.completed = TRUE].digest = done.digest
      /\ [done EXCEPT !.completed = TRUE].refined = done.refined
  BY <1>4 DEF JobRow
<1>6. CASE row.status \in {"PENDING", "CLAIMED"}
  BY <1>2, <1>3, <1>4, <1>5, <1>6
<1>7. CASE row.status \notin {"PENDING", "CLAIMED"}
  BY <1>2, <1>3, <1>7
<1> QED BY <1>6, <1>7

LEMMA OwnerKeeps == ASSUME TypeOK, OwnerCommand PROVE Keeps
<1>1. ASSUME NEW s \in Sessions, Retry(s) PROVE Keeps
  <2>1. job[s] \in JobRow /\ Unclaimed(job[s], "PENDING") \in JobRow
    BY UnclaimedType, Members DEF TypeOK
  <2>2. [Unclaimed(job[s], "PENDING") EXCEPT !.attempts = 0, !.due = TRUE].status = "PENDING"
    BY <2>1, UnclaimedStatus, Members DEF JobRow
  <2> QED BY <1>1, <2>2, SetRowKeeps DEF Retry
<1>2. ASSUME NEW s \in Sessions, Forget(s) PROVE Keeps
  BY <1>2, ForgetRow, SetRowKeeps
<1>3. ASSUME NEW s \in Sessions, Allow(s) PROVE Keeps
  BY <1>3, SameRowsKeep DEF Allow
<1>4. ASSUME NEW p \in Providers, RemoveProvider(p) PROVE Keeps
  BY <1>4, SameRowsKeep DEF RemoveProvider
<1> QED BY <1>1, <1>2, <1>3, <1>4 DEF OwnerCommand

LEMMA TimeKeeps == ASSUME TypeOK, NEW s \in Sessions, Time(s) PROVE Keeps
<1>1. job[s] \in JobRow
  BY DEF TypeOK
<1>2. /\ [job[s] EXCEPT !.age = @ + 1].status = job[s].status
      /\ [job[s] EXCEPT !.age = @ + 1].token = job[s].token
      /\ [job[s] EXCEPT !.due = TRUE].status = job[s].status
      /\ [job[s] EXCEPT !.due = TRUE].token = job[s].token
      /\ [job[s] EXCEPT !.expired = TRUE].status = job[s].status
      /\ [job[s] EXCEPT !.expired = TRUE].token = job[s].token
  BY <1>1 DEF JobRow
<1> QED BY <1>2, SetRowKeeps DEF Time, GrowOlder, BackoffEnds, ClaimExpires

LEMMA AllKeep ==
    ASSUME TypeOK, Next, ~(\E s \in Sessions, p \in Providers : ClaimNext(s, p))
    PROVE  Keeps
<1>1. CASE ServerRestarts
  BY <1>1, SameRowsKeep DEF ServerRestarts
<1> QED
  BY <1>1, DeviceKeeps, TimeKeeps, WorkerKeeps, FinishWrittenKeeps, JanitorKeeps, OwnerKeeps DEF Next

-----------------------------------------------------------------------------
(* What else a step may change: notes, decisions and claims.               *)

LEMMA NoteUnchanged ==
    ASSUME Next, ~(\E w \in work : Complete(w) \/ CompleteWithLinks(w)),
           ~(\E s \in Sessions : Forget(s))
    PROVE  UNCHANGED note
BY DEF Next, Device, Stop, LosePost, Enqueue, Time, GrowOlder, BackoffEnds, ClaimExpires, ClaimNext,
       Worker, Heartbeat, Release, Fail, Abandon, WorkerDies, FinishWritten,
       JanitorPass, ReclaimStale, PurgeTranscripts, SettleDecided, ScanTrivial, SettleWithoutNote,
       Reopen, ListRow, SaveListed, ServerRestarts, OwnerCommand, Retry, Allow, RemoveProvider

LEMMA HiddenUnchanged ==
    ASSUME Next, ~(\E s \in Sessions : Forget(s) \/ Allow(s))
    PROVE  UNCHANGED hidden
BY DEF Next, Device, Stop, LosePost, Enqueue, Time, GrowOlder, BackoffEnds, ClaimExpires, ClaimNext,
       Worker, Heartbeat, Release, Fail, Complete, CompleteWithLinks, Abandon, WorkerDies, FinishWritten,
       JanitorPass, ReclaimStale, PurgeTranscripts, SettleDecided, ScanTrivial, SettleWithoutNote,
       Reopen, ListRow, SaveListed, ServerRestarts, OwnerCommand, Retry, RemoveProvider

LEMMA RawGrows ==
    ASSUME TypeOK, Next
    PROVE  \A s \in Sessions : raw[s] <= raw'[s]
<1>0. raw \in [Sessions -> Nat]
  BY BoundAssumption DEF TypeOK, Versions
<1>1. ASSUME NEW s \in Sessions, Stop(s) PROVE \A o \in Sessions : raw[o] <= raw'[o]
  BY <1>0, <1>1 DEF Stop
<1>2. CASE UNCHANGED raw
  BY <1>0, <1>2
<1> QED
  BY <1>1, <1>2
  DEF Next, Device, LosePost, Enqueue, Time, GrowOlder, BackoffEnds, ClaimExpires, ClaimNext,
      Worker, Heartbeat, Release, Fail, Complete, CompleteWithLinks, Abandon, WorkerDies, FinishWritten,
      JanitorPass, ReclaimStale, PurgeTranscripts, SettleDecided, ScanTrivial, SettleWithoutNote,
      Reopen, ListRow, SaveListed, ServerRestarts, OwnerCommand, Retry, Forget, Allow, RemoveProvider

LEMMA WorkShrinks ==
    ASSUME Next, ~(\E s \in Sessions, p \in Providers : ClaimNext(s, p))
    PROVE  work' \subseteq work
BY DEF Next, Device, Stop, LosePost, Enqueue, Time, GrowOlder, BackoffEnds, ClaimExpires,
       Worker, Heartbeat, Release, Fail, Complete, CompleteWithLinks, Abandon, WorkerDies, FinishWritten,
       JanitorPass, ReclaimStale, PurgeTranscripts, SettleDecided, ScanTrivial, SettleWithoutNote,
       Reopen, ListRow, SaveListed, ServerRestarts, OwnerCommand, Retry, Forget, Allow, RemoveProvider

(* What claim_next does to the leases.                                     *)
LEMMA Granted ==
    ASSUME TypeOK, NEW s \in Sessions, NEW p \in Providers, ClaimNext(s, p)
    PROVE  \E t \in Tokens \ UsedTokens :
             /\ job'[s] = [job[s] EXCEPT !.status = "CLAIMED", !.token = t,
                                         !.fresh = FALSE, !.expired = FALSE]
             /\ \A o \in Sessions \ {s} : job'[o] = job[o]
             /\ Owner[s] = NoToken /\ Owner' = [Owner EXCEPT ![s] = t]
             /\ work' = work \cup {[session |-> s, token |-> t, version |-> raw[s],
                                    choices |-> Fallbacks(job[s], p)]}
<1>1. PICK t \in Tokens \ UsedTokens :
        /\ SetRow(s, [job[s] EXCEPT !.status = "CLAIMED", !.token = t, !.fresh = FALSE, !.expired = FALSE])
        /\ work' = work \cup {[session |-> s, token |-> t, version |-> raw[s],
                               choices |-> Fallbacks(job[s], p)]}
  BY DEF ClaimNext
<1> DEFINE row == [job[s] EXCEPT !.status = "CLAIMED", !.token = t, !.fresh = FALSE, !.expired = FALSE]
<1>2. row.status = "CLAIMED" /\ row.token = t
  BY DEF TypeOK, JobRow
<1> HIDE DEF row
<1>3. job' = [job EXCEPT ![s] = row] /\ job \in [Sessions -> JobRow]
  BY <1>1 DEF SetRow, TypeOK, row
<1>4. Owner' = [Owner EXCEPT ![s] = t]
  BY <1>2, <1>3 DEF Owner
<1>5. Owner[s] = NoToken
  BY DEF ClaimNext, Claimable, Owner
<1> QED BY <1>1, <1>3, <1>4, <1>5 DEF row

LEMMA Decision ==
    ASSUME TypeOK, NEW s \in Sessions, Forget(s)
    PROVE  /\ hidden' = [hidden EXCEPT ![s] = TRUE] /\ note' = [note EXCEPT ![s] = 0]
           /\ note[s] > 0 /\ Owner'[s] = NoToken
<1>1. PICK row \in JobRow : SetRow(s, row) /\ row.status # "CLAIMED"
  BY ForgetRow
<1> QED BY <1>1 DEF Forget, SetRow, Owner, TypeOK

(* A result is published only under the lease of its claim.                *)
LEMMA Published ==
    ASSUME TypeOK, NEW w \in work, Complete(w) \/ CompleteWithLinks(w)
    PROVE  /\ w.session \in Sessions /\ w.token \in Tokens /\ w.version \in Versions
           /\ Owner[w.session] = w.token /\ note' = [note EXCEPT ![w.session] = w.version]
           /\ work' = work \ {w}
BY DEF TypeOK, Claims, Complete, CompleteWithLinks, VerifyClaim, Owner

-----------------------------------------------------------------------------
(* A deleted session stays deleted.                                        *)

LEMMA HiddenNext == TypeOK /\ HiddenStaysHidden /\ [Next]_vars => HiddenStaysHidden'
<1> SUFFICES ASSUME TypeOK, HiddenStaysHidden, [Next]_vars, NEW s \in Sessions, hidden'[s]
             PROVE  note'[s] = 0 /\ job'[s].status # "CLAIMED"
  BY DEF HiddenStaysHidden
<1>1. ASSUME NEW o \in Sessions, NEW p \in Providers, ClaimNext(o, p)
      PROVE  note'[s] = 0 /\ job'[s].status # "CLAIMED"
  <2>1. hidden[s] /\ note'[s] = note[s]
    BY <1>1 DEF ClaimNext
  <2>2. s # o
    BY <1>1, <2>1 DEF ClaimNext, Claimable, Undecided
  <2> QED BY <1>1, <2>1, <2>2, Granted DEF HiddenStaysHidden
<1>2. ASSUME NEW w \in work, Complete(w) \/ CompleteWithLinks(w)
      PROVE  note'[s] = 0 /\ job'[s].status # "CLAIMED"
  <2>1. hidden[s]
    BY <1>2 DEF Complete, CompleteWithLinks
  <2>2. s # w.session
    BY <1>2, <2>1 DEF Complete, CompleteWithLinks, VerifyClaim, HiddenStaysHidden
  <2>3. Keeps
    BY <1>2, WorkerKeeps DEF Worker
  <2> QED BY <1>2, <2>1, <2>2, <2>3, Published DEF HiddenStaysHidden, Keeps, TypeOK
<1>3. ASSUME NEW o \in Sessions, Forget(o)
      PROVE  note'[s] = 0 /\ job'[s].status # "CLAIMED"
  <2>1. CASE s = o
    BY <1>3, <2>1, ForgetRow, Decision DEF SetRow, TypeOK
  <2>2. CASE s # o
    <3>1. Keeps
      BY <1>3, OwnerKeeps DEF OwnerCommand
    <3> QED BY <1>3, <2>2, <3>1, Decision DEF HiddenStaysHidden, Keeps, TypeOK
  <2> QED BY <2>1, <2>2
<1>4. ASSUME NEW o \in Sessions, Allow(o)
      PROVE  note'[s] = 0 /\ job'[s].status # "CLAIMED"
  BY <1>4 DEF Allow, HiddenStaysHidden, TypeOK
<1>5. CASE UNCHANGED vars
  BY <1>5 DEF vars, HiddenStaysHidden
<1>6. ASSUME Next, ~(\E o \in Sessions, p \in Providers : ClaimNext(o, p)),
             ~(\E w \in work : Complete(w) \/ CompleteWithLinks(w)),
             ~(\E o \in Sessions : Forget(o) \/ Allow(o))
      PROVE  note'[s] = 0 /\ job'[s].status # "CLAIMED"
  <2>1. UNCHANGED <<note, hidden>>
    BY <1>6, NoteUnchanged, HiddenUnchanged
  <2>2. Keeps
    BY <1>6, AllKeep
  <2> QED BY <2>1, <2>2 DEF HiddenStaysHidden, Keeps
<1> QED BY <1>1, <1>2, <1>3, <1>4, <1>5, <1>6

(* A session whose note the owner deleted has no note and no worker, in    *)
(* every interleaving of late answers, sweeps, rebuilds and retries, with  *)
(* every unlocked window of the code open (backend/services/decisions.py). *)
THEOREM DeletedStaysDeleted == Spec => []HiddenStaysHidden
<1>1. Init => HiddenStaysHidden
  BY DEF Init, HiddenStaysHidden
<1>2. TypeOK /\ HiddenStaysHidden /\ [Next]_vars => HiddenStaysHidden'
  BY HiddenNext
<1> QED BY <1>1, <1>2, TypeCorrect, PTL DEF Spec

-----------------------------------------------------------------------------
(* The fence.                                                              *)

(* Tokens of claims at work are distinct, nothing is newer than the        *)
(* conversation, and whoever holds the lease was handed at least what the  *)
(* published note was written from.                                        *)
Fence ==
    /\ \A a, b \in work : a.token = b.token => a = b
    /\ \A s \in Sessions : note[s] <= raw[s]
    /\ \A w \in work : w.version <= raw[w.session]
    /\ \A w \in work : Owner[w.session] = w.token => note[w.session] <= w.version

LEMMA Numbers ==
    ASSUME TypeOK
    PROVE  /\ raw \in [Sessions -> Nat] /\ note \in [Sessions -> Nat] /\ forgot \in [Sessions -> Nat]
           /\ \A s \in Sessions : /\ job[s] \in JobRow /\ job[s].digest \in Nat
                                  /\ post[s] \in Posts /\ post[s].version \in Nat
           /\ \A w \in work : /\ w.session \in Sessions /\ w.version \in Nat
                              /\ w.token \in Tokens /\ w.token # NoToken
BY BoundAssumption, NameAssumption DEF TypeOK, Versions, JobRow, Posts, Claims

LEMMA FenceNext == TypeOK /\ Fence /\ [Next]_vars => Fence'
<1> SUFFICES ASSUME TypeOK, TypeOK', Fence, [Next]_vars PROVE Fence'
  BY NextType
<1>1. CASE UNCHANGED vars
  BY <1>1 DEF vars, Fence, Owner
<1>0. raw' \in [Sessions -> Nat]
  BY BoundAssumption DEF TypeOK, Versions
<1>2. ASSUME Next
      PROVE  \A s \in Sessions : raw[s] \in Nat /\ raw'[s] \in Nat /\ note[s] \in Nat /\ raw[s] <= raw'[s]
  BY <1>0, <1>2, RawGrows, Numbers
<1>3. ASSUME NEW s \in Sessions, NEW p \in Providers, ClaimNext(s, p) PROVE Fence'
  <2>1. PICK t \in Tokens \ UsedTokens :
          /\ Owner' = [Owner EXCEPT ![s] = t]
          /\ work' = work \cup {[session |-> s, token |-> t, version |-> raw[s],
                                 choices |-> Fallbacks(job[s], p)]}
    BY <1>3, Granted
  <2> DEFINE new == [session |-> s, token |-> t, version |-> raw[s], choices |-> Fallbacks(job[s], p)]
  <2>2. new.session = s /\ new.token = t /\ new.version = raw[s] /\ work' = work \cup {new}
    BY <2>1
  <2> HIDE DEF new
  <2>3. UNCHANGED <<raw, note>>
    BY <1>3 DEF ClaimNext
  <2>4. \A w \in work : w.token # t
    BY DEF UsedTokens
  <2>5. DOMAIN Owner = Sessions
    BY DEF Owner
  <2>6. \A w \in work : Owner'[w.session] = w.token => Owner[w.session] = w.token
    BY <2>1, <2>4, <2>5, Numbers
  <2> QED BY <2>2, <2>3, <2>4, <2>6, Numbers DEF Fence
<1>4. ASSUME NEW w \in work, Complete(w) \/ CompleteWithLinks(w) PROVE Fence'
  <2>1. Keeps /\ Next
    BY <1>4, WorkerKeeps DEF Worker, Next
  <2>2. \A o \in work : Owner'[o.session] = o.token => Owner[o.session] = o.token
    BY <2>1, KeepsOwner, Numbers
  <2>3. \A o \in work' : o.session = w.session => Owner[o.session] # o.token
    BY <1>4, Published DEF Fence
  <2>4. /\ note' = [note EXCEPT ![w.session] = w.version] /\ work' = work \ {w}
        /\ w.session \in Sessions /\ w.version <= raw[w.session]
    BY <1>4, Published DEF Fence
  <2>5. \A s \in Sessions : note'[s] <= raw'[s]
    BY <1>2, <2>1, <2>4, Numbers DEF Fence
  <2>6. \A o \in work' : o.version <= raw'[o.session]
    BY <1>2, <2>1, <2>4, Numbers DEF Fence
  <2>7. \A o \in work' : Owner'[o.session] = o.token => note'[o.session] <= o.version
    BY <2>2, <2>3, <2>4, Numbers DEF Fence
  <2>8. \A a, b \in work' : a.token = b.token => a = b
    BY <2>4 DEF Fence
  <2> QED BY <2>5, <2>6, <2>7, <2>8 DEF Fence
<1>5. ASSUME NEW s \in Sessions, Forget(s) PROVE Fence'
  <2>1. Keeps /\ Next /\ work' = work
    BY <1>5, OwnerKeeps DEF OwnerCommand, Next, Forget
  <2>2. \A o \in work : Owner'[o.session] = o.token => Owner[o.session] = o.token
    BY <2>1, KeepsOwner, Numbers
  <2>3. note' = [note EXCEPT ![s] = 0]
    BY <1>5, Decision
  <2> QED BY <1>2, <2>1, <2>2, <2>3, Numbers DEF Fence
<1>6. ASSUME Next, ~(\E o \in Sessions, p \in Providers : ClaimNext(o, p)),
             ~(\E w \in work : Complete(w) \/ CompleteWithLinks(w)),
             ~(\E o \in Sessions : Forget(o))
      PROVE  Fence'
  <2>1. Keeps /\ UNCHANGED note /\ work' \subseteq work
    BY <1>6, AllKeep, NoteUnchanged, WorkShrinks
  <2>2. \A o \in work : Owner'[o.session] = o.token => Owner[o.session] = o.token
    BY <2>1, KeepsOwner, Numbers
  <2> QED BY <1>2, <1>6, <2>1, <2>2, Numbers DEF Fence
<1> QED BY <1>1, <1>3, <1>4, <1>5, <1>6

LEMMA FenceInit == Init => Fence
BY BoundAssumption DEF Init, Fence

THEOREM Fenced == Spec => []Fence
<1>1. Init => Fence
  BY FenceInit
<1>2. TypeOK /\ Fence /\ [Next]_vars => Fence'
  BY FenceNext
<1> QED BY <1>1, <1>2, TypeCorrect, PTL DEF Spec

(* Whichever worker that was ever handed a session answers, and however    *)
(* late, its result never replaces a note written from more of the         *)
(* conversation: verify_claim fences it out.                               *)
THEOREM LateResultsAreFenced == Spec => NoteNeverRegresses
<1>1. ASSUME TypeOK, Fence, HiddenStaysHidden, [Next]_vars, NEW s \in Sessions, note'[s] < note[s]
      PROVE  ~hidden[s] /\ hidden'[s]
  <2>1. CASE UNCHANGED note
    BY <1>1, <2>1, Numbers
  <2>2. ASSUME NEW w \in work, Complete(w) \/ CompleteWithLinks(w) PROVE FALSE
    BY <1>1, <2>2, Published, Numbers DEF Fence
  <2>3. ASSUME NEW o \in Sessions, Forget(o) PROVE ~hidden[s] /\ hidden'[s]
    <3>1. s = o
      BY <1>1, <2>3, Decision, Numbers
    <3> QED BY <1>1, <2>3, <3>1, Decision, Numbers DEF HiddenStaysHidden, TypeOK
  <2>4. CASE UNCHANGED vars
    BY <1>1, <2>4, Numbers DEF vars
  <2> QED BY <1>1, <2>1, <2>2, <2>3, <2>4, NoteUnchanged
<1>2. TypeOK /\ Fence /\ HiddenStaysHidden /\ [Next]_vars
        => [\A s \in Sessions : note'[s] < note[s] => ~hidden[s] /\ hidden'[s]]_vars
  BY <1>1
<1> QED BY <1>2, TypeCorrect, Fenced, DeletedStaysDeleted, PTL DEF Spec, NoteNeverRegresses

-----------------------------------------------------------------------------
(* The queue implements the abstract lease.                                *)

LEMMA LeaseInit == Init => Lease!Init
BY DEF Init, NoJob, Lease!Init, Owner

LEMMA LeaseEnds ==
    ASSUME TypeOK, Keeps, UNCHANGED <<raw, note, hidden>> PROVE Lease!Next
<1> DEFINE S == {s \in Sessions : Owner'[s] = NoToken}
<1>1. Owner' = [s \in Sessions |-> IF s \in S THEN NoToken ELSE Owner[s]]
  <2>1. Owner' = [s \in Sessions |-> Owner'[s]]
    BY DEF Owner
  <2> QED BY <2>1, KeepsOwner
<1>2. Lease!Revoke(S)
  BY <1>1 DEF Lease!Revoke
<1>3. S \in SUBSET Sessions
  OBVIOUS
<1> QED BY <1>2, <1>3 DEF Lease!Next

LEMMA LeaseNext == TypeOK /\ Fence /\ [Next]_vars => [Lease!Next]_(Lease!vars)
<1> SUFFICES ASSUME TypeOK, Fence, [Next]_vars PROVE Lease!Next \/ UNCHANGED Lease!vars
  OBVIOUS
<1>1. CASE UNCHANGED vars
  BY <1>1 DEF vars, Lease!vars, Owner
<1>2. ASSUME NEW s \in Sessions, NEW p \in Providers, ClaimNext(s, p) PROVE Lease!Next
  <2>1. PICK t \in Tokens \ UsedTokens :
          Owner[s] = NoToken /\ Owner' = [Owner EXCEPT ![s] = t]
    BY <1>2, Granted
  <2>2. \A o \in Sessions : Owner[o] # t
    BY NameAssumption DEF Owner, UsedTokens
  <2>3. ~hidden[s] /\ UNCHANGED <<raw, note, hidden>>
    BY <1>2 DEF ClaimNext, Claimable, Undecided
  <2>4. Lease!Grant(s, t)
    BY <2>1, <2>2, <2>3 DEF Lease!Grant
  <2> QED BY <2>4 DEF Lease!Next
<1>3. ASSUME NEW w \in work, Complete(w) \/ CompleteWithLinks(w) PROVE Lease!Next
  <2> DEFINE s == w.session
  <2>1. /\ s \in Sessions /\ Owner[s] # NoToken
        /\ w.version \in note[s]..raw[s] /\ note' = [note EXCEPT ![s] = w.version]
    BY <1>3, Published, Numbers DEF Fence
  <2>2. UNCHANGED <<raw, hidden>>
    BY <1>3 DEF Complete, CompleteWithLinks
  <2>3. \A o \in Sessions \ {s} : Owner'[o] = Owner[o]
    <3>1. \E row : SetRow(s, row)
      BY <1>3 DEF Complete, CompleteWithLinks
    <3> QED BY <3>1 DEF SetRow, Owner, TypeOK
  <2>4. Owner'[s] \in {Owner[s], NoToken}
    BY <1>3, <2>1, WorkerKeeps, KeepsOwner DEF Worker
  <2>5. Owner' \in {Owner, [Owner EXCEPT ![s] = NoToken]}
    <3>1. Owner = [o \in Sessions |-> Owner[o]] /\ Owner' = [o \in Sessions |-> Owner'[o]]
      BY DEF Owner
    <3>2. CASE Owner'[s] = Owner[s]
      <4>1. \A o \in Sessions : Owner'[o] = Owner[o]
        BY <2>3, <3>2
      <4> QED BY <3>1, <4>1
    <3>3. CASE Owner'[s] = NoToken
      <4>1. \A o \in Sessions : Owner'[o] = IF o = s THEN NoToken ELSE Owner[o]
        BY <2>3, <3>3
      <4>2. [Owner EXCEPT ![s] = NoToken] = [o \in Sessions |-> IF o = s THEN NoToken ELSE Owner[o]]
        BY <3>1
      <4> QED BY <3>1, <4>1, <4>2
    <3> QED BY <2>4, <3>2, <3>3
  <2>6. Lease!Publish(s)
    BY <2>1, <2>2, <2>5 DEF Lease!Publish
  <2> QED BY <2>1, <2>6 DEF Lease!Next
<1>4. ASSUME NEW s \in Sessions, Forget(s) PROVE Lease!Next
  <2>1. \A o \in Sessions \ {s} : Owner'[o] = Owner[o]
    BY <1>4, ForgetRow DEF SetRow, Owner, TypeOK
  <2>2. Owner = [o \in Sessions |-> Owner[o]] /\ Owner' = [o \in Sessions |-> Owner'[o]]
    BY DEF Owner
  <2>3. Owner' = [Owner EXCEPT ![s] = NoToken]
    BY <1>4, <2>1, <2>2, Decision
  <2>4. Lease!Erase(s)
    BY <1>4, <2>3, Decision DEF Lease!Erase, Forget
  <2> QED BY <2>4 DEF Lease!Next
<1>5. ASSUME NEW s \in Sessions, Allow(s) PROVE Lease!Next
  <2>1. Lease!Allow(s)
    BY <1>5 DEF Allow, Lease!Allow, Owner
  <2> QED BY <2>1 DEF Lease!Next
<1>6. ASSUME NEW s \in Sessions, Stop(s) PROVE Lease!Next \/ UNCHANGED Lease!vars
  <2>1. UNCHANGED <<note, Owner, hidden>>
    BY <1>6 DEF Stop, Owner
  <2>2. CASE raw' = [raw EXCEPT ![s] = raw[s]]
    <3>1. raw' = raw
      BY <2>2, Numbers
    <3> QED BY <2>1, <3>1 DEF Lease!vars
  <2>3. CASE raw' = [raw EXCEPT ![s] = raw[s] + 1] /\ raw[s] + 1 \in 1..MaxVersion
    <3>1. raw[s] < MaxVersion
      BY <2>3, Numbers, BoundAssumption
    <3>2. Lease!Grow(s)
      BY <2>1, <2>3, <3>1 DEF Lease!Grow
    <3> QED BY <3>2 DEF Lease!Next
  <2> QED BY <1>6, <2>2, <2>3 DEF Stop
<1>7. ASSUME Next, ~(\E o \in Sessions, p \in Providers : ClaimNext(o, p)),
             ~(\E w \in work : Complete(w) \/ CompleteWithLinks(w)),
             ~(\E o \in Sessions : Forget(o) \/ Allow(o) \/ Stop(o))
      PROVE  Lease!Next
  <2>1. UNCHANGED <<note, hidden>> /\ Keeps
    BY <1>7, AllKeep, NoteUnchanged, HiddenUnchanged
  <2>2. UNCHANGED raw
    BY <1>7
    DEF Next, Device, LosePost, Enqueue, Time, GrowOlder, BackoffEnds, ClaimExpires,
        Worker, Heartbeat, Release, Fail, Abandon, WorkerDies, FinishWritten,
        JanitorPass, ReclaimStale, PurgeTranscripts, SettleDecided, ScanTrivial, SettleWithoutNote,
        Reopen, ListRow, SaveListed, ServerRestarts, OwnerCommand, Retry, RemoveProvider
  <2> QED BY <2>1, <2>2, LeaseEnds
<1> QED BY <1>1, <1>2, <1>3, <1>4, <1>5, <1>6, <1>7

(* The queue implements the lease: through stale tokens, half committed    *)
(* completions and stale saves a session is leased to one worker at a time *)
(* and only the lease holder publishes.                                    *)
THEOREM QueueImplementsLease == Spec => ImplementsLease
<1>1. Init => Lease!Init
  BY LeaseInit
<1>2. TypeOK /\ Fence /\ [Next]_vars => [Lease!Next]_(Lease!vars)
  BY LeaseNext
<1> QED BY <1>1, <1>2, TypeCorrect, Fenced, PTL DEF Spec, ImplementsLease, Lease!Spec

(* What the abstract lease is worth, from its six actions alone.           *)
LEMMA LeaseKept == Lease!TypeOK /\ Lease!Sound /\ [Lease!Next]_(Lease!vars) => (Lease!TypeOK /\ Lease!Sound)'
<1> SUFFICES ASSUME Lease!TypeOK, Lease!Sound, [Lease!Next]_(Lease!vars) PROVE (Lease!TypeOK /\ Lease!Sound)'
  OBVIOUS
<1> DEFINE own == Owner
<1>1. /\ raw \in [Sessions -> Nat] /\ note \in [Sessions -> Nat]
      /\ own \in [Sessions -> Tokens \cup {NoToken}] /\ hidden \in [Sessions -> BOOLEAN]
  BY DEF Lease!TypeOK
<1>2. /\ \A s \in Sessions : note[s] <= raw[s]
      /\ \A s, o \in Sessions : own[s] = own[o] /\ s # o => own[s] = NoToken
      /\ \A s \in Sessions : hidden[s] => note[s] = 0 /\ own[s] = NoToken
  BY DEF Lease!Sound
<1>3. ASSUME NEW s \in Sessions, Lease!Grow(s) PROVE (Lease!TypeOK /\ Lease!Sound)'
  BY <1>1, <1>2, <1>3 DEF Lease!Grow, Lease!TypeOK, Lease!Sound
<1>4. ASSUME NEW s \in Sessions, NEW t \in Tokens, Lease!Grant(s, t) PROVE (Lease!TypeOK /\ Lease!Sound)'
  BY <1>1, <1>2, <1>4 DEF Lease!Grant, Lease!TypeOK, Lease!Sound
<1>5. ASSUME NEW s \in Sessions, Lease!Publish(s) PROVE (Lease!TypeOK /\ Lease!Sound)'
  BY <1>1, <1>2, <1>5 DEF Lease!Publish, Lease!TypeOK, Lease!Sound
<1>6. ASSUME NEW S \in SUBSET Sessions, Lease!Revoke(S) PROVE (Lease!TypeOK /\ Lease!Sound)'
  BY <1>1, <1>2, <1>6 DEF Lease!Revoke, Lease!TypeOK, Lease!Sound
<1>7. ASSUME NEW s \in Sessions, Lease!Erase(s) PROVE (Lease!TypeOK /\ Lease!Sound)'
  BY <1>1, <1>2, <1>7 DEF Lease!Erase, Lease!TypeOK, Lease!Sound
<1>8. ASSUME NEW s \in Sessions, Lease!Allow(s) PROVE (Lease!TypeOK /\ Lease!Sound)'
  BY <1>1, <1>2, <1>8 DEF Lease!Allow, Lease!TypeOK, Lease!Sound
<1>9. CASE UNCHANGED Lease!vars
  BY <1>1, <1>2, <1>9 DEF Lease!vars, Lease!TypeOK, Lease!Sound
<1> QED BY <1>3, <1>4, <1>5, <1>6, <1>7, <1>8, <1>9 DEF Lease!Next

LEMMA LeaseIsSound == Lease!Spec => []Lease!Sound
<1>1. Lease!Init => Lease!TypeOK /\ Lease!Sound
  BY DEF Lease!Init, Lease!TypeOK, Lease!Sound
<1> QED BY <1>1, LeaseKept, PTL DEF Lease!Spec

(* Whatever may be relied on because the queue is a lease: under the       *)
(* retries, sweeps and half committed completions of the real one no       *)
(* note tells more than was said, no claim_token leases two sessions       *)
(* (claim_next), and a session the owner deleted has neither a note nor a  *)
(* lease.                                                                  *)
THEOREM LeasesAreSound == Spec => []Lease!Sound
BY QueueImplementsLease, LeaseIsSound, PTL DEF ImplementsLease

-----------------------------------------------------------------------------
(* No activity is lost, where no unlocked window is open.                  *)

NoWindow == finishing = {} /\ listed = {}

(* Nothing is enqueued that the transcript does not hold.                  *)
Known == \A s \in Sessions : job[s].digest <= raw[s] /\ post[s].version <= raw[s]

(* What the lease holder was handed covers the conversation, or the row    *)
(* remembers that it went on; a post that saw a claim go by carries no     *)
(* more than that claim was handed.                                        *)
AnswerCovers ==
    \A w \in work : Owner[w.session] = w.token =>
        /\ job[w.session].fresh \/ job[w.session].digest <= w.version
        /\ post[w.session].crossed => post[w.session].version <= w.version

(* A refinement that fails settles the job again, and so does a decision.  *)
Settled ==
    \A s \in Sessions :
        /\ job[s].status = "DONE" \/ job[s].refined => Accounted(s)
        /\ hidden[s] => job[s].digest <= forgot[s]
        /\ seen[s] = "same" => job[s].digest <= Trivial /\ job[s].status # "ABSENT"

Memory == NoWindow /\ Known /\ AnswerCovers /\ Settled

(* What most steps do to what a row remembers: nothing.                    *)
Recalls(old, new) ==
    /\ new.digest = old.digest
    /\ new.status = "DONE" \/ new.refined => old.status = "DONE" \/ old.refined
    /\ old.status # "ABSENT" => new.status # "ABSENT"
    /\ old.status = "CLAIMED" /\ new.status = "CLAIMED" => new.fresh = old.fresh

RowsRecall == \A s \in Sessions : Recalls(job[s], job'[s])

LEMMA SetRowRecalls ==
    ASSUME TypeOK, NEW s \in Sessions, NEW row, SetRow(s, row), Recalls(job[s], row)
    PROVE  RowsRecall
<1>1. \A o \in Sessions : job'[o] = IF o = s THEN row ELSE job[o]
  BY DEF SetRow, TypeOK
<1> QED BY <1>1 DEF RowsRecall, Recalls

LEMMA SameRowsRecall == ASSUME UNCHANGED job PROVE RowsRecall
BY DEF RowsRecall, Recalls

LEMMA UnclaimedRecalls ==
    ASSUME NEW row \in JobRow, NEW status \in Statuses, status \notin {"ABSENT", "CLAIMED"},
           status = "DONE" => row.refined
    PROVE  Recalls(row, Unclaimed(row, status))
BY DEF Recalls, Unclaimed, JobRow

LEMMA TimeRecalls == ASSUME TypeOK, NEW s \in Sessions, Time(s) PROVE RowsRecall
<1>1. job[s] \in JobRow
  BY DEF TypeOK
<1>2. /\ Recalls(job[s], [job[s] EXCEPT !.age = @ + 1])
      /\ Recalls(job[s], [job[s] EXCEPT !.due = TRUE])
      /\ Recalls(job[s], [job[s] EXCEPT !.expired = TRUE])
  BY <1>1 DEF JobRow, Recalls
<1> QED BY <1>2, SetRowRecalls DEF Time, GrowOlder, BackoffEnds, ClaimExpires

LEMMA WorkerRecalls ==
    ASSUME TypeOK, NEW w \in work, Heartbeat(w) \/ Release(w) \/ Fail(w) \/ Abandon(w) \/ WorkerDies(w)
    PROVE  RowsRecall
<1>0. w.session \in Sessions /\ job[w.session] \in JobRow
  BY DEF TypeOK, Claims
<1>1. CASE Heartbeat(w)
  <2>1. Recalls(job[w.session], [job[w.session] EXCEPT !.expired = FALSE])
    BY <1>0 DEF JobRow, Recalls
  <2> QED BY <1>0, <1>1, <2>1, SetRowRecalls DEF Heartbeat
<1>2. CASE Release(w)
  <2> DEFINE row == Unclaimed(job[w.session], "PENDING")
  <2>1. row \in JobRow /\ Recalls(job[w.session], row)
    BY <1>0, UnclaimedType, UnclaimedRecalls, Members
  <2>2. PICK later \in BOOLEAN : SetRow(w.session, [row EXCEPT !.due = ~later])
    BY <1>2 DEF Release
  <2> HIDE DEF row
  <2>3. Recalls(job[w.session], [row EXCEPT !.due = ~later])
    BY <2>1 DEF JobRow, Recalls
  <2> QED BY <1>0, <2>2, <2>3, SetRowRecalls
<1>3. CASE Fail(w)
  <2>1. Recalls(job[w.session], Failed(job[w.session]))
    BY <1>0 DEF Failed, Unclaimed, JobRow, Recalls
  <2> QED BY <1>0, <1>3, <2>1, SetRowRecalls DEF Fail
<1>4. CASE Abandon(w) \/ WorkerDies(w)
  BY <1>4, SameRowsRecall DEF Abandon, WorkerDies
<1> QED BY <1>1, <1>2, <1>3, <1>4

LEMMA ReopenRecalls ==
    ASSUME TypeOK, NEW s \in Sessions, NEW kind \in Kinds, Reopen(s, kind) PROVE RowsRecall
<1>1. job[s] \in JobRow /\ (kind = "refine" => job[s].status = "DONE")
  BY DEF TypeOK, Reopen, Selected
<1>2. Recalls(job[s], Reopened(job[s], kind))
  BY <1>1 DEF Reopened, Unclaimed, JobRow, Recalls, Kinds
<1> QED BY <1>2, SetRowRecalls DEF Reopen

LEMMA PassRecalls == ASSUME TypeOK, ReclaimStale \/ PurgeTranscripts PROVE RowsRecall
<1>0. \A s \in Sessions : job[s] \in JobRow
  BY DEF TypeOK
<1>1. CASE ReclaimStale
  <2>1. \A s \in Sessions : Recalls(job[s], Unclaimed(job[s], "PENDING")) /\ Recalls(job[s], job[s])
    BY <1>0, UnclaimedRecalls, Members DEF Recalls
  <2>2. \A s \in Sessions : job'[s] = Unclaimed(job[s], "PENDING") \/ job'[s] = job[s]
    BY <1>1 DEF ReclaimStale
  <2> QED BY <2>1, <2>2 DEF RowsRecall
<1>2. CASE PurgeTranscripts
  <2>1. \A s \in Sessions : Recalls(job[s], [job[s] EXCEPT !.text = FALSE]) /\ Recalls(job[s], job[s])
    BY <1>0 DEF JobRow, Recalls
  <2>2. \A s \in Sessions : job'[s] = [job[s] EXCEPT !.text = FALSE] \/ job'[s] = job[s]
    BY <1>2 DEF PurgeTranscripts
  <2> QED BY <2>1, <2>2 DEF RowsRecall
<1> QED BY <1>1, <1>2

LEMMA CommandRecalls ==
    ASSUME TypeOK, OwnerCommand, ~(\E s \in Sessions : Forget(s)) PROVE RowsRecall
<1>1. ASSUME NEW s \in Sessions, Retry(s) PROVE RowsRecall
  <2>1. job[s] \in JobRow
    BY DEF TypeOK
  <2>2. Recalls(job[s], [Unclaimed(job[s], "PENDING") EXCEPT !.attempts = 0, !.due = TRUE])
    BY <2>1 DEF Unclaimed, JobRow, Recalls
  <2> QED BY <1>1, <2>2, SetRowRecalls DEF Retry
<1> QED BY <1>1, SameRowsRecall DEF OwnerCommand, Allow, RemoveProvider

(* Steps that leave what the rows remember keep the memory.                *)
LEMMA MemoryKept ==
    ASSUME TypeOK, TypeOK', Memory, NoWindow', RowsRecall, Keeps, work' \subseteq work,
           UNCHANGED <<note, forgot>>,
           \A s \in Sessions :
               /\ raw[s] <= raw'[s] /\ post'[s].version <= raw'[s]
               /\ post'[s].crossed => post[s].crossed /\ post'[s].version = post[s].version
               /\ hidden'[s] => hidden[s]
               /\ seen'[s] = "same" => seen[s] = "same"
    PROVE  Memory'
<1>0. raw' \in [Sessions -> Nat]
  BY BoundAssumption DEF TypeOK, Versions
<1>1. Known'
  BY <1>0, Numbers DEF Memory, Known, RowsRecall, Recalls
<1>2. AnswerCovers'
  <2> SUFFICES ASSUME NEW w \in work', Owner'[w.session] = w.token
               PROVE  /\ job'[w.session].fresh \/ job'[w.session].digest <= w.version
                      /\ post'[w.session].crossed => post'[w.session].version <= w.version
    BY DEF AnswerCovers
  <2>1. w \in work /\ w.session \in Sessions /\ w.token # NoToken /\ Owner[w.session] = w.token
    BY Numbers, KeepsOwner
  <2>2. job[w.session].status = "CLAIMED" /\ job'[w.session].status = "CLAIMED"
    BY <2>1 DEF Owner
  <2> QED BY <2>1, <2>2 DEF Memory, AnswerCovers, RowsRecall, Recalls
<1>3. Settled'
  <2>1. \A s \in Sessions : Accounted(s) => Accounted(s)'
    BY DEF Accounted, RowsRecall, Recalls
  <2> QED BY <2>1 DEF Memory, Settled, RowsRecall, Recalls
<1> QED BY <1>1, <1>2, <1>3 DEF Memory

LEMMA NoWindowNext ==
    ASSUME Gaps = {}, NoWindow, Next PROVE NoWindow'
BY DEF NoWindow, Next, Device, Stop, LosePost, Enqueue, Time, GrowOlder, BackoffEnds, ClaimExpires,
       ClaimNext, Worker, Heartbeat, Release, Fail, Complete, CompleteWithLinks, Abandon, WorkerDies,
       JanitorPass, ReclaimStale, PurgeTranscripts, SettleDecided, ScanTrivial, SettleWithoutNote,
       Reopen, ListRow, ServerRestarts, OwnerCommand, Retry, Forget, Allow, RemoveProvider

LEMMA MemoryEnqueue ==
    ASSUME TypeOK, TypeOK', Memory, NEW s \in Sessions, Enqueue(s) PROVE Memory'
<1> DEFINE v == post[s].version
<1>0. /\ v \in Versions /\ v \in Nat /\ v <= raw[s] /\ post[s].crossed \in BOOLEAN
      /\ job[s] \in JobRow
      /\ post' = [post EXCEPT ![s] = NoPost] /\ NoPost.version = 0 /\ NoPost.crossed = FALSE
      /\ UNCHANGED <<raw, hidden, note, forgot, work, finishing, listed>>
  BY Numbers DEF Enqueue, Memory, Known, Posts, NoPost
<1>1. \A o \in Sessions : post'[o].version <= raw'[o] /\ raw'[o] = raw[o]
                          /\ (post'[o].crossed => post[o].crossed /\ post'[o].version = post[o].version)
  BY <1>0, Numbers DEF Memory, Known, TypeOK
<1>2. CASE UNCHANGED <<job, seen>>
  <2>1. \A o \in Sessions : raw[o] <= raw'[o]
    BY <1>1, Numbers
  <2> QED BY <1>0, <1>1, <1>2, <2>1, MemoryKept, SameRowsRecall, SameRowsKeep DEF Memory, NoWindow
<1>3. ASSUME NEW row, SetRow(s, row), ~hidden[s], seen'[s] # "same",
             \A o \in Sessions \ {s} : seen'[o] = seen[o],
             row.digest = v, row.refined = FALSE, row.status # "DONE",
             row.status = "CLAIMED" =>
                job[s].status = "CLAIMED" /\ row.token = job[s].token /\ (row.fresh \/ post[s].crossed)
      PROVE  Memory'
  <2>1. job' = [job EXCEPT ![s] = row] /\ job \in [Sessions -> JobRow]
    BY <1>3 DEF SetRow, TypeOK
  <2>2. Known'
    BY <1>0, <1>1, <1>3, <2>1 DEF Memory, Known
  <2>3. AnswerCovers'
    <3> SUFFICES ASSUME NEW w \in work, Owner'[w.session] = w.token
                 PROVE  /\ job'[w.session].fresh \/ job'[w.session].digest <= w.version
                        /\ post'[w.session].crossed => post'[w.session].version <= w.version
      BY <1>0 DEF AnswerCovers
    <3>1. w.session \in Sessions /\ w.token # NoToken
      BY Numbers
    <3>2. CASE w.session = s
      <4>1. row.status = "CLAIMED" /\ Owner[s] = w.token
        BY <1>3, <2>1, <3>1, <3>2 DEF Owner
      <4> QED BY <1>0, <1>3, <2>1, <3>2, <4>1 DEF Memory, AnswerCovers, TypeOK
    <3>3. CASE w.session # s
      BY <1>0, <2>1, <3>1, <3>3 DEF Memory, AnswerCovers, Owner, TypeOK
    <3> QED BY <3>2, <3>3
  <2>4. Settled'
    <3>1. ASSUME NEW o \in Sessions, o # s
          PROVE  job'[o] = job[o] /\ (Accounted(o) => Accounted(o)')
      BY <1>0, <2>1, <3>1 DEF Accounted
    <3> QED BY <1>0, <1>3, <2>1, <3>1 DEF Memory, Settled
  <2> QED BY <1>0, <2>2, <2>3, <2>4 DEF Memory, NoWindow
<1>4. CASE ~hidden[s] /\ job[s].status = "ABSENT" /\ SetRow(s, NewJob(v)) /\ UNCHANGED seen
  <2>1. NewJob(v).digest = v /\ NewJob(v).refined = FALSE /\ NewJob(v).status = "PENDING"
    BY DEF NewJob, NoJob
  <2>2. seen'[s] # "same"
    BY <1>4 DEF Memory, Settled
  <2> QED BY <1>3, <1>4, <2>1, <2>2
<1>5. ASSUME ~hidden[s], NEW early \in {FALSE, post[s].crossed},
             SetRow(s, Continued(job[s], v, early)),
             seen' = [seen EXCEPT ![s] = IF @ = "same" THEN "moved" ELSE @]
      PROVE  Memory'
  <2>1. /\ Continued(job[s], v, early).digest = v
        /\ Continued(job[s], v, early).refined = FALSE
        /\ Continued(job[s], v, early).status # "DONE"
        /\ Continued(job[s], v, early).status = "CLAIMED" => job[s].status = "CLAIMED"
        /\ Continued(job[s], v, early).token = job[s].token
        /\ job[s].status = "CLAIMED" => Continued(job[s], v, early).fresh = ~early
    BY <1>0 DEF Continued, JobRow
  <2>2. seen'[s] # "same" /\ \A o \in Sessions \ {s} : seen'[o] = seen[o]
    BY <1>5 DEF TypeOK
  <2>3. early \in BOOLEAN /\ (early => post[s].crossed)
    BY <1>0
  <2> QED BY <1>3, <1>5, <2>1, <2>2, <2>3
<1> QED BY <1>2, <1>4, <1>5 DEF Enqueue

LEMMA MemoryClaim ==
    ASSUME TypeOK, TypeOK', Memory, NEW s \in Sessions, NEW p \in Providers, ClaimNext(s, p)
    PROVE  Memory'
<1>1. PICK t \in Tokens \ UsedTokens :
        /\ job'[s] = [job[s] EXCEPT !.status = "CLAIMED", !.token = t, !.fresh = FALSE, !.expired = FALSE]
        /\ \A o \in Sessions \ {s} : job'[o] = job[o]
        /\ Owner' = [Owner EXCEPT ![s] = t]
        /\ work' = work \cup {[session |-> s, token |-> t, version |-> raw[s],
                               choices |-> Fallbacks(job[s], p)]}
  BY Granted
<1> DEFINE new == [session |-> s, token |-> t, version |-> raw[s], choices |-> Fallbacks(job[s], p)]
<1>2. new.session = s /\ new.token = t /\ new.version = raw[s] /\ work' = work \cup {new}
  BY <1>1
<1> HIDE DEF new
<1>3. /\ UNCHANGED <<raw, hidden, note, forgot, finishing, listed, seen>> /\ job[s].status = "PENDING"
      /\ post' = [post EXCEPT ![s].crossed = post[s] # NoPost]
  BY DEF ClaimNext, Claimable
<1>4. \A o \in Sessions : /\ post'[o].version = post[o].version
                          /\ o # s => post'[o] = post[o]
  BY <1>3 DEF TypeOK, Posts
<1>5. /\ job'[s].digest = job[s].digest /\ job'[s].refined = job[s].refined /\ job'[s].status = "CLAIMED"
  BY <1>1 DEF TypeOK, JobRow
<1>6. DOMAIN Owner = Sessions /\ \A w \in work : w.token # t
  BY DEF Owner, UsedTokens
<1>7. Known'
  BY <1>1, <1>3, <1>4, <1>5 DEF Memory, Known
<1>8. AnswerCovers'
  <2> SUFFICES ASSUME NEW w \in work', Owner'[w.session] = w.token
               PROVE  /\ job'[w.session].fresh \/ job'[w.session].digest <= w.version
                      /\ post'[w.session].crossed => post'[w.session].version <= w.version
    BY DEF AnswerCovers
  <2>1. CASE w = new
    BY <1>2, <1>4, <1>5, <2>1 DEF Memory, Known
  <2>2. CASE w # new
    <3>1. w \in work /\ w.session \in Sessions /\ w.token # t
      BY <1>2, <1>6, <2>2, Numbers
    <3>2. w.session # s
      BY <1>1, <1>6, <3>1
    <3> QED BY <1>1, <1>4, <1>6, <3>1, <3>2 DEF Memory, AnswerCovers
  <2> QED BY <2>1, <2>2
<1>9. Settled'
  <2>1. \A o \in Sessions : Accounted(o) => Accounted(o)'
    BY <1>1, <1>3, <1>5 DEF Accounted
  <2> QED BY <1>1, <1>3, <1>5, <2>1 DEF Memory, Settled
<1> QED BY <1>3, <1>7, <1>8, <1>9 DEF Memory, NoWindow

LEMMA MemoryComplete ==
    ASSUME TypeOK, TypeOK', Memory, Fence, NEW w \in work, Complete(w) PROVE Memory'
<1> DEFINE s   == w.session
           row == [job[s] EXCEPT !.path = TRUE]
<1>0. /\ s \in Sessions /\ w.token # NoToken /\ Owner[s] = w.token /\ job[s].status = "CLAIMED"
      /\ note' = [note EXCEPT ![s] = w.version] /\ note[s] <= w.version
      /\ work' = work \ {w} /\ w.version \in Nat /\ w.choices \subseteq Providers
      /\ UNCHANGED <<raw, post, hidden, forgot, finishing, listed, seen>>
  BY Published, Numbers DEF Fence, Complete, VerifyClaim, TypeOK, Claims
<1>1. PICK q \in Providers : SetRow(s, Written(row, q))
  BY <1>0 DEF Complete
<1>10. job[s] \in JobRow
  BY <1>0 DEF TypeOK
<1>2. /\ row \in JobRow /\ row.fresh = job[s].fresh /\ row.digest = job[s].digest
      /\ row.refined = job[s].refined
  BY <1>10 DEF JobRow
<1> HIDE DEF row
<1>3. /\ Written(row, q).status = IF row.fresh THEN "PENDING" ELSE "DONE"
      /\ Written(row, q).digest = row.digest /\ Written(row, q).refined = row.refined
  BY <1>2 DEF Written, Unclaimed, JobRow
<1>4. /\ job'[s].digest = job[s].digest /\ job'[s].refined = job[s].refined
      /\ job'[s].status \in {"PENDING", "DONE"}
      /\ job'[s].status = "DONE" => ~job[s].fresh
      /\ \A o \in Sessions \ {s} : job'[o] = job[o]
  BY <1>0, <1>1, <1>2, <1>3 DEF SetRow, TypeOK
<1>5. Known'
  BY <1>0, <1>4 DEF Memory, Known
<1>6. AnswerCovers'
  <2> SUFFICES ASSUME NEW o \in work', Owner'[o.session] = o.token
               PROVE  /\ job'[o.session].fresh \/ job'[o.session].digest <= o.version
                      /\ post'[o.session].crossed => post'[o.session].version <= o.version
    BY DEF AnswerCovers
  <2>1. o \in work /\ o.session \in Sessions /\ o.token # NoToken
    BY <1>0, Numbers
  <2>2. o.session # s
    BY <1>0, <1>4, <2>1 DEF Owner
  <2> QED BY <1>0, <1>4, <2>1, <2>2 DEF Memory, AnswerCovers, Owner
<1>7. Settled'
  <2>1. \A o \in Sessions : Accounted(o) => Accounted(o)'
    BY <1>0, <1>4, Numbers DEF Accounted
  <2>2. job'[s].status = "DONE" => Accounted(s)'
    BY <1>0, <1>4, Numbers DEF Memory, AnswerCovers, Accounted
  <2> QED BY <1>0, <1>4, <2>1, <2>2 DEF Memory, Settled
<1> QED BY <1>0, <1>5, <1>6, <1>7 DEF Memory, NoWindow

(* A step that settles rows, each of them accounted for.                   *)
LEMMA MemorySettles ==
    ASSUME TypeOK, TypeOK', Memory, Keeps, UNCHANGED <<raw, post, work, finishing, listed>>,
           \A s \in Sessions :
               /\ job'[s].digest = job[s].digest /\ (job'[s].refined => job[s].refined)
               /\ job'[s] = job[s] \/ job'[s].status # "CLAIMED"
               /\ job'[s].status = "ABSENT" => job[s].status = "ABSENT"
               /\ job'[s] = job[s] \/ job'[s].status # "DONE" \/ Accounted(s)'
               /\ Accounted(s) => Accounted(s)'
               /\ hidden'[s] => job[s].digest <= forgot'[s]
               /\ seen'[s] = "same" => job[s].digest <= Trivial /\ job[s].status # "ABSENT"
    PROVE  Memory'
<1>1. Known'
  BY DEF Memory, Known
<1>2. AnswerCovers'
  <2> SUFFICES ASSUME NEW w \in work, Owner'[w.session] = w.token
               PROVE  /\ job'[w.session].fresh \/ job'[w.session].digest <= w.version
                      /\ post'[w.session].crossed => post'[w.session].version <= w.version
    BY DEF AnswerCovers
  <2>1. w.session \in Sessions /\ w.token # NoToken
    BY Numbers
  <2>2. job'[w.session] = job[w.session] /\ Owner[w.session] = w.token
    BY <2>1 DEF Owner
  <2> QED BY <2>1, <2>2 DEF Memory, AnswerCovers
<1>3. Settled'
  BY DEF Memory, Settled
<1> QED BY <1>1, <1>2, <1>3 DEF Memory, NoWindow

LEMMA MemorySettleDecided == ASSUME TypeOK, TypeOK', Memory, SettleDecided PROVE Memory'
<1>0. \A s \in Sessions : job[s] \in JobRow
  BY DEF TypeOK
<1>1. \A s \in Sessions :
        LET row == [Unclaimed(job[s], "DONE") EXCEPT !.completed = TRUE, !.text = FALSE] IN
        row.status = "DONE" /\ row.digest = job[s].digest /\ row.refined = job[s].refined
  BY <1>0 DEF Unclaimed, JobRow
<1>2. \A s \in Sessions :
        \/ job'[s] = job[s]
        \/ /\ job'[s].status = "DONE" /\ job'[s].digest = job[s].digest
           /\ job'[s].refined = job[s].refined /\ hidden[s]
  BY <1>1 DEF SettleDecided, Decided, Undecided
<1>3. UNCHANGED <<raw, post, work, finishing, listed, hidden, note, forgot, seen>>
  BY DEF SettleDecided
<1>4. \A s \in Sessions : /\ Accounted(s) => Accounted(s)'
                          /\ hidden[s] => Accounted(s)'
  BY <1>2, <1>3 DEF Accounted, Memory, Settled
<1>5. Keeps
  BY JanitorKeeps DEF JanitorPass
<1> QED BY <1>2, <1>3, <1>4, <1>5, MemorySettles DEF Memory, Settled

LEMMA MemoryTrivial ==
    ASSUME TypeOK, TypeOK', Memory, NEW s \in Sessions, SettleWithoutNote(s) PROVE Memory'
<1>0. job[s] \in JobRow
  BY DEF TypeOK
<1> DEFINE row == [job[s] EXCEPT !.status = "DONE", !.completed = TRUE, !.text = FALSE, !.by = Janitor]
<1>1. row.status = "DONE" /\ row.digest = job[s].digest /\ row.refined = job[s].refined
  BY <1>0 DEF JobRow
<1>2. /\ UNCHANGED <<raw, post, work, finishing, listed, hidden, note, forgot>>
      /\ seen' = [seen EXCEPT ![s] = "no"]
      /\ UNCHANGED job \/ (seen[s] = "same" /\ SetRow(s, row))
  BY DEF SettleWithoutNote, StillAsSeen
<1> HIDE DEF row
<1>3. \A o \in Sessions :
        \/ job'[o] = job[o]
        \/ /\ job'[o].status = "DONE" /\ job'[o].digest = job[o].digest
           /\ job'[o].refined = job[o].refined /\ seen[o] = "same"
  BY <1>1, <1>2 DEF SetRow, TypeOK
<1>4. \A o \in Sessions : /\ Accounted(o) => Accounted(o)'
                          /\ seen[o] = "same" => Accounted(o)'
                          /\ seen'[o] = "same" => seen[o] = "same"
  BY <1>2, <1>3 DEF Accounted, Memory, Settled, TypeOK
<1>5. Keeps
  BY JanitorKeeps DEF JanitorPass
<1> QED BY <1>2, <1>3, <1>4, <1>5, MemorySettles DEF Memory, Settled

LEMMA MemoryScan ==
    ASSUME TypeOK, TypeOK', Memory, NEW s \in Sessions, ScanTrivial(s) PROVE Memory'
<1>1. /\ UNCHANGED <<raw, post, job, work, finishing, listed, hidden, note, forgot>>
      /\ seen' = [seen EXCEPT ![s] = "same"]
      /\ job[s].status = "PENDING" /\ raw[s] <= Trivial
  BY BoundAssumption DEF ScanTrivial
<1>2. job[s].digest <= Trivial
  BY <1>1, Numbers, BoundAssumption DEF Memory, Known
<1>3. Keeps /\ \A o \in Sessions : Accounted(o) => Accounted(o)'
  BY <1>1, SameRowsKeep DEF Accounted
<1> QED BY <1>1, <1>2, <1>3, MemorySettles DEF Memory, Settled, TypeOK

LEMMA MemoryForget ==
    ASSUME TypeOK, TypeOK', Memory, NEW s \in Sessions, Forget(s) PROVE Memory'
<1>1. PICK row \in JobRow :
        /\ SetRow(s, row) /\ row.status # "CLAIMED"
        /\ row.digest = job[s].digest /\ row.refined = job[s].refined
        /\ row.status = "ABSENT" => job[s].status = "ABSENT"
  BY ForgetRow
<1>2. /\ UNCHANGED <<raw, post, work, finishing, listed, seen>>
      /\ hidden' = [hidden EXCEPT ![s] = TRUE] /\ forgot' = [forgot EXCEPT ![s] = job[s].digest]
      /\ note' = [note EXCEPT ![s] = 0]
  BY DEF Forget
<1>3. \A o \in Sessions : job'[o] = IF o = s THEN row ELSE job[o]
  BY <1>1 DEF SetRow, TypeOK
<1>4. Accounted(s)'
  BY <1>1, <1>2, <1>3, Numbers DEF Accounted, TypeOK
<1>5. \A o \in Sessions \ {s} : Accounted(o) => Accounted(o)'
  BY <1>2, <1>3 DEF Accounted, TypeOK
<1>6. Keeps
  BY OwnerKeeps DEF OwnerCommand
<1>7. \A o \in Sessions : hidden'[o] => job[o].digest <= forgot'[o]
  BY <1>2, Numbers DEF Memory, Settled, TypeOK
<1>8. \A o \in Sessions :
        /\ job'[o].digest = job[o].digest /\ (job'[o].refined => job[o].refined)
        /\ job'[o] = job[o] \/ job'[o].status # "CLAIMED"
        /\ job'[o].status = "ABSENT" => job[o].status = "ABSENT"
        /\ job'[o] = job[o] \/ Accounted(o)'
        /\ Accounted(o) => Accounted(o)'
        /\ seen'[o] = "same" => job[o].digest <= Trivial /\ job[o].status # "ABSENT"
  BY <1>1, <1>2, <1>3, <1>4, <1>5 DEF Memory, Settled
<1> QED BY <1>2, <1>6, <1>7, <1>8, MemorySettles

LEMMA MemoryQuiet ==
    ASSUME TypeOK, TypeOK', Memory, NoWindow', RowsRecall, Keeps, work' \subseteq work,
           UNCHANGED <<raw, post, note, forgot>>,
           \A s \in Sessions : (hidden'[s] => hidden[s]) /\ (seen'[s] = "same" => seen[s] = "same")
    PROVE  Memory'
<1>1. \A s \in Sessions : raw[s] <= raw'[s] /\ post'[s].version <= raw'[s]
  BY Numbers DEF Memory, Known
<1> QED BY <1>1, MemoryKept

LEMMA MemoryDevice ==
    ASSUME TypeOK, TypeOK', Memory, NoWindow', NEW s \in Sessions, Stop(s) \/ LosePost(s) PROVE Memory'
<1>1. /\ UNCHANGED <<job, hidden, note, forgot, work, seen>>
      /\ \A o \in Sessions \ {s} : raw'[o] = raw[o] /\ post'[o] = post[o]
  BY DEF Stop, LosePost, TypeOK
<1>2. raw[s] <= raw'[s] /\ post'[s].version <= raw'[s] /\ post'[s].crossed = FALSE
  <2>1. CASE Stop(s)
    BY <2>1, Numbers DEF Stop, TypeOK
  <2>2. CASE LosePost(s)
    BY <2>2, Numbers DEF LosePost, NoPost, TypeOK
  <2> QED BY <2>1, <2>2
<1>3. \A o \in Sessions : raw[o] <= raw'[o] /\ post'[o].version <= raw'[o]
                          /\ (post'[o].crossed => post[o].crossed /\ post'[o].version = post[o].version)
  BY <1>1, <1>2, Numbers DEF Memory, Known
<1> QED BY <1>1, <1>3, MemoryKept, SameRowsRecall, SameRowsKeep

LEMMA MemoryNext == TypeOK /\ Fence /\ Gaps = {} /\ Memory /\ [Next]_vars => Memory'
<1> SUFFICES ASSUME TypeOK, TypeOK', Fence, Gaps = {}, Memory, [Next]_vars PROVE Memory'
  BY NextType
<1>0. NoWindow'
  BY NoWindowNext DEF Memory, NoWindow, vars
<1>1. CASE UNCHANGED vars
  BY <1>1 DEF vars, Memory, NoWindow, Known, AnswerCovers, Settled, Accounted, Owner
<1>2. ASSUME NEW s \in Sessions, Device(s) PROVE Memory'
  BY <1>0, <1>2, MemoryDevice, MemoryEnqueue DEF Device
<1>3. ASSUME NEW s \in Sessions, Time(s) PROVE Memory'
  <2>1. UNCHANGED <<raw, post, hidden, note, forgot, work, seen>>
    BY <1>3 DEF Time, GrowOlder, BackoffEnds, ClaimExpires
  <2> QED BY <1>0, <1>3, <2>1, TimeRecalls, TimeKeeps, MemoryQuiet
<1>4. ASSUME NEW s \in Sessions, NEW p \in Providers, ClaimNext(s, p) PROVE Memory'
  BY <1>4, MemoryClaim
<1>5. ASSUME NEW w \in work, Worker(w) PROVE Memory'
  <2>1. CASE Complete(w)
    BY <2>1, MemoryComplete
  <2>2. CASE Heartbeat(w) \/ Release(w) \/ Fail(w) \/ Abandon(w) \/ WorkerDies(w)
    <3>1. UNCHANGED <<raw, post, hidden, note, forgot, seen>> /\ work' \subseteq work
      BY <2>2 DEF Heartbeat, Release, Fail, Abandon, WorkerDies
    <3> QED BY <1>0, <1>5, <2>2, <3>1, WorkerRecalls, WorkerKeeps, MemoryQuiet
  <2>3. ~CompleteWithLinks(w)
    BY DEF CompleteWithLinks
  <2> QED BY <1>5, <2>1, <2>2, <2>3 DEF Worker
<1>6. CASE JanitorPass
  <2>1. CASE ReclaimStale \/ PurgeTranscripts
    <3>1. UNCHANGED <<raw, post, hidden, note, forgot, work, seen>>
      BY <2>1 DEF ReclaimStale, PurgeTranscripts
    <3> QED BY <1>0, <1>6, <2>1, <3>1, PassRecalls, JanitorKeeps, MemoryQuiet
  <2>2. CASE SettleDecided
    BY <2>2, MemorySettleDecided
  <2>3. ASSUME NEW s \in Sessions, ScanTrivial(s) \/ SettleWithoutNote(s) PROVE Memory'
    BY <2>3, MemoryScan, MemoryTrivial
  <2>4. ASSUME NEW s \in Sessions, NEW kind \in Kinds, Reopen(s, kind) PROVE Memory'
    <3>1. /\ UNCHANGED <<raw, post, hidden, note, forgot, work>>
          /\ \A o \in Sessions : seen'[o] = "same" => seen[o] = "same"
      BY <2>4 DEF Reopen, TypeOK
    <3> QED BY <1>0, <1>6, <2>4, <3>1, ReopenRecalls, JanitorKeeps, MemoryQuiet
  <2>5. ASSUME NEW s \in Sessions, NEW kind \in Kinds, ListRow(s, kind) PROVE FALSE
    BY <2>5 DEF ListRow
  <2>6. listed = {}
    BY DEF Memory, NoWindow
  <2> QED BY <1>6, <2>1, <2>2, <2>3, <2>4, <2>5, <2>6 DEF JanitorPass
<1>7. CASE ServerRestarts
  <2>1. /\ UNCHANGED <<raw, job, hidden, note, forgot, work>>
        /\ \A s \in Sessions : /\ seen'[s] = "no" /\ post'[s].crossed = FALSE
                               /\ raw[s] <= raw'[s] /\ post'[s].version <= raw'[s]
    BY <1>7, Numbers DEF ServerRestarts, NoPost
  <2> QED BY <1>0, <2>1, SameRowsRecall, SameRowsKeep, MemoryKept
<1>8. CASE OwnerCommand
  <2>1. ASSUME NEW s \in Sessions, Forget(s) PROVE Memory'
    BY <2>1, MemoryForget
  <2>2. ASSUME ~(\E s \in Sessions : Forget(s)) PROVE Memory'
    <3>1. /\ UNCHANGED <<raw, post, note, forgot, work, seen>>
          /\ \A s \in Sessions : hidden'[s] => hidden[s]
      BY <1>8, <2>2 DEF OwnerCommand, Retry, Allow, RemoveProvider, TypeOK
    <3> QED BY <1>0, <1>8, <2>2, <3>1, CommandRecalls, OwnerKeeps, MemoryQuiet
  <2> QED BY <2>1, <2>2
<1>9. finishing = {}
  BY DEF Memory, NoWindow
<1> QED BY <1>1, <1>2, <1>3, <1>4, <1>5, <1>6, <1>7, <1>8, <1>9 DEF Next

LEMMA MemoryInit == Init => Memory
BY BoundAssumption DEF Init, Memory, NoWindow, Known, AnswerCovers, Settled, NoJob, NoPost, Accounted

(* Where no unlocked window of the code is open, no interleaving of posts, *)
(* claims, late answers, crashes, sweeps, decisions and restarts settles a *)
(* session whose last activity nothing accounts for: what is lost (see the *)
(* run JobQueueLost) is lost through the windows alone.                    *)
THEOREM NothingIsLost == Gaps = {} => (Spec => []NoLostActivity)
<1> SUFFICES ASSUME Gaps = {} PROVE Spec => []NoLostActivity
  OBVIOUS
<1>1. Init => Memory
  BY MemoryInit
<1>2. TypeOK /\ Fence /\ Memory /\ [Next]_vars => Memory'
  BY MemoryNext
<1>3. Memory => NoLostActivity
  BY DEF Memory, Settled, NoLostActivity
<1> QED BY <1>1, <1>2, <1>3, TypeCorrect, Fenced, PTL DEF Spec

-----------------------------------------------------------------------------
(* Refinements.                                                            *)

(* Whoever holds a claim to refine a summary was offered to better         *)
(* providers only, and what a sweep read and will save was at rest.        *)
OffersBetter ==
    \A w \in work :
        VerifyClaim(w) /\ job[w.session].refined =>
            /\ job[w.session].by \in Providers
            /\ \A q \in w.choices : Rank[q] < Rank[job[w.session].by]

ReadAtRest == \A l \in listed : l.row.status \notin {"PENDING", "CLAIMED"}

NoneUnborn == \A s \in Sessions : job[s].status = "ABSENT" => ~job[s].refined

Refinements == finishing = {} /\ NoneUnborn /\ ReadAtRest /\ OffersBetter

(* What most steps do to who summarized: nothing; and no claim becomes a   *)
(* refinement, nor a row that does not exist.                              *)
Credits(old, new) ==
    /\ new.by = old.by
    /\ new.status \in {"ABSENT", "CLAIMED"} /\ new.refined => old.refined
    /\ new.status = "ABSENT" => old.status = "ABSENT"

RowsCredit == \A s \in Sessions : Credits(job[s], job'[s])

LEMMA SetRowCredits ==
    ASSUME TypeOK, NEW s \in Sessions, NEW row, SetRow(s, row), Credits(job[s], row)
    PROVE  RowsCredit
<1>1. \A o \in Sessions : job'[o] = IF o = s THEN row ELSE job[o]
  BY DEF SetRow, TypeOK
<1> QED BY <1>1 DEF RowsCredit, Credits

LEMMA SameRowsCredit == ASSUME UNCHANGED job PROVE RowsCredit
BY DEF RowsCredit, Credits

LEMMA UnclaimedCredits ==
    ASSUME NEW row \in JobRow, NEW status \in Statuses
    PROVE  /\ Unclaimed(row, status).by = row.by /\ Unclaimed(row, status).refined = row.refined
           /\ Unclaimed(row, status).status = status
BY DEF Unclaimed, JobRow

LEMMA DeviceCredits == ASSUME TypeOK, NEW s \in Sessions, Device(s) PROVE RowsCredit \/ job[s].status = "ABSENT"
<1>0. job[s] \in JobRow /\ post[s] \in Posts /\ post[s].crossed \in BOOLEAN
  BY DEF TypeOK, Posts
<1>1. ASSUME NEW early \in BOOLEAN, SetRow(s, Continued(job[s], post[s].version, early)) PROVE RowsCredit
  <2>1. Credits(job[s], Continued(job[s], post[s].version, early))
    BY <1>0 DEF Continued, JobRow, Credits
  <2> QED BY <1>1, <2>1, SetRowCredits
<1> QED BY <1>0, <1>1, SameRowsCredit DEF Device, Stop, LosePost, Enqueue

LEMMA TimeCredits == ASSUME TypeOK, NEW s \in Sessions, Time(s) PROVE RowsCredit
<1>1. job[s] \in JobRow
  BY DEF TypeOK
<1>2. /\ Credits(job[s], [job[s] EXCEPT !.age = @ + 1])
      /\ Credits(job[s], [job[s] EXCEPT !.due = TRUE])
      /\ Credits(job[s], [job[s] EXCEPT !.expired = TRUE])
  BY <1>1 DEF JobRow, Credits
<1> QED BY <1>2, SetRowCredits DEF Time, GrowOlder, BackoffEnds, ClaimExpires

LEMMA WorkerCredits ==
    ASSUME TypeOK, NEW w \in work, Heartbeat(w) \/ Release(w) \/ Fail(w) \/ Abandon(w) \/ WorkerDies(w)
    PROVE  RowsCredit
<1>0. w.session \in Sessions /\ job[w.session] \in JobRow
  BY DEF TypeOK, Claims
<1>1. CASE Heartbeat(w)
  <2>1. Credits(job[w.session], [job[w.session] EXCEPT !.expired = FALSE])
    BY <1>0 DEF JobRow, Credits
  <2> QED BY <1>0, <1>1, <2>1, SetRowCredits DEF Heartbeat
<1>2. CASE Release(w)
  <2> DEFINE row == Unclaimed(job[w.session], "PENDING")
  <2>1. /\ row \in JobRow /\ row.by = job[w.session].by /\ row.refined = job[w.session].refined
        /\ row.status = "PENDING"
    BY <1>0, UnclaimedType, UnclaimedCredits, Members
  <2>2. PICK later \in BOOLEAN : SetRow(w.session, [row EXCEPT !.due = ~later])
    BY <1>2 DEF Release
  <2> HIDE DEF row
  <2>3. Credits(job[w.session], [row EXCEPT !.due = ~later])
    BY <2>1 DEF JobRow, Credits
  <2> QED BY <1>0, <2>2, <2>3, SetRowCredits
<1>3. CASE Fail(w)
  <2>1. Credits(job[w.session], Failed(job[w.session]))
    BY <1>0 DEF Failed, Unclaimed, JobRow, Credits
  <2> QED BY <1>0, <1>3, <2>1, SetRowCredits DEF Fail
<1>4. CASE Abandon(w) \/ WorkerDies(w)
  BY <1>4, SameRowsCredit DEF Abandon, WorkerDies
<1> QED BY <1>1, <1>2, <1>3, <1>4

(* A row that was read at rest is saved as one that waits.                 *)
LEMMA SavedCredits ==
    ASSUME NEW now \in JobRow, NEW loaded \in JobRow, NEW kind \in Kinds,
           loaded.status \notin {"PENDING", "CLAIMED"}
    PROVE  Credits(now, Flush(now, loaded, Reopened(loaded, kind)))
<1>1. /\ Reopened(loaded, kind).status = "PENDING" /\ Reopened(loaded, kind).by = loaded.by
  BY DEF Reopened, Unclaimed, JobRow, Kinds
<1> QED BY <1>1 DEF Flush, Column, Credits

LEMMA JanitorCredits ==
    ASSUME TypeOK, ReadAtRest, JanitorPass, ~(\E s \in Sessions : SettleWithoutNote(s)) PROVE RowsCredit
<1>0. \A s \in Sessions : job[s] \in JobRow
  BY DEF TypeOK
<1>1. CASE ReclaimStale
  <2>1. \A s \in Sessions : Credits(job[s], Unclaimed(job[s], "PENDING")) /\ Credits(job[s], job[s])
    BY <1>0, UnclaimedCredits, Members DEF Credits
  <2>2. \A s \in Sessions : job'[s] = Unclaimed(job[s], "PENDING") \/ job'[s] = job[s]
    BY <1>1 DEF ReclaimStale
  <2> QED BY <2>1, <2>2 DEF RowsCredit
<1>2. CASE PurgeTranscripts
  <2>1. \A s \in Sessions : Credits(job[s], [job[s] EXCEPT !.text = FALSE]) /\ Credits(job[s], job[s])
    BY <1>0 DEF JobRow, Credits
  <2>2. \A s \in Sessions : job'[s] = [job[s] EXCEPT !.text = FALSE] \/ job'[s] = job[s]
    BY <1>2 DEF PurgeTranscripts
  <2> QED BY <2>1, <2>2 DEF RowsCredit
<1>3. CASE SettleDecided
  <2>1. \A s \in Sessions :
          /\ Credits(job[s], [Unclaimed(job[s], "DONE") EXCEPT !.completed = TRUE, !.text = FALSE])
          /\ Credits(job[s], job[s])
    BY <1>0 DEF Unclaimed, JobRow, Credits
  <2>2. \A s \in Sessions : \/ job'[s] = [Unclaimed(job[s], "DONE") EXCEPT !.completed = TRUE, !.text = FALSE]
                            \/ job'[s] = job[s]
    BY <1>3 DEF SettleDecided
  <2> QED BY <2>1, <2>2 DEF RowsCredit
<1>4. ASSUME NEW s \in Sessions, NEW kind \in Kinds, Reopen(s, kind) PROVE RowsCredit
  <2>1. Credits(job[s], Reopened(job[s], kind))
    BY <1>0 DEF Reopened, Unclaimed, JobRow, Credits, Kinds, Selected
  <2> QED BY <1>4, <2>1, SetRowCredits DEF Reopen
<1>5. ASSUME NEW l \in listed, SaveListed(l) PROVE RowsCredit
  <2>1. l.session \in Sessions /\ l.kind \in Kinds /\ l.row \in JobRow /\ l.row.status \notin {"PENDING", "CLAIMED"}
    BY DEF TypeOK, ReadAtRest
  <2>2. \/ UNCHANGED job
        \/ SetRow(l.session, Flush(job[l.session], l.row, Reopened(l.row, l.kind)))
    BY <1>5 DEF SaveListed
  <2> QED BY <1>0, <2>1, <2>2, SavedCredits, SetRowCredits, SameRowsCredit
<1>6. ASSUME NEW s \in Sessions, ScanTrivial(s) \/ \E kind \in Kinds : ListRow(s, kind) PROVE RowsCredit
  BY <1>6, SameRowsCredit DEF ScanTrivial, ListRow
<1> QED BY <1>1, <1>2, <1>3, <1>4, <1>5, <1>6 DEF JanitorPass

LEMMA ForgetCredits == ASSUME TypeOK, NEW s \in Sessions, Forget(s) PROVE RowsCredit
<1> DEFINE row == [job[s] EXCEPT !.path = FALSE, !.text = FALSE]
           done == Unclaimed(row, "DONE")
<1>1. job[s] \in JobRow
  BY DEF TypeOK
<1>2. row \in JobRow /\ row.by = job[s].by /\ row.refined = job[s].refined /\ row.status = job[s].status
  BY <1>1 DEF JobRow
<1>3. SetRow(s, IF row.status \in {"PENDING", "CLAIMED"} THEN [done EXCEPT !.completed = TRUE] ELSE row)
  BY DEF Forget
<1> HIDE DEF row
<1>4. done \in JobRow /\ done.by = row.by /\ done.refined = row.refined /\ done.status = "DONE"
  BY <1>2, UnclaimedType, UnclaimedCredits, Members
<1> HIDE DEF done
<1>5. Credits(job[s], row) /\ Credits(job[s], [done EXCEPT !.completed = TRUE])
  BY <1>2, <1>4 DEF JobRow, Credits
<1> QED BY <1>3, <1>5, SetRowCredits

LEMMA OwnerCredits == ASSUME TypeOK, OwnerCommand PROVE RowsCredit
<1>1. ASSUME NEW s \in Sessions, Retry(s) PROVE RowsCredit
  <2>1. job[s] \in JobRow
    BY DEF TypeOK
  <2>2. Credits(job[s], [Unclaimed(job[s], "PENDING") EXCEPT !.attempts = 0, !.due = TRUE])
    BY <2>1 DEF Unclaimed, JobRow, Credits
  <2> QED BY <1>1, <2>2, SetRowCredits DEF Retry
<1> QED BY <1>1, ForgetCredits, SameRowsCredit DEF OwnerCommand, Allow, RemoveProvider

(* An offer stays one for better providers as long as nobody else is       *)
(* offered the job.                                                        *)
LEMMA OffersStay ==
    ASSUME TypeOK, OffersBetter, Keeps, work' \subseteq work,
           \A s \in Sessions : job'[s].status = "CLAIMED" => Credits(job[s], job'[s])
    PROVE  OffersBetter'
<1> SUFFICES ASSUME NEW w \in work', VerifyClaim(w)', job'[w.session].refined
             PROVE  /\ job'[w.session].by \in Providers
                    /\ \A q \in w.choices : Rank[q] < Rank[job'[w.session].by]
  BY DEF OffersBetter
<1>1. w \in work /\ w.session \in Sessions /\ w.token # NoToken
  BY Numbers
<1>2. job'[w.session].status = "CLAIMED" /\ job'[w.session].token = w.token
  BY DEF VerifyClaim
<1>3. VerifyClaim(w) /\ job[w.session].refined /\ job'[w.session].by = job[w.session].by
  BY <1>1, <1>2 DEF Keeps, VerifyClaim, Credits
<1> QED BY <1>1, <1>3 DEF OffersBetter

(* claim_next offers a refinement to the provider that asks, which is      *)
(* better, and to those it may fall back on, which are better too.         *)
LEMMA ClaimOffers ==
    ASSUME TypeOK, OffersBetter, NEW s \in Sessions, NEW p \in Providers, ClaimNext(s, p)
    PROVE  OffersBetter'
<1>1. PICK t \in Tokens \ UsedTokens :
        /\ job'[s] = [job[s] EXCEPT !.status = "CLAIMED", !.token = t, !.fresh = FALSE, !.expired = FALSE]
        /\ \A o \in Sessions \ {s} : job'[o] = job[o]
        /\ work' = work \cup {[session |-> s, token |-> t, version |-> raw[s], choices |-> Fallbacks(job[s], p)]}
  BY Granted
<1>2. job'[s].token = t /\ job'[s].refined = job[s].refined /\ job'[s].by = job[s].by
  BY <1>1 DEF TypeOK, JobRow
<1>3. job[s].refined => /\ job[s].by \in Providers
                        /\ \A q \in Fallbacks(job[s], p) : Rank[q] < Rank[job[s].by]
  <2> SUFFICES ASSUME job[s].refined
               PROVE  job[s].by \in Providers /\ \A q \in Fallbacks(job[s], p) : Rank[q] < Rank[job[s].by]
    OBVIOUS
  <2>1. job[s].by \in active /\ Rank[job[s].by] > Rank[p]
    BY DEF ClaimNext, Claimable, Worse
  <2>2. job[s].by \in Providers /\ Rank[p] < Rank[job[s].by]
    BY <2>1, RankAssumption DEF TypeOK
  <2> QED BY <2>2 DEF Fallbacks
<1>4. ASSUME NEW w \in work', VerifyClaim(w)', job'[w.session].refined
      PROVE  /\ job'[w.session].by \in Providers
             /\ \A q \in w.choices : Rank[q] < Rank[job'[w.session].by]
  <2>1. CASE w \in work
    <3>1. w.session \in Sessions /\ w.token # t
      BY <2>1, Numbers DEF UsedTokens
    <3>2. w.session # s
      BY <1>2, <1>4, <3>1 DEF VerifyClaim
    <3> QED BY <1>1, <1>4, <2>1, <3>1, <3>2 DEF OffersBetter, VerifyClaim
  <2>2. CASE w \notin work
    <3>1. w.session = s /\ w.choices = Fallbacks(job[s], p)
      BY <1>1, <2>2
    <3> QED BY <1>2, <1>3, <1>4, <3>1
  <2> QED BY <2>1, <2>2
<1> QED BY <1>4 DEF OffersBetter

(* The rows whose summarizer a step may change: the one of a claim that is *)
(* answered, and one that is settled without a note.                       *)
LEMMA Summarized ==
    ASSUME TypeOK, NEW w \in work, Complete(w)
    PROVE  \E q \in w.choices :
             /\ job'[w.session].by = q /\ job'[w.session].status \notin {"ABSENT", "CLAIMED"}
             /\ \A o \in Sessions \ {w.session} : job'[o] = job[o]
<1>1. w.session \in Sessions /\ w.choices \subseteq Providers /\ job[w.session] \in JobRow
  BY DEF TypeOK, Claims
<1> DEFINE row == [job[w.session] EXCEPT !.path = TRUE]
<1>2. row \in JobRow
  BY <1>1 DEF JobRow
<1>3. PICK q \in w.choices : SetRow(w.session, Written(row, q))
  BY DEF Complete
<1> HIDE DEF row
<1>4. Written(row, q).by = q /\ Written(row, q).status \notin {"ABSENT", "CLAIMED"}
  BY <1>2 DEF Written, Unclaimed, JobRow
<1>5. \A o \in Sessions : job'[o] = IF o = w.session THEN Written(row, q) ELSE job[o]
  BY <1>3 DEF SetRow, TypeOK
<1> QED BY <1>1, <1>4, <1>5

LEMMA SettledSilently ==
    ASSUME TypeOK, NEW s \in Sessions, SettleWithoutNote(s)
    PROVE  /\ \A o \in Sessions \ {s} : job'[o] = job[o]
           /\ job'[s] = job[s] \/ (~job[s].path /\ job'[s].status = "DONE")
<1> DEFINE row == [job[s] EXCEPT !.status = "DONE", !.completed = TRUE, !.text = FALSE, !.by = Janitor]
<1>1. row.status = "DONE"
  BY DEF TypeOK, JobRow
<1>2. UNCHANGED job \/ (~job[s].path /\ SetRow(s, row))
  BY DEF SettleWithoutNote, StillAsSeen
<1> HIDE DEF row
<1> QED BY <1>1, <1>2 DEF SetRow, TypeOK

LEMMA RefinementsNext ==
    TypeOK /\ Refinements /\ "absorb" \notin Gaps /\ [Next]_vars => Refinements'
<1> SUFFICES ASSUME TypeOK, Refinements, "absorb" \notin Gaps, [Next]_vars PROVE Refinements'
  OBVIOUS
<1>1. finishing = {} /\ NoneUnborn /\ ReadAtRest /\ OffersBetter
  BY DEF Refinements
<1>2. CASE UNCHANGED vars
  BY <1>1, <1>2 DEF vars, Refinements, NoneUnborn, ReadAtRest, OffersBetter, VerifyClaim
<1>3. ASSUME Next PROVE finishing' = {} /\ ReadAtRest'
  <2>1. ASSUME NEW s \in Sessions, NEW kind \in Kinds, ListRow(s, kind) PROVE finishing' = {} /\ ReadAtRest'
    <3>1. job[s] \in JobRow /\ job[s].status \notin {"PENDING", "CLAIMED"}
      BY <2>1 DEF TypeOK, ListRow, Selected, Kinds
    <3>2. Loaded(job[s]).status = job[s].status
      BY <3>1 DEF Loaded, JobRow
    <3>3. UNCHANGED finishing /\ listed' = listed \cup {[session |-> s, kind |-> kind, row |-> Loaded(job[s])]}
      BY <2>1 DEF ListRow
    <3> QED BY <1>1, <3>1, <3>2, <3>3 DEF ReadAtRest
  <2>2. ASSUME ~(\E s \in Sessions, kind \in Kinds : ListRow(s, kind)) PROVE finishing' = {} /\ listed' \subseteq listed
    BY <1>1, <1>3, <2>2
    DEF Next, Device, Stop, LosePost, Enqueue, Time, GrowOlder, BackoffEnds, ClaimExpires, ClaimNext,
        Worker, Heartbeat, Release, Fail, Complete, CompleteWithLinks, Abandon, WorkerDies,
        JanitorPass, ReclaimStale, PurgeTranscripts, SettleDecided, ScanTrivial, SettleWithoutNote,
        Reopen, SaveListed, ServerRestarts, OwnerCommand, Retry, Forget, Allow, RemoveProvider
  <2> QED BY <1>1, <2>1, <2>2 DEF ReadAtRest
<1>4. ASSUME NEW s \in Sessions, NEW p \in Providers, ClaimNext(s, p) PROVE OffersBetter' /\ NoneUnborn'
  <2>1. PICK t \in Tokens \ UsedTokens :
          /\ job'[s] = [job[s] EXCEPT !.status = "CLAIMED", !.token = t, !.fresh = FALSE, !.expired = FALSE]
          /\ \A o \in Sessions \ {s} : job'[o] = job[o]
    BY <1>4, Granted
  <2>2. job'[s].status = "CLAIMED"
    BY <2>1 DEF TypeOK, JobRow
  <2>3. NoneUnborn'
    BY <1>1, <2>1, <2>2 DEF NoneUnborn
  <2> QED BY <1>1, <1>4, <2>3, ClaimOffers
<1>5. ASSUME Next, ~(\E s \in Sessions, p \in Providers : ClaimNext(s, p)) PROVE OffersBetter' /\ NoneUnborn'
  <2>1. Keeps /\ work' \subseteq work
    BY <1>5, AllKeep, WorkShrinks
  <2>2. ASSUME RowsCredit PROVE OffersBetter' /\ NoneUnborn'
    <3>1. NoneUnborn'
      BY <1>1, <2>2 DEF NoneUnborn, RowsCredit, Credits
    <3> QED BY <1>1, <2>1, <2>2, <3>1, OffersStay DEF RowsCredit
  <2>8. ASSUME \A o \in Sessions : job'[o] = job[o] \/ job'[o].status \notin {"ABSENT", "CLAIMED"}
        PROVE  OffersBetter' /\ NoneUnborn'
    <3>1. NoneUnborn'
      BY <1>1, <2>8 DEF NoneUnborn
    <3> QED BY <1>1, <2>1, <2>8, <3>1, OffersStay DEF Credits
  <2>3. ASSUME NEW s \in Sessions, Device(s) PROVE OffersBetter' /\ NoneUnborn'
    <3>1. CASE job[s].status = "ABSENT"
      <4>1. post[s] \in Posts
        BY DEF TypeOK
      <4>2. \A o \in Sessions : job'[o] = job[o] \/ job'[o].status \notin {"ABSENT", "CLAIMED"}
        <5>1. UNCHANGED job \/ SetRow(s, NewJob(post[s].version))
          BY <2>3, <3>1 DEF Device, Stop, LosePost, Enqueue
        <5>2. NewJob(post[s].version).status = "PENDING"
          BY DEF NewJob, NoJob
        <5> QED BY <5>1, <5>2 DEF SetRow, TypeOK
      <4> QED BY <2>8, <4>2
    <3> QED BY <2>2, <2>3, <3>1, DeviceCredits
  <2>4. ASSUME NEW w \in work, Complete(w) PROVE OffersBetter' /\ NoneUnborn'
    BY <2>4, <2>8, Summarized
  <2>5. ASSUME NEW s \in Sessions, SettleWithoutNote(s) PROVE OffersBetter' /\ NoneUnborn'
    BY <2>5, <2>8, SettledSilently
  <2>6. CASE ServerRestarts
    BY <2>2, <2>6, SameRowsCredit DEF ServerRestarts
  <2>7. \A w \in work : ~CompleteWithLinks(w)
    BY DEF CompleteWithLinks
  <2> QED
    BY <1>1, <1>5, <2>2, <2>3, <2>4, <2>5, <2>6, <2>7, TimeCredits, WorkerCredits, JanitorCredits, OwnerCredits
    DEF Next, Worker
<1> QED BY <1>1, <1>2, <1>3, <1>4, <1>5 DEF Refinements

(* Which steps change the summarizer of a refined job that has a note.     *)
LEMMA Weakens ==
    ASSUME TypeOK, Refinements, "absorb" \notin Gaps, Next, NEW s \in Sessions,
           job[s].refined, job[s].path, job'[s].by # job[s].by
    PROVE  job'[s].by \in Providers /\ Rank[job'[s].by] < Rank[job[s].by]
<1>1. finishing = {} /\ NoneUnborn /\ ReadAtRest /\ OffersBetter
  BY DEF Refinements
<1>2. ~RowsCredit
  BY DEF RowsCredit, Credits
<1>3. ASSUME NEW w \in work, Complete(w)
      PROVE  job'[s].by \in Providers /\ Rank[job'[s].by] < Rank[job[s].by]
  <2>1. PICK q \in w.choices : /\ job'[w.session].by = q
                               /\ \A o \in Sessions \ {w.session} : job'[o] = job[o]
    BY <1>3, Summarized
  <2>2. s = w.session /\ w.choices \subseteq Providers
    BY <2>1 DEF TypeOK, Claims
  <2>3. VerifyClaim(w)
    BY <1>3 DEF Complete
  <2> QED BY <1>1, <2>1, <2>2, <2>3 DEF OffersBetter
<1>4. ASSUME NEW o \in Sessions, SettleWithoutNote(o) PROVE FALSE
  <2>1. o = s
    BY <1>4, SettledSilently
  <2> QED BY <1>4, <2>1, SettledSilently
<1>5. ASSUME NEW o \in Sessions, Device(o) PROVE FALSE
  <2>1. job[o].status = "ABSENT"
    BY <1>2, <1>5, DeviceCredits
  <2>2. o # s
    BY <1>1, <2>1 DEF NoneUnborn
  <2>3. UNCHANGED job \/ SetRow(o, NewJob(post[o].version))
    BY <1>5, <2>1 DEF Device, Stop, LosePost, Enqueue
  <2> QED BY <2>2, <2>3 DEF SetRow, TypeOK
<1>6. ASSUME NEW o \in Sessions, NEW p \in Providers, ClaimNext(o, p) PROVE FALSE
  <2>1. PICK t \in Tokens \ UsedTokens :
          /\ job'[o] = [job[o] EXCEPT !.status = "CLAIMED", !.token = t, !.fresh = FALSE, !.expired = FALSE]
          /\ \A x \in Sessions \ {o} : job'[x] = job[x]
    BY <1>6, Granted
  <2>2. job'[o].by = job[o].by
    BY <2>1 DEF TypeOK, JobRow
  <2> QED BY <2>1, <2>2
<1>7. ~ServerRestarts
  BY <1>2, SameRowsCredit DEF ServerRestarts
<1>8. \A w \in work : ~CompleteWithLinks(w)
  BY DEF CompleteWithLinks
<1> QED
  BY <1>1, <1>2, <1>3, <1>4, <1>5, <1>6, <1>7, <1>8, TimeCredits, WorkerCredits, JanitorCredits, OwnerCredits
  DEF Next, Worker

LEMMA RefinementsInit == Init => Refinements
BY DEF Init, Refinements, NoneUnborn, ReadAtRest, OffersBetter, NoJob

(* Where a result is absorbed in one transaction, whatever a sweep that    *)
(* read before saves, and whatever the owner, the janitor and the workers  *)
(* do meanwhile, the note of a job reopened for refinement is only         *)
(* replaced by one of a better provider (claim_next, fallback_order).      *)
THEOREM RefinementsImprove == "absorb" \notin Gaps => (Spec => RefineNeverWeakens)
<1> SUFFICES ASSUME "absorb" \notin Gaps PROVE Spec => RefineNeverWeakens
  OBVIOUS
<1>1. TypeOK /\ Refinements /\ [Next]_vars => Refinements'
  BY RefinementsNext
<1>2. TypeOK /\ Refinements /\ [Next]_vars =>
        [\A s \in Sessions :
            job[s].refined /\ job[s].path /\ job'[s].by # job[s].by
                => job'[s].by \in Providers /\ Rank[job'[s].by] < Rank[job[s].by]]_vars
  BY Weakens
<1> QED BY <1>1, <1>2, RefinementsInit, TypeCorrect, PTL DEF Spec, RefineNeverWeakens
=============================================================================
