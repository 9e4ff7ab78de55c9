---------------------------- MODULE SummaryLease ----------------------------
(***************************************************************************)
(* What the job queue promises of every session, without rows, tokens that *)
(* went stale, retries or sweeps: a session is leased to one worker at a   *)
(* time, only the lease holder replaces the note, never by an older one,   *)
(* and a session the owner deleted is neither leased nor published.        *)
(***************************************************************************)
EXTENDS Integers

CONSTANTS Sessions, Tokens, NoToken, MaxVersion

VARIABLES
    raw,      \* version of the conversation
    note,     \* version the published note was written from, 0 without one
    owner,    \* token of the lease, or NoToken
    hidden    \* sessions whose note the owner deleted

vars == <<raw, note, owner, hidden>>

Init ==
    /\ raw    = [s \in Sessions |-> 0]
    /\ note   = [s \in Sessions |-> 0]
    /\ owner  = [s \in Sessions |-> NoToken]
    /\ hidden = [s \in Sessions |-> FALSE]

Grow(s) ==
    /\ raw[s] < MaxVersion
    /\ raw' = [raw EXCEPT ![s] = @ + 1]
    /\ UNCHANGED <<note, owner, hidden>>

Grant(s, t) ==
    /\ owner[s] = NoToken /\ ~hidden[s]
    /\ \A o \in Sessions : owner[o] # t
    /\ owner' = [owner EXCEPT ![s] = t]
    /\ UNCHANGED <<raw, note, hidden>>

(* The note and the end of the lease need not be one step.                 *)
Publish(s) ==
    /\ owner[s] # NoToken
    /\ \E v \in note[s]..raw[s] : note' = [note EXCEPT ![s] = v]
    /\ owner' \in {owner, [owner EXCEPT ![s] = NoToken]}
    /\ UNCHANGED <<raw, hidden>>

(* Handed back, failed, or taken from holders that went silent.            *)
Revoke(S) ==
    /\ owner' = [s \in Sessions |-> IF s \in S THEN NoToken ELSE owner[s]]
    /\ UNCHANGED <<raw, note, hidden>>

Erase(s) ==
    /\ note'   = [note EXCEPT ![s] = 0]
    /\ owner'  = [owner EXCEPT ![s] = NoToken]
    /\ hidden' = [hidden EXCEPT ![s] = TRUE]
    /\ UNCHANGED raw

Allow(s) ==
    /\ hidden' = [hidden EXCEPT ![s] = FALSE]
    /\ UNCHANGED <<raw, note, owner>>

Next ==
    \/ \E s \in Sessions : Grow(s) \/ Publish(s) \/ Erase(s) \/ Allow(s)
    \/ \E s \in Sessions, t \in Tokens : Grant(s, t)
    \/ \E S \in SUBSET Sessions : Revoke(S)

Spec == Init /\ [][Next]_vars

TypeOK ==
    /\ raw \in [Sessions -> Nat] /\ note \in [Sessions -> Nat]
    /\ owner \in [Sessions -> Tokens \cup {NoToken}]
    /\ hidden \in [Sessions -> BOOLEAN]

(* What follows from it for a client: no note tells more than was said, no *)
(* two sessions are leased under one token, and a session the owner        *)
(* deleted has neither a note nor a lease.                                 *)
Sound ==
    /\ \A s \in Sessions : note[s] <= raw[s]
    /\ \A s, o \in Sessions : owner[s] = owner[o] /\ s # o => owner[s] = NoToken
    /\ \A s \in Sessions : hidden[s] => note[s] = 0 /\ owner[s] = NoToken
=============================================================================
