------------------------------ MODULE ApiKeys ------------------------------
(***************************************************************************)
(* API keys (AuthService.authenticate_api_key and delete_api_key).  A key   *)
(* that is used has its last_used_at saved after the row was read, and a    *)
(* key is deleted by a request that read it before; the rows are not        *)
(* locked, and what keeps a deleted key deleted is that the ORM writes only *)
(* the columns a request changed.                                          *)
(***************************************************************************)
EXTENDS Integers

CONSTANTS
    Keys,
    KeyCalls,       \* bound: requests at once
    TouchInterval,  \* API_KEY_TOUCH_INTERVAL
    KeyMaxTime      \* bound: the clock

ASSUME ApiKeysAssumption == TouchInterval \in Nat \ {0} /\ KeyMaxTime \in Nat

VARIABLES
    keyClock,
    key,            \* rows of table api_key: from when they are deleted, when they were last used
    call            \* the requests

keyVars == <<keyClock, key, call>>

\* No key expires later than the clock goes on: After is "not", NeverUsed "never".
After     == KeyMaxTime + 1
NeverUsed == -1

FreeCall == [stage |-> "none", of |-> "none", deleted |-> After, now |-> 0]

KeyInit ==
    /\ keyClock = 0
    /\ key  = [k \in Keys |-> [made |-> FALSE, deleted |-> After, used |-> NeverUsed]]
    /\ call = [c \in KeyCalls |-> FreeCall]

Deleted(k) == key[k].deleted <= keyClock

CreateKey(k) ==
    /\ ~key[k].made
    /\ \E expires \in (keyClock + 1)..After : key' = [key EXCEPT ![k] = [@ EXCEPT !.made = TRUE, !.deleted = expires]]
    /\ UNCHANGED <<keyClock, call>>

Valid(k) == key[k].made /\ ~Deleted(k)

\* Up to the decision to save when it was used.
UseKey(c, k) ==
    /\ call[c] = FreeCall /\ Valid(k)
    /\ key[k].used = NeverUsed \/ keyClock - key[k].used >= TouchInterval
    /\ call' = [call EXCEPT ![c] = [stage |-> "touching", of |-> k, deleted |-> key[k].deleted, now |-> keyClock]]
    /\ UNCHANGED <<keyClock, key>>

\* Mutant: the whole row is written back.
TouchedWhole(row, c) == [row EXCEPT !.used = call[c].now, !.deleted = call[c].deleted]

Touched(row, c) == [row EXCEPT !.used = call[c].now]

TouchKey(c) ==
    /\ call[c].stage = "touching"
    /\ key'  = [key EXCEPT ![call[c].of] = Touched(@, c)]
    /\ call' = [call EXCEPT ![c] = FreeCall]
    /\ UNCHANGED keyClock

\* soft_delete finds a key that is not deleted yet.
FindKey(c, k) ==
    /\ call[c] = FreeCall /\ Valid(k)
    /\ call' = [call EXCEPT ![c] = [stage |-> "deleting", of |-> k, deleted |-> key[k].deleted, now |-> keyClock]]
    /\ UNCHANGED <<keyClock, key>>

DeleteKey(c) ==
    /\ call[c].stage = "deleting"
    /\ key'  = [key EXCEPT ![call[c].of].deleted = keyClock]
    /\ call' = [call EXCEPT ![c] = FreeCall]
    /\ UNCHANGED keyClock

KeyTick == keyClock < KeyMaxTime /\ keyClock' = keyClock + 1 /\ UNCHANGED <<key, call>>

KeyNext ==
    \/ \E k \in Keys : CreateKey(k) \/ \E c \in KeyCalls : UseKey(c, k) \/ FindKey(c, k)
    \/ \E c \in KeyCalls : TouchKey(c) \/ DeleteKey(c)
    \/ KeyTick

KeySpec == KeyInit /\ [][KeyNext]_keyVars

-----------------------------------------------------------------------------
\* A key that was deleted, or has expired, is never usable again, whatever
\* requests that saw it before still save (authenticate_api_key, soft_delete).
RevokedForGood == [][\A k \in Keys : key[k].made /\ Deleted(k) => key'[k].deleted <= keyClock']_keyVars
=============================================================================
