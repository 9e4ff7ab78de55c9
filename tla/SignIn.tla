------------------------------- MODULE SignIn -------------------------------
(***************************************************************************)
(* Signing in and staying signed in (backend/services/auth.py, UserService, *)
(* utils/jwtlib.py).  A session is nothing but the tokens the browser       *)
(* holds: the server keeps the failed attempts and when each password last  *)
(* changed.  A login counts, looks up, and then writes, with other requests *)
(* in between; a refresh checks its token and then issues another.  Times   *)
(* are in the seconds the tokens are stamped with.                          *)
(***************************************************************************)
EXTENDS Integers, FiniteSets

CONSTANTS
    UserNames,
    Browsers,
    Keeping,        \* those that keep what they are given: a script may not
    IpOf,           \* the address a browser comes from
    Window,         \* login_failure_window_minutes
    MaxPerName,     \* login_max_failures_per_username
    MaxPerIp,       \* login_max_failures_per_ip
    RefreshTtl,     \* session_ttl_hours
    AccessTtl,      \* ACCESS_TOKEN_TTL
    MaxTime,        \* bound: the clock
    MaxAttempts,    \* bound: failed attempts
    MaxPasswords,   \* bound: passwords a user has had
    NoToken

ASSUME BrowsersAssumption == IsFiniteSet(Browsers) /\ Keeping \subseteq Browsers
ASSUME LimitsAssumption == MaxPerName \in Nat \ {0} /\ MaxPerIp \in Nat \ {0} /\ Window \in Nat
ASSUME TtlAssumption    == RefreshTtl \in Nat \ {0} /\ AccessTtl \in Nat \ {0}
ASSUME SignInBounds     == MaxTime \in Nat /\ MaxAttempts \in Nat /\ MaxPasswords \in Nat

\* What a token carries.
Token == [name: UserNames, iat: Nat, exp: Nat, password: Nat, late: BOOLEAN]

ASSUME NoTokenAssumption == NoToken \notin Token

VARIABLES
    clock,
    account,        \* which password a user has, 0 when there is no such user, and since when
    failures,       \* rows of table login_failure
    remembered,     \* history: the same, with what the janitor purged
    browser         \* the tokens a browser holds and the request it waits for

signInVars == <<clock, account, failures, remembered, browser>>

Passwords == 0..MaxPasswords
Ips       == {IpOf[b] : b \in Browsers}

\* A token has its name, iat and exp; history: the password the session was
\* opened with, and late when it changed while a request of the session was
\* under way, in or after the same second.
Issued(n, ttl, password, late) ==
    [name |-> n, iat |-> clock, exp |-> clock + ttl, password |-> password, late |-> late]

\* A browser is at stage idle, counted, matched, failed or cleared of a login,
\* or checked of a refresh; guess: the password sent, 0 for one that is
\* nobody's; used: when it last got tokens.
NewBrowser(n) == [stage |-> "idle", name |-> n, guess |-> 0, late |-> FALSE,
                  cookie |-> NoToken, access |-> NoToken, used |-> 0]

SignInInit ==
    /\ clock = 0
    /\ account    = [n \in UserNames |-> [password |-> 0, updated |-> 0]]
    /\ failures   = {}
    /\ remembered = {}
    /\ browser \in [Browsers -> {NewBrowser(n) : n \in UserNames}]

Goes(b, new) == browser' = [browser EXCEPT ![b] = new]

Finished(b) == [browser[b] EXCEPT !.stage = "idle", !.guess = 0, !.late = FALSE]

-----------------------------------------------------------------------------
(* What the checks say.                                                    *)

\* LoginFailureRepository.recent_counts
Recent(rows)      == {f \in rows : f.at >= clock - Window}
OfName(rows, n)   == {f \in Recent(rows) : f.name = n}
OfIp(rows, ip)    == {f \in Recent(rows) : f.ip = ip}

\* Mutant: a name gets one failure more than its limit.
CountsOneMore(n, ip) == Cardinality(OfName(failures, n)) > MaxPerName \/ Cardinality(OfIp(failures, ip)) >= MaxPerIp

Throttled(n, ip) == Cardinality(OfName(failures, n)) >= MaxPerName \/ Cardinality(OfIp(failures, ip)) >= MaxPerIp

\* from_token
Decodes(t) == t # NoToken /\ clock < t.exp

\* Mutant: when the password changed is not looked at.
AcceptsAnyPassword(t) == Decodes(t)

\* signed_in_user
Accepted(t) == Decodes(t) /\ ~(t.iat < account[t.name].updated)

\* Mutant: a session is renewed in the last quarter of its life.
RenewsLate(t) == t.exp - clock <= RefreshTtl \div 4

Renews(t) == t.exp - clock <= RefreshTtl \div 2

-----------------------------------------------------------------------------
(* Login.                                                                  *)

CountFailures(b, n, guess) ==
    /\ browser[b].stage = "idle"
    /\ ~Throttled(n, IpOf[b])
    /\ Goes(b, [browser[b] EXCEPT !.stage = "counted", !.name = n, !.guess = guess, !.late = FALSE])
    /\ UNCHANGED <<clock, account, failures, remembered>>

\* A name nobody has matches no guess.
PasswordMatches(b) == browser[b].guess # 0 /\ account[browser[b].name].password = browser[b].guess

FindUser(b) ==
    /\ browser[b].stage = "counted"
    /\ Goes(b, [browser[b] EXCEPT !.stage = IF PasswordMatches(b) THEN "matched" ELSE "failed"])
    /\ UNCHANGED <<clock, account, failures, remembered>>

RecordFailure(b) ==
    /\ browser[b].stage = "failed"
    /\ \E nr \in 1..MaxAttempts :
          /\ \A m \in 1..MaxAttempts : m < nr <=> \E f \in remembered : f.nr >= m
          /\ LET row == [nr |-> nr, name |-> browser[b].name, ip |-> IpOf[b], at |-> clock]
             IN failures' = failures \cup {row} /\ remembered' = remembered \cup {row}
    /\ Goes(b, Finished(b))
    /\ UNCHANGED <<clock, account>>

Mine(b, rows) == {f \in rows : f.name = browser[b].name /\ f.ip = IpOf[b]}

ClearFailures(b) ==
    /\ browser[b].stage = "matched"
    /\ failures'   = failures \ Mine(b, failures)
    /\ remembered' = remembered \ Mine(b, remembered)
    /\ Goes(b, [browser[b] EXCEPT !.stage = "cleared"])
    /\ UNCHANGED <<clock, account>>

\* issue_tokens; the access token is bound to the browser's csrf cookie.
GetsTokens(b, refresh) ==
    Goes(b, IF b \in Keeping
            THEN [Finished(b) EXCEPT !.cookie = refresh, !.used = clock,
                                  !.access = Issued(refresh.name, AccessTtl, refresh.password, refresh.late)]
            ELSE Finished(b))

IssueTokens(b) ==
    /\ browser[b].stage = "cleared"
    /\ GetsTokens(b, Issued(browser[b].name, RefreshTtl, browser[b].guess, browser[b].late))
    /\ UNCHANGED <<clock, account, failures, remembered>>

-----------------------------------------------------------------------------
(* Refresh and logout.                                                     *)

CheckRefresh(b) ==
    /\ browser[b].stage = "idle"
    /\ Accepted(browser[b].cookie)
    /\ Goes(b, [browser[b] EXCEPT !.stage = "checked", !.late = browser[b].cookie.late])
    /\ UNCHANGED <<clock, account, failures, remembered>>

\* The cookie is looked at again, and sent back as it is while it lasts.
Refresh(b) ==
    /\ browser[b].stage = "checked"
    /\ LET old == browser[b].cookie
       IN GetsTokens(b, IF Renews(old) THEN Issued(old.name, RefreshTtl, old.password, browser[b].late)
                                       ELSE [old EXCEPT !.late = browser[b].late])
    /\ UNCHANGED <<clock, account, failures, remembered>>

Logout(b) ==
    /\ browser[b].stage = "idle" /\ browser[b].cookie # NoToken
    /\ Goes(b, [browser[b] EXCEPT !.cookie = NoToken, !.access = NoToken, !.used = 0])
    /\ UNCHANGED <<clock, account, failures, remembered>>

-----------------------------------------------------------------------------
(* The command line, the janitor and time.                                 *)

\* create_user refuses a name that is taken, set_password one that is not.
SavePassword(n) ==
    /\ account[n].password < MaxPasswords
    /\ account' = [account EXCEPT ![n] = [password |-> @.password + 1, updated |-> clock]]
    /\ browser' = [b \in Browsers |->
          LET t == browser[b].cookie
              touched(token) == IF token # NoToken /\ token.name = n /\ token.iat = clock
                                THEN [token EXCEPT !.late = TRUE] ELSE token
          IN [browser[b] EXCEPT !.late   = @ \/ (browser[b].stage # "idle" /\ (browser[b].name = n \/ (t # NoToken /\ t.name = n))),
                                !.cookie = touched(t), !.access = touched(@)]]
    /\ UNCHANGED <<clock, failures, remembered>>

CreateUser(n)  == account[n].password = 0 /\ SavePassword(n)
SetPassword(n) == account[n].password # 0 /\ SavePassword(n)

\* LoginFailureRepository.purge; the window ends when the janitor computed it.
Purge ==
    /\ failures # Recent(failures)
    /\ failures' = Recent(failures)
    /\ UNCHANGED <<clock, account, remembered, browser>>

Tick ==
    /\ clock < MaxTime
    /\ clock' = clock + 1
    /\ UNCHANGED <<account, failures, remembered, browser>>

SignInNext ==
    \/ \E b \in Browsers :
          \/ \E n \in UserNames, guess \in Passwords : CountFailures(b, n, guess)
          \/ FindUser(b) \/ RecordFailure(b) \/ ClearFailures(b) \/ IssueTokens(b)
          \/ CheckRefresh(b) \/ Refresh(b) \/ Logout(b)
    \/ \E n \in UserNames : CreateUser(n) \/ SetPassword(n)
    \/ Purge \/ Tick

SignInSpec == SignInInit /\ [][SignInNext]_signInVars

-----------------------------------------------------------------------------
\* Nobody gets more wrong guesses into a window than the limits allow and, on
\* top of that, the ones whose requests were counted at the same time; what
\* the janitor forgets does not make room for more (login, purge).
FailuresBounded ==
    /\ \A n \in UserNames : Cardinality(OfName(remembered, n)) < MaxPerName + Cardinality(Browsers)
    /\ \A ip \in Ips : Cardinality(OfIp(remembered, ip)) < MaxPerIp + Cardinality({b \in Browsers : IpOf[b] = ip})

\* A session opened with an earlier password is over, unless it got a token in
\* the second of the change or by a request the change ran into; a refresh
\* cannot carry it over otherwise (signed_in_user, refresh).
SessionsEndWithPassword ==
    \A b \in Browsers : \A t \in {browser[b].cookie, browser[b].access} :
       Accepted(t) /\ ~t.late => t.password = account[t.name].password

\* A browser that comes back within half the lifetime of a session does not
\* have to sign in again, as long as the password stays (refresh).
KeptInUse ==
    \A b \in Browsers :
       LET t == browser[b].cookie
       IN t # NoToken /\ clock - browser[b].used <= RefreshTtl \div 2 => clock < t.exp

\* Guessing is bounded, and a session lasts as long as it should, not longer.
SignInHolds == FailuresBounded /\ SessionsEndWithPassword /\ KeptInUse
=============================================================================
