------------------------------- MODULE Access -------------------------------
(***************************************************************************)
(* Who may use the API: the handlers for login, logout, first-run setup    *)
(* and password change (internal/api/server.go), the limiter in front of   *)
(* them (ratelimit.go), the tables they use (internal/state) and the       *)
(* commands that manage API tokens in a process of their own.              *)
(*                                                                         *)
(* Requests run concurrently.  A step is one database statement or one     *)
(* critical section of the limiter; hashing a password, which takes a      *)
(* second, lies between two of them.  Time is counted in ticks; a lock, a  *)
(* session and the failure window are given by what is left of them.       *)
(***************************************************************************)
EXTENDS Naturals, FiniteSets

CONSTANTS
    Requests,      \* requests that can be under way at a time
    Sources,       \* addresses they come from, as clientIP resolves them
    Passwords,     \* passwords people type; all pass validatePasswordStrength
    Pinned,        \* auth.password_hash is set in the configuration file
    TokenNames,    \* names of API tokens
    MaxFailures,   \* maxLoginFailures
    MaxSetups,     \* maxSetupAttempts
    Window,        \* failureWindow, in ticks
    Lockout,       \* lockoutDuration
    SessionTTL,    \* sessionTTL
    MaxVersion,    \* bound: how often the password is set
    MaxSessions    \* bound: the sessions issued

ASSUME AccessAssumption ==
    /\ {MaxFailures, MaxSetups, Window, Lockout, SessionTTL} \subseteq Nat \ {0}
    /\ {MaxVersion, MaxSessions} \subseteq Nat
    /\ "" \notin Passwords
    /\ Pinned \in BOOLEAN

VARIABLES
    request,    \* what each request is doing
    limiter,    \* loginLimiter and setupLimiter, in memory
    stored,     \* the row of table auth
    sessions,   \* table sessions
    tokens,     \* table api_tokens: the scope of each name
    \* What the properties need to remember.
    version,    \* how often setup or a change has set the password
    issued,     \* sessions issued
    claims,     \* setup requests that were answered "ok"
    unswept     \* sessions were last left in place by a failed deletion

memory == <<request, limiter>>
tables == <<stored, sessions, tokens>>
ghosts == <<version, issued, claims, unswept>>
vars == <<memory, tables, ghosts>>

\* An empty hash: no password is set.  An empty scope: no such token.
NoHash == [password |-> "", legacy |-> FALSE]
NoScope == ""
Idle == [at |-> "idle"]
Hash(p) == [password |-> p, legacy |-> FALSE]
LegacyHash(p) == [password |-> p, legacy |-> TRUE]

Go(r, next) == request' = [request EXCEPT ![r] = next]
Answer(r) == Go(r, Idle)

------------------------------------------------------------------------------
(* The failure limiter *)

Limiters == {"login", "setup"}
Limit(l) == IF l = "login" THEN MaxFailures ELSE MaxSetups

NoEntry == [failures |-> 0, window |-> 0, locked |-> FALSE, left |-> 0]

\* An entry whose window has rolled over, or that was never made.
RolledOver(e) == e.window = 0

\* What gcLocked leaves of an entry: nothing, once it can no longer affect a
\* decision.
Swept(e) == IF e.left = 0 /\ RolledOver(e) THEN NoEntry ELSE e

\* Allow: refused while locked; otherwise an entry that has served its
\* lockout, or whose window is over, is dropped.
Refused(e) == e.left > 0
Admitted(e) == IF e.locked \/ RolledOver(e) THEN NoEntry ELSE e

\* Mutant of Failed: a failure adds to the lock that is left.
FailedAdds(e, limit) ==
    IF RolledOver(e)
    THEN [NoEntry EXCEPT !.failures = 1, !.window = Window + 1]
    ELSE LET n == IF e.failures < limit THEN e.failures + 1 ELSE limit
         IN [e EXCEPT !.failures = n,
                      !.locked = @ \/ n >= limit,
                      !.left = IF n >= limit THEN @ + Lockout ELSE @]

\* RecordFailure: the first failure of a window starts a new entry; the limit
\* locks, and every later failure locks anew.
Failed(e, limit) ==
    IF RolledOver(e)
    THEN [NoEntry EXCEPT !.failures = 1, !.window = Window + 1]
    ELSE LET n == IF e.failures < limit THEN e.failures + 1 ELSE limit
         IN [e EXCEPT !.failures = n,
                      !.locked = @ \/ n >= limit,
                      !.left = IF n >= limit THEN Lockout ELSE @]

\* Mutant of Allow: an attempt that is refused counts as a failure.
AllowCounts(r, l, src, next) ==
    LET e == limiter[<<l, src>>]
    IN IF Refused(e)
       THEN limiter' = [limiter EXCEPT ![<<l, src>>] = Failed(e, Limit(l))] /\ Answer(r)
       ELSE limiter' = [limiter EXCEPT ![<<l, src>>] = Admitted(e)] /\ Go(r, next)

\* Allow as a whole, for request r at limiter l.
Allow(r, l, src, next) ==
    LET e == limiter[<<l, src>>]
    IN IF Refused(e)
       THEN Answer(r) /\ UNCHANGED limiter
       ELSE Go(r, next) /\ limiter' = [limiter EXCEPT ![<<l, src>>] = Admitted(e)]

RecordFailure(l, src) ==
    limiter' = [limiter EXCEPT ![<<l, src>>] = Failed(@, Limit(l))]

Reset(l, src) == limiter' = [limiter EXCEPT ![<<l, src>>] = NoEntry]

------------------------------------------------------------------------------
(* Login and logout *)

\* The hash that counts: the pinned one, or the stored one.
PasswordHash == IF Pinned THEN Hash("pinned") ELSE stored

\* verifyPassword.
Verify(hash, p) == hash # NoHash /\ hash.password = p

LoginArrives(r, src, p) ==
    /\ request[r].at = "idle"
    /\ Allow(r, "login", src, [at |-> "login", source |-> src, password |-> p])
    /\ UNCHANGED <<tables, ghosts>>

\* The body is decoded and the hash read; without one, setup is required.
LoginReads(r) ==
    /\ request[r].at = "login"
    /\ IF PasswordHash = NoHash
       THEN Answer(r)
       ELSE Go(r, [at |-> "verify", source |-> request[r].source, hash |-> PasswordHash,
                   password |-> request[r].password, version |-> version])
    /\ UNCHANGED <<limiter, tables, ghosts>>

LoginFails(r) ==
    /\ request[r].at = "verify"
    /\ ~Verify(request[r].hash, request[r].password)
    /\ RecordFailure("login", request[r].source)
    /\ Answer(r)
    /\ UNCHANGED <<tables, ghosts>>

\* The password is right: the source is forgiven, and a hash of the old
\* format that is ours to rewrite is to be upgraded.
LoginVerified(r) ==
    /\ request[r].at = "verify"
    /\ Verify(request[r].hash, request[r].password)
    /\ Reset("login", request[r].source)
    /\ Go(r, [at |-> IF request[r].hash.legacy /\ ~Pinned THEN "upgrade" ELSE "session",
              hash |-> Hash(request[r].password), version |-> request[r].version])
    /\ UNCHANGED <<tables, ghosts>>

\* SetPasswordHash with the new format; a failure is logged and passed over.
LoginUpgrades(r) ==
    /\ request[r].at = "upgrade"
    /\ stored' \in {request[r].hash, stored}
    /\ Go(r, [request[r] EXCEPT !.at = "session"])
    /\ UNCHANGED <<limiter, sessions, tokens, ghosts>>

\* CreateSession, which may fail.
LoginCreatesSession(r) ==
    /\ request[r].at = "session"
    /\ \/ /\ issued < MaxSessions
          /\ issued' = issued + 1
          /\ sessions' = sessions \cup
                 {[id |-> issued + 1, left |-> SessionTTL, version |-> request[r].version,
                   late |-> request[r].version # version]}
       \/ UNCHANGED <<issued, sessions>>
    /\ Answer(r)
    /\ UNCHANGED <<limiter, stored, tokens, version, claims, unswept>>

\* handleLogout deletes the session of the cookie, if it has one.
Logout(s) ==
    /\ sessions' = sessions \ {s}
    /\ UNCHANGED <<memory, stored, tokens, ghosts>>

------------------------------------------------------------------------------
(* First-run setup *)

SetupArrives(r, src, p) ==
    /\ request[r].at = "idle"
    /\ Allow(r, "setup", src, [at |-> "setup", source |-> src, password |-> p])
    /\ UNCHANGED <<tables, ghosts>>

\* Every attempt counts as a failure until it succeeds; with a pinned
\* password there is nothing to set up.
SetupCounts(r) ==
    /\ request[r].at = "setup"
    /\ RecordFailure("setup", request[r].source)
    /\ Go(r, IF Pinned THEN Idle ELSE [request[r] EXCEPT !.at = "check"])
    /\ UNCHANGED <<tables, ghosts>>

\* GetPasswordHash; then the new password is hashed.
SetupChecks(r) ==
    /\ request[r].at = "check"
    /\ Go(r, IF stored # NoHash THEN Idle ELSE [request[r] EXCEPT !.at = "claim"])
    /\ UNCHANGED <<limiter, tables, ghosts>>

\* Mutant of SetupClaims: the write does not look at what is there.
SetupOverwrites(r) ==
    /\ request[r].at = "claim"
    /\ version < MaxVersion
    /\ stored' = Hash(request[r].password)
    /\ version' = version + 1
    /\ claims' = claims + 1
    /\ Go(r, [request[r] EXCEPT !.at = "forgive"])
    /\ UNCHANGED <<limiter, sessions, tokens, issued, unswept>>

\* ClaimInitialPassword inserts the row if there is none; a request that is
\* too late, or whose write fails, is refused.
SetupClaims(r) ==
    /\ request[r].at = "claim"
    /\ \/ /\ stored = NoHash
          /\ version < MaxVersion
          /\ stored' = Hash(request[r].password)
          /\ version' = version + 1
          /\ claims' = claims + 1
          /\ Go(r, [request[r] EXCEPT !.at = "forgive"])
       \/ /\ Answer(r)
          /\ UNCHANGED <<stored, version, claims>>
    /\ UNCHANGED <<limiter, sessions, tokens, issued, unswept>>

\* Only now is the source forgiven.
SetupForgives(r) ==
    /\ request[r].at = "forgive"
    /\ Reset("setup", request[r].source)
    /\ Answer(r)
    /\ UNCHANGED <<tables, ghosts>>

------------------------------------------------------------------------------
(* Authentication, and what an authenticated caller can do here *)

SessionIsValid(s) == s.left > 0

\* authenticate and scopeAllows: a session that has not expired carries admin
\* scope, a token the scope it was issued with.
HasScope(required) ==
    \/ \E s \in sessions : SessionIsValid(s)
    \/ \E n \in TokenNames : tokens[n] = "admin" \/ tokens[n] = required

\* requireScope: nobody gets in before a password is set.
ChangeArrives(r, current, new) ==
    /\ request[r].at = "idle"
    /\ PasswordHash # NoHash
    /\ Go(r, [at |-> "scope", current |-> current, password |-> new])
    /\ UNCHANGED <<limiter, tables, ghosts>>

\* The credential is looked up; a caller without one is refused.
ChangeAuthenticates(r) ==
    /\ request[r].at = "scope"
    /\ \/ HasScope("admin") /\ Go(r, [request[r] EXCEPT !.at = "current"])
       \/ Answer(r)
    /\ UNCHANGED <<limiter, tables, ghosts>>

\* handleChangePassword reads the hash and checks the current password against
\* what it has read; the new one, which must differ, is then hashed.
ChangeReads(r) ==
    /\ request[r].at = "current"
    /\ IF ~Pinned /\ Verify(PasswordHash, request[r].current)
          /\ request[r].password # request[r].current
       THEN Go(r, [at |-> "change", password |-> request[r].password])
       ELSE Answer(r)
    /\ UNCHANGED <<limiter, tables, ghosts>>

\* Mutant of ChangeSets: the sessions are deleted first.
SweepThenSet(r) ==
    \/ /\ request[r].at = "change"
       /\ sessions' = {}
       /\ Go(r, [request[r] EXCEPT !.at = "set"])
       /\ UNCHANGED <<limiter, stored, tokens, ghosts>>
    \/ /\ request[r].at = "set"
       /\ version < MaxVersion
       /\ stored' = Hash(request[r].password)
       /\ version' = version + 1
       /\ Answer(r)
       /\ UNCHANGED <<limiter, sessions, tokens, issued, claims, unswept>>

\* SetPasswordHash; if it fails the request does.
ChangeSets(r) ==
    /\ request[r].at = "change"
    /\ \/ /\ version < MaxVersion
          /\ stored' = Hash(request[r].password)
          /\ version' = version + 1
          /\ Go(r, [at |-> "sweep"])
       \/ /\ Answer(r)
          /\ UNCHANGED <<stored, version>>
    /\ UNCHANGED <<limiter, sessions, tokens, issued, claims, unswept>>

\* DeleteAllSessions; if it fails the request succeeds all the same.
ChangeSweeps(r) ==
    /\ request[r].at = "sweep"
    /\ \/ sessions' = {} /\ unswept' = FALSE
       \/ UNCHANGED sessions /\ unswept' = TRUE
    /\ Answer(r)
    /\ UNCHANGED <<limiter, stored, tokens, version, issued, claims>>

\* canarium token create and revoke: SaveAPIToken refuses a name in use.
CreateToken(n, scope) ==
    /\ tokens[n] = NoScope
    /\ tokens' = [tokens EXCEPT ![n] = scope]
    /\ UNCHANGED <<memory, stored, sessions, ghosts>>

RevokeToken(n) ==
    /\ tokens[n] # NoScope
    /\ tokens' = [tokens EXCEPT ![n] = NoScope]
    /\ UNCHANGED <<memory, stored, sessions, ghosts>>

------------------------------------------------------------------------------
(* Time and restarts *)

Less(n) == IF n = 0 THEN 0 ELSE n - 1

\* The sweep of the limiters, which the code makes with the first Allow after
\* limiterGCInterval, is made as soon as there is something to drop.
Tick ==
    /\ limiter' = [x \in DOMAIN limiter |->
                      Swept([limiter[x] EXCEPT !.window = Less(@), !.left = Less(@)])]
    /\ sessions' = {[s EXCEPT !.left = Less(@)] : s \in sessions}
    /\ UNCHANGED <<request, stored, tokens, ghosts>>

\* reapExpiredSessions.
ReapExpiredSessions ==
    /\ sessions' = {s \in sessions : SessionIsValid(s)}
    /\ UNCHANGED <<memory, stored, tokens, ghosts>>

\* The daemon restarts: what it held in memory is gone, requests included.
Restart ==
    /\ request' = [r \in Requests |-> Idle]
    /\ limiter' = [x \in DOMAIN limiter |-> NoEntry]
    /\ unswept' = (unswept \/ \E r \in Requests : request[r].at = "sweep")
    /\ UNCHANGED <<tables, version, issued, claims>>

------------------------------------------------------------------------------
(* The specification *)

\* A new installation, or one an earlier version has set up.
Init ==
    /\ request = [r \in Requests |-> Idle]
    /\ limiter = [x \in Limiters \X Sources |-> NoEntry]
    /\ stored \in {NoHash} \cup {LegacyHash(p) : p \in Passwords}
    /\ sessions = {}
    /\ tokens = [n \in TokenNames |-> NoScope]
    /\ version = 0
    /\ issued = 0
    /\ claims = 0
    /\ unswept = FALSE

Step(r) ==
    \/ LoginReads(r) \/ LoginFails(r) \/ LoginVerified(r) \/ LoginUpgrades(r)
    \/ LoginCreatesSession(r)
    \/ SetupCounts(r) \/ SetupChecks(r) \/ SetupClaims(r) \/ SetupForgives(r)
    \/ ChangeAuthenticates(r) \/ ChangeReads(r) \/ ChangeSets(r) \/ ChangeSweeps(r)

Next ==
    \/ \E r \in Requests, src \in Sources, p \in Passwords :
           LoginArrives(r, src, p) \/ SetupArrives(r, src, p)
    \/ \E r \in Requests, p, q \in Passwords : ChangeArrives(r, p, q)
    \/ \E r \in Requests : Step(r)
    \/ \E s \in sessions : Logout(s)
    \/ \E n \in TokenNames : RevokeToken(n) \/ \E sc \in {"read", "admin"} : CreateToken(n, sc)
    \/ Tick \/ ReapExpiredSessions \/ Restart

Spec == Init /\ [][Next]_vars

------------------------------------------------------------------------------
(* Properties *)

\* The tables and the limiter are well formed, and no entry counts past the
\* threshold that locks it or stays locked longer than lockoutDuration.
TypeOK ==
    /\ stored \in {NoHash} \cup {Hash(p) : p \in Passwords} \cup {LegacyHash(p) : p \in Passwords}
    /\ tokens \in [TokenNames -> {NoScope, "read", "admin"}]
    /\ \A s \in sessions : s.left \in 0..SessionTTL /\ s.version \in 0..version
    /\ \A x \in DOMAIN limiter :
           /\ limiter[x].failures \in 0..Limit(x[1])
           /\ limiter[x].left \in 0..Lockout
           /\ limiter[x].left > 0 => limiter[x].locked
    /\ version \in 0..MaxVersion /\ issued \in 0..MaxSessions /\ unswept \in BOOLEAN

\* Only one setup wins, however many pass the first check while the others
\* are hashing: the account belongs to the one that was answered "ok"
\* (ClaimInitialPassword, db.go:488).
SetupOnce == claims <= 1

\* After a password change has run its course, the sessions that were issued
\* against an older password are gone ("leaving them valid defeats the point",
\* handleChangePassword), except those of a login that had verified the old
\* password and was still on its way, and unless their deletion failed.
OldSessionsGone ==
    (~unswept /\ \A r \in Requests : request[r].at # "sweep") =>
        \A s \in sessions : s.version = version \/ s.late

\* The limiter never shuts the operator out for good (ratelimit.go:13), even
\* one who keeps trying: a lock is only ever prolonged by a request that was
\* let in before it, and those are finitely many.
LockNotProlonged ==
    [][\A x \in DOMAIN limiter :
           (Refused(limiter[x]) /\ limiter'[x].left > limiter[x].left) =>
               \E r \in Requests : request[r].at \in {"verify", "setup"} /\ request'[r] # request[r]
      ]_vars
=============================================================================
