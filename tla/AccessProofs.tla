---------------------------- MODULE AccessProofs ----------------------------
(***************************************************************************)
(* Proofs that Access gives the account to one setup, that a password      *)
(* change ends the sessions of the old password and that a refused attempt *)
(* never prolongs a lock, for any number of concurrent requests, sources   *)
(* and passwords.                                                          *)
(***************************************************************************)
EXTENDS Access, TLAPS

------------------------------------------------------------------------------
(* The inductive invariant *)

Hashes ==
    {NoHash} \cup {Hash(p) : p \in Passwords} \cup {LegacyHash(p) : p \in Passwords}

\* What a request carries at each point; versions are those it has read.
Attempt == [at : {"login", "setup", "check", "claim", "forgive"}, source : Sources, password : Passwords]
Verifying == [at : {"verify"}, source : Sources, hash : Hashes \cup {Hash("pinned")},
              password : Passwords, version : Nat]
Admission == [at : {"upgrade", "session"}, hash : {Hash(p) : p \in Passwords}, version : Nat]
Asking == [at : {"scope", "current"}, current : Passwords, password : Passwords]
Changing == [at : {"change"}, password : Passwords]
Sweeping == [at |-> "sweep"]
Request ==
    {Idle, Sweeping} \cup Attempt \cup Verifying \cup Admission \cup Asking \cup Changing

\* Requests that have read a hash, and will act on it.
Read == {"verify", "upgrade", "session"}

Entry == [failures : Nat, window : Nat, locked : BOOLEAN, left : Nat]
EntryOK(e, limit) ==
    /\ e \in Entry
    /\ e.failures <= limit
    /\ e.left <= Lockout
    /\ e.left > 0 => e.locked = TRUE

Session == [id : Nat, left : 0..SessionTTL, version : Nat, late : BOOLEAN]

LimiterInv ==
    /\ limiter \in [Limiters \X Sources -> Entry]
    /\ \A x \in Limiters \X Sources : EntryOK(limiter[x], Limit(x[1]))

RequestInv ==
    /\ request \in [Requests -> Request]
    /\ \A r \in Requests : request[r].at \in Read => request[r].version <= version

TableInv ==
    /\ stored \in Hashes
    /\ tokens \in [TokenNames -> {NoScope, "read", "admin"}]
    /\ sessions \subseteq Session
    /\ \A s \in sessions : s.version <= version

GhostInv ==
    /\ version \in 0..MaxVersion /\ issued \in 0..MaxSessions /\ unswept \in BOOLEAN
    /\ claims \in Nat

TypeInv == LimiterInv /\ RequestInv /\ TableInv /\ GhostInv

\* Setup is open only while no password is pinned.
SetupInv ==
    /\ claims <= 1
    /\ claims = 1 => stored # NoHash
    /\ \A r \in Requests : request[r].at \in {"check", "claim"} => ~Pinned

\* Before the first password there is no session, and no login under way
\* that could make one.
NobodyYet ==
    (~Pinned /\ stored = NoHash) =>
        sessions = {} /\ \A r \in Requests : request[r].at \notin Read

------------------------------------------------------------------------------
(* The limiter's operators *)

LEMMA Durations ==
    /\ MaxFailures \in Nat \ {0} /\ MaxSetups \in Nat \ {0}
    /\ Window \in Nat \ {0} /\ Lockout \in Nat \ {0} /\ SessionTTL \in Nat \ {0}
    /\ MaxVersion \in Nat /\ MaxSessions \in Nat
BY AccessAssumption

LEMMA LimitPositive ==
    ASSUME NEW l \in Limiters
    PROVE  Limit(l) \in Nat \ {0}
BY Durations DEF Limit, Limiters

LEMMA NoEntryOK ==
    ASSUME NEW limit \in Nat
    PROVE  EntryOK(NoEntry, limit)
<1>1. NoEntry \in Entry
  BY DEF NoEntry, Entry
<1>2. NoEntry.failures = 0 /\ NoEntry.left = 0
  BY DEF NoEntry
<1> QED
  BY <1>1, <1>2, Durations DEF EntryOK

LEMMA AdmittedOK ==
    ASSUME NEW e, NEW limit \in Nat, EntryOK(e, limit)
    PROVE  EntryOK(Admitted(e), limit)
BY NoEntryOK DEF Admitted

LEMMA FailedOK ==
    ASSUME NEW e, NEW limit \in Nat \ {0}, EntryOK(e, limit)
    PROVE  EntryOK(Failed(e, limit), limit)
<1>1. CASE RolledOver(e)
  <2> DEFINE f == [NoEntry EXCEPT !.failures = 1, !.window = Window + 1]
  <2>1. f \in Entry /\ f.failures = 1 /\ f.left = 0
    <3>1. \A g \in Entry, w \in Nat :
              LET h == [g EXCEPT !.failures = 1, !.window = w]
              IN h \in Entry /\ h.failures = 1 /\ h.left = g.left
      BY DEF Entry
    <3>2. NoEntry \in Entry /\ NoEntry.left = 0 /\ Window + 1 \in Nat
      BY Durations DEF NoEntry, Entry
    <3> HIDE DEF f
    <3>3. f = [NoEntry EXCEPT !.failures = 1, !.window = Window + 1]
      BY DEF f
    <3> QED
      BY <3>1, <3>2, <3>3, Zenon
  <2>2. EntryOK(f, limit)
    BY <2>1, Durations DEF EntryOK
  <2> QED
    BY <1>1, <2>2 DEF Failed
<1>2. CASE ~RolledOver(e)
  <2> DEFINE n == IF e.failures < limit THEN e.failures + 1 ELSE limit
             lock == e.locked \/ n >= limit
             left == IF n >= limit THEN Lockout ELSE e.left
             f == [e EXCEPT !.failures = n, !.locked = lock, !.left = left]
  <2>1. n \in Nat /\ n <= limit /\ left \in Nat /\ left <= Lockout
    BY Durations DEF EntryOK, Entry
  <2>2. lock \in BOOLEAN
    OBVIOUS
  <2>3. left > 0 => lock = TRUE
    <3>1. n >= limit => lock = TRUE
      OBVIOUS
    <3>2. e.locked = TRUE => lock = TRUE
      OBVIOUS
    <3>3. (left > 0 /\ ~(n >= limit)) => e.locked = TRUE
      BY DEF EntryOK
    <3> QED
      BY <3>1, <3>2, <3>3
  <2>4. f \in Entry /\ f.failures = n /\ f.locked = lock /\ f.left = left
    <3> HIDE DEF n, lock, left
    <3> QED
      BY <2>1, <2>2 DEF EntryOK, Entry
  <2>5. EntryOK(f, limit)
    <3> HIDE DEF n, lock, left, f
    <3> QED
      BY <2>1, <2>3, <2>4 DEF EntryOK
  <2> QED
    BY <1>2, <2>5 DEF Failed
<1> QED
  BY <1>1, <1>2

LEMMA AgedOK ==
    ASSUME NEW e, NEW limit \in Nat, EntryOK(e, limit)
    PROVE  LET f == [e EXCEPT !.window = Less(@), !.left = Less(@)]
           IN EntryOK(Swept(f), limit) /\ Swept(f).left <= e.left
<1> DEFINE w == Less(e.window)
           n == Less(e.left)
           f == [e EXCEPT !.window = w, !.left = n]
<1>1. w \in Nat /\ n \in Nat /\ n <= e.left /\ e.left \in Nat
  BY DEF Less, EntryOK, Entry
<1>2. f \in Entry /\ f.failures = e.failures /\ f.locked = e.locked /\ f.left = n
  <2> HIDE DEF w, n
  <2> QED
    BY <1>1 DEF EntryOK, Entry
<1>3. EntryOK(f, limit)
  <2> HIDE DEF w, n, f
  <2> QED
    BY <1>1, <1>2, Durations DEF EntryOK
<1>4. EntryOK(NoEntry, limit) /\ NoEntry.left = 0
  BY NoEntryOK DEF NoEntry
<1>5. EntryOK(Swept(f), limit) /\ Swept(f).left <= e.left
  <2> HIDE DEF w, n, f
  <2> QED
    BY <1>1, <1>2, <1>3, <1>4 DEF Swept
<1> QED
  BY <1>5

------------------------------------------------------------------------------
(* Type correctness *)

LEMMA ReadersRequests ==
    ASSUME NEW q \in Request
    PROVE  /\ q.at = "idle" => q = Idle
           /\ q.at \in {"login", "setup", "check", "claim", "forgive"} =>
                  q \in Attempt /\ q.source \in Sources /\ q.password \in Passwords
           /\ q.at = "verify" => q \in Verifying
           /\ q.at \in {"upgrade", "session"} => q \in Admission
           /\ q.at \in {"scope", "current"} => q \in Asking
           /\ q.at = "change" => q \in Changing
BY DEF Request, Idle, Sweeping, Attempt, Verifying, Admission, Asking, Changing

LEMMA InitTypeInv == Init => TypeInv
<1> SUFFICES ASSUME Init PROVE TypeInv
  OBVIOUS
<1>1. LimiterInv
  <2>1. \A x \in Limiters \X Sources : x[1] \in Limiters
    OBVIOUS
  <2>2. \A x \in Limiters \X Sources : EntryOK(NoEntry, Limit(x[1]))
    BY <2>1, LimitPositive, NoEntryOK
  <2>3. NoEntry \in Entry
    BY DEF NoEntry, Entry
  <2> QED
    BY <2>2, <2>3 DEF LimiterInv, Init
<1>2. RequestInv
  BY DEF Init, RequestInv, Idle, Request, Read
<1>3. TableInv
  BY DEF Init, TableInv, Hashes
<1>4. GhostInv
  <2>1. version = 0 /\ issued = 0 /\ claims = 0 /\ unswept \in BOOLEAN
    BY DEF Init
  <2> QED
    BY <2>1, Durations DEF GhostInv
<1> QED
  BY <1>1, <1>2, <1>3, <1>4 DEF TypeInv

\* What the operations on one entry do to the limiter as a whole.
LEMMA EntryReplaced ==
    ASSUME LimiterInv, NEW l \in Limiters, NEW src \in Sources, NEW e,
           EntryOK(e, Limit(l)), limiter' = [limiter EXCEPT ![<<l, src>>] = e]
    PROVE  LimiterInv'
<1>1. <<l, src>> \in Limiters \X Sources /\ <<l, src>>[1] = l
  OBVIOUS
<1>2. e \in Entry
  BY DEF EntryOK
<1> DEFINE X == Limiters \X Sources
           y == <<l, src>>
<1>3. limiter \in [X -> Entry] /\ y \in X /\ limiter' = [limiter EXCEPT ![y] = e]
  BY <1>1, Zenon DEF LimiterInv
<1>4. limiter' \in [X -> Entry] /\ \A x \in X : limiter'[x] = IF x = y THEN e ELSE limiter[x]
  <2> HIDE DEF X, y
  <2> QED
    BY <1>2, <1>3
<1>5. \A x \in X : EntryOK(limiter'[x], Limit(x[1]))
  <2> TAKE x \in X
  <2>1. CASE x = y
    BY <1>1, <1>4, <2>1
  <2>2. CASE x # y
    BY <1>4, <2>2 DEF LimiterInv
  <2> QED
    BY <2>1, <2>2
<1> QED
  BY <1>4, <1>5 DEF LimiterInv

LEMMA EntryAt ==
    ASSUME LimiterInv, NEW l \in Limiters, NEW src \in Sources
    PROVE  EntryOK(limiter[<<l, src>>], Limit(l)) /\ Limit(l) \in Nat \ {0}
<1>1. <<l, src>> \in Limiters \X Sources /\ <<l, src>>[1] = l
  OBVIOUS
<1> QED
  BY <1>1, LimitPositive DEF LimiterInv

LEMMA AllowTypes ==
    ASSUME LimiterInv, NEW r, NEW l \in Limiters, NEW src \in Sources, NEW next,
           Allow(r, l, src, next)
    PROVE  LimiterInv' /\ (Answer(r) \/ Go(r, next))
<1> DEFINE e == limiter[<<l, src>>]
<1>1. CASE Refused(e)
  BY <1>1 DEF Allow, LimiterInv
<1>2. CASE ~Refused(e)
  <2>1. EntryOK(Admitted(e), Limit(l))
    BY EntryAt, AdmittedOK
  <2>2. limiter' = [limiter EXCEPT ![<<l, src>>] = Admitted(e)] /\ Go(r, next)
    BY <1>2 DEF Allow
  <2> QED
    BY <2>1, <2>2, EntryReplaced
<1> QED
  BY <1>1, <1>2

LEMMA RecordFailureTypes ==
    ASSUME LimiterInv, NEW l \in Limiters, NEW src \in Sources, RecordFailure(l, src)
    PROVE  LimiterInv'
<1>1. EntryOK(Failed(limiter[<<l, src>>], Limit(l)), Limit(l))
  BY EntryAt, FailedOK
<1>2. limiter' = [limiter EXCEPT ![<<l, src>>] = Failed(limiter[<<l, src>>], Limit(l))]
  BY DEF RecordFailure
<1> QED
  BY <1>1, <1>2, EntryReplaced

LEMMA ResetTypes ==
    ASSUME LimiterInv, NEW l \in Limiters, NEW src \in Sources, Reset(l, src)
    PROVE  LimiterInv'
<1>1. EntryOK(NoEntry, Limit(l))
  BY LimitPositive, NoEntryOK
<1> QED
  BY <1>1, EntryReplaced DEF Reset

\* A request that moves on carries what it should, and no newer version.
LEMMA GoTypes ==
    ASSUME RequestInv, NEW r \in Requests, NEW q \in Request, Go(r, q),
           q.at \in Read => q.version <= version',
           version \in Nat, version' \in Nat, version <= version'
    PROVE  RequestInv'
<1>1. request' \in [Requests -> Request]
  BY DEF RequestInv, Go
<1>2. \A o \in Requests : request'[o] = IF o = r THEN q ELSE request[o]
  BY DEF RequestInv, Go
<1>3. \A o \in Requests : request[o].at \in Read => request[o].version \in Nat
  <2> TAKE o \in Requests
  <2>1. request[o] \in Request
    BY DEF RequestInv
  <2> QED
    BY <2>1, ReadersRequests DEF Read, Verifying, Admission
<1>4. ASSUME NEW o \in Requests, request'[o].at \in Read
      PROVE  request'[o].version <= version'
  <2>1. CASE o = r
    BY <1>2, <1>4, <2>1
  <2>2. CASE o # r
    BY <1>2, <1>3, <1>4, <2>2 DEF RequestInv
  <2> QED
    BY <2>1, <2>2
<1> QED
  BY <1>1, <1>4 DEF RequestInv

LEMMA AnswerTypes ==
    ASSUME RequestInv, NEW r \in Requests, Answer(r),
           version \in Nat, version' \in Nat, version <= version'
    PROVE  RequestInv'
<1>1. Idle \in Request /\ Idle.at \notin Read
  BY DEF Idle, Request, Read
<1> QED
  BY <1>1, GoTypes DEF Answer

LEMMA VersionIsNat ==
    ASSUME GhostInv
    PROVE  version \in Nat /\ issued \in Nat /\ version <= version
BY Durations DEF GhostInv

\* Steps of a request that touch neither the tables nor what is remembered.
LEMMA QuietTypes ==
    ASSUME TypeInv, LimiterInv', UNCHANGED <<tables, ghosts>>, NEW r \in Requests,
           Answer(r) \/ (\E q \in Request : Go(r, q) /\ (q.at \in Read => q.version <= version))
    PROVE  TypeInv'
<1>1. version' = version /\ TableInv' /\ GhostInv'
  BY DEF TypeInv, tables, ghosts, TableInv, GhostInv
<1>2. RequestInv'
  <2>1. version \in Nat /\ version <= version
    BY VersionIsNat DEF TypeInv
  <2>2. CASE Answer(r)
    BY <1>1, <2>1, <2>2, AnswerTypes DEF TypeInv
  <2>3. CASE \E q \in Request : Go(r, q) /\ (q.at \in Read => q.version <= version)
    BY <1>1, <2>1, <2>3, GoTypes DEF TypeInv
  <2> QED
    BY <2>2, <2>3
<1> QED
  BY <1>1, <1>2 DEF TypeInv

LEMMA LoginArrivesTypes ==
    ASSUME TypeInv, NEW r \in Requests, NEW src \in Sources, NEW p \in Passwords,
           LoginArrives(r, src, p) \/ SetupArrives(r, src, p)
    PROVE  TypeInv'
<1> DEFINE login == [at |-> "login", source |-> src, password |-> p]
           setup == [at |-> "setup", source |-> src, password |-> p]
<1>1. login \in Request /\ login.at \notin Read /\ setup \in Request /\ setup.at \notin Read
  BY DEF Request, Attempt, Read
<1>2. Allow(r, "login", src, login) \/ Allow(r, "setup", src, setup)
  BY DEF LoginArrives, SetupArrives
<1>3. LimiterInv' /\ (Answer(r) \/ Go(r, login) \/ Go(r, setup))
  <2> HIDE DEF login, setup
  <2>1. LimiterInv /\ "login" \in Limiters /\ "setup" \in Limiters
    BY DEF TypeInv, Limiters
  <2> QED
    BY <1>2, <2>1, AllowTypes
<1>4. UNCHANGED <<tables, ghosts>>
  BY DEF LoginArrives, SetupArrives
<1> QED
  <2> HIDE DEF login, setup
  <2> QED
    BY <1>1, <1>3, <1>4, QuietTypes

LEMMA PasswordHashType ==
    ASSUME TableInv
    PROVE  PasswordHash \in Hashes \cup {Hash("pinned")}
BY AccessAssumption DEF PasswordHash, TableInv

LEMMA LoginReadsTypes ==
    ASSUME TypeInv, NEW r \in Requests, LoginReads(r)
    PROVE  TypeInv'
<1> DEFINE q == [at |-> "verify", source |-> request[r].source, hash |-> PasswordHash,
                 password |-> request[r].password, version |-> version]
<1>1. request[r].source \in Sources /\ request[r].password \in Passwords
  BY ReadersRequests DEF TypeInv, RequestInv, LoginReads
<1>2. PasswordHash \in Hashes \cup {Hash("pinned")} /\ version \in Nat /\ version <= version
  BY PasswordHashType, VersionIsNat DEF TypeInv
<1>3. q \in Verifying /\ q.version = version
  BY <1>1, <1>2 DEF Verifying
<1>4. Answer(r) \/ Go(r, q)
  BY DEF LoginReads
<1>5. LimiterInv' /\ UNCHANGED <<tables, ghosts>>
  BY DEF LoginReads, TypeInv, LimiterInv
<1> QED
  <2> HIDE DEF q
  <2> QED
    BY <1>2, <1>3, <1>4, <1>5, QuietTypes DEF Request

LEMMA LoginFailsTypes ==
    ASSUME TypeInv, NEW r \in Requests, LoginFails(r)
    PROVE  TypeInv'
<1>1. request[r].source \in Sources
  BY ReadersRequests DEF TypeInv, RequestInv, LoginFails, Verifying
<1>2. LimiterInv'
  BY <1>1, RecordFailureTypes DEF TypeInv, LoginFails, Limiters
<1> QED
  BY <1>2, QuietTypes DEF LoginFails

LEMMA LoginVerifiedTypes ==
    ASSUME TypeInv, NEW r \in Requests, LoginVerified(r)
    PROVE  TypeInv'
<1> DEFINE next == IF request[r].hash.legacy /\ ~Pinned THEN "upgrade" ELSE "session"
           q == [at |-> next, hash |-> Hash(request[r].password), version |-> request[r].version]
<1>1. request[r] \in Verifying /\ request[r].version <= version
  BY ReadersRequests DEF TypeInv, RequestInv, LoginVerified, Read
<1>2. request[r].source \in Sources /\ request[r].password \in Passwords
      /\ request[r].version \in Nat
  BY <1>1 DEF Verifying
<1>3. LimiterInv'
  BY <1>2, ResetTypes DEF TypeInv, LoginVerified, Limiters
<1>4. next \in {"upgrade", "session"}
  OBVIOUS
<1>5. q \in Admission /\ q.version = request[r].version
  <2> HIDE DEF next
  <2> QED
    BY <1>2, <1>4 DEF Admission
<1>6. Go(r, q) /\ UNCHANGED <<tables, ghosts>>
  BY DEF LoginVerified
<1> QED
  <2> HIDE DEF q
  <2> QED
    BY <1>1, <1>3, <1>5, <1>6, QuietTypes DEF Request

LEMMA LoginUpgradesTypes ==
    ASSUME TypeInv, NEW r \in Requests, LoginUpgrades(r)
    PROVE  TypeInv'
<1> DEFINE q == [request[r] EXCEPT !.at = "session"]
<1>1. request[r] \in Admission /\ request[r].version <= version
  BY ReadersRequests DEF TypeInv, RequestInv, LoginUpgrades, Read
<1>2. q \in Admission /\ q.version = request[r].version
  BY <1>1 DEF Admission
<1>3. version \in Nat /\ version <= version
  BY VersionIsNat DEF TypeInv
<1>4. version' = version /\ GhostInv' /\ LimiterInv'
  BY DEF LoginUpgrades, TypeInv, GhostInv, LimiterInv, ghosts
<1>5. RequestInv'
  <2>1. Go(r, q)
    BY DEF LoginUpgrades
  <2> HIDE DEF q
  <2> QED
    BY <1>1, <1>2, <1>3, <1>4, <2>1, GoTypes DEF TypeInv, Request
<1>6. TableInv'
  <2>1. request[r].hash \in Hashes
    BY <1>1 DEF Admission, Hashes
  <2>2. stored' \in Hashes
    BY <2>1 DEF LoginUpgrades, TypeInv, TableInv
  <2> QED
    BY <1>4, <2>2 DEF LoginUpgrades, TypeInv, TableInv
<1> QED
  BY <1>4, <1>5, <1>6 DEF TypeInv

LEMMA LoginCreatesSessionTypes ==
    ASSUME TypeInv, NEW r \in Requests, LoginCreatesSession(r)
    PROVE  TypeInv'
<1> DEFINE s == [id |-> issued + 1, left |-> SessionTTL, version |-> request[r].version,
                 late |-> request[r].version # version]
<1>1. request[r] \in Admission /\ request[r].version <= version
  BY ReadersRequests DEF TypeInv, RequestInv, LoginCreatesSession, Read
<1>2. version \in Nat /\ version <= version /\ issued \in Nat
  BY VersionIsNat DEF TypeInv
<1>3. s \in Session /\ s.version = request[r].version
  <2>1. request[r].version \in Nat
    BY <1>1 DEF Admission
  <2>2. SessionTTL \in 0..SessionTTL /\ issued + 1 \in Nat
    BY <1>2, Durations
  <2>3. (request[r].version # version) \in BOOLEAN
    OBVIOUS
  <2> QED
    BY <2>1, <2>2, <2>3, Zenon DEF Session
<1>4. /\ version' = version /\ stored' = stored /\ tokens' = tokens
      /\ claims' = claims /\ unswept' = unswept /\ limiter' = limiter /\ Answer(r)
  BY DEF LoginCreatesSession
<1>5. CASE issued < MaxSessions /\ issued' = issued + 1 /\ sessions' = sessions \cup {s}
  <2>1. TableInv'
    <3> HIDE DEF s
    <3>1. sessions' \subseteq Session /\ \A u \in sessions' : u.version <= version
      BY <1>1, <1>3, <1>5 DEF TypeInv, TableInv
    <3> QED
      BY <1>4, <3>1 DEF TypeInv, TableInv
  <2>2. GhostInv'
    <3>1. issued' \in 0..MaxSessions
      BY <1>2, <1>5, Durations
    <3> QED
      BY <1>4, <3>1 DEF TypeInv, GhostInv
  <2> QED
    BY <1>2, <1>4, <2>1, <2>2, AnswerTypes DEF TypeInv, LimiterInv
<1>6. CASE UNCHANGED <<issued, sessions>>
  BY <1>2, <1>4, <1>6, AnswerTypes DEF TypeInv, LimiterInv, TableInv, GhostInv
<1> QED
  BY <1>5, <1>6 DEF LoginCreatesSession

LEMMA SetupCountsTypes ==
    ASSUME TypeInv, NEW r \in Requests, SetupCounts(r)
    PROVE  TypeInv'
<1> DEFINE q == [request[r] EXCEPT !.at = "check"]
<1>1. request[r] \in Attempt /\ request[r].source \in Sources
  BY ReadersRequests DEF TypeInv, RequestInv, SetupCounts
<1>2. LimiterInv'
  BY <1>1, RecordFailureTypes DEF TypeInv, SetupCounts, Limiters
<1>3. q \in Request /\ q.at \notin Read
  BY <1>1 DEF Attempt, Request, Read
<1>4. Answer(r) \/ Go(r, q)
  BY DEF SetupCounts, Answer
<1> QED
  <2> HIDE DEF q
  <2> QED
    BY <1>2, <1>3, <1>4, QuietTypes DEF SetupCounts

LEMMA SetupChecksTypes ==
    ASSUME TypeInv, NEW r \in Requests, SetupChecks(r)
    PROVE  TypeInv'
<1> DEFINE q == [request[r] EXCEPT !.at = "claim"]
<1>1. request[r] \in Attempt
  BY ReadersRequests DEF TypeInv, RequestInv, SetupChecks
<1>2. LimiterInv'
  BY DEF SetupChecks, TypeInv, LimiterInv
<1>3. q \in Request /\ q.at \notin Read
  BY <1>1 DEF Attempt, Request, Read
<1>4. Answer(r) \/ Go(r, q)
  BY DEF SetupChecks, Answer
<1> QED
  <2> HIDE DEF q
  <2> QED
    BY <1>2, <1>3, <1>4, QuietTypes DEF SetupChecks

\* The password is set: the version goes up by one.
LEMMA VersionUp ==
    ASSUME TypeInv, version < MaxVersion, version' = version + 1
    PROVE  /\ version \in Nat /\ version' \in 0..MaxVersion /\ version' \in Nat
           /\ version <= version'
           /\ \A s \in sessions : s.version <= version'
<1>1. version \in Nat /\ version' \in 0..MaxVersion
  BY VersionIsNat, Durations DEF TypeInv
<1>2. \A s \in sessions : s.version \in Nat /\ s.version <= version
  BY DEF TypeInv, TableInv, Session
<1> QED
  BY <1>1, <1>2

LEMMA SetupClaimsTypes ==
    ASSUME TypeInv, NEW r \in Requests, SetupClaims(r)
    PROVE  TypeInv'
<1> DEFINE q == [request[r] EXCEPT !.at = "forgive"]
<1>1. request[r] \in Attempt /\ request[r].password \in Passwords
  BY ReadersRequests DEF TypeInv, RequestInv, SetupClaims
<1>2. UNCHANGED <<limiter, sessions, tokens, issued, unswept>>
  BY DEF SetupClaims
<1>3. CASE /\ version < MaxVersion /\ version' = version + 1
           /\ stored' = Hash(request[r].password)
           /\ claims' = claims + 1 /\ Go(r, q)
  <2>1. q \in Request /\ q.at \notin Read
    BY <1>1 DEF Attempt, Request, Read
  <2>2. RequestInv'
    <3> HIDE DEF q
    <3> QED
      BY <1>3, <2>1, VersionUp, GoTypes DEF TypeInv
  <2>3. TableInv'
    <3>1. stored' \in Hashes
      BY <1>1, <1>3 DEF Hashes
    <3> QED
      BY <1>2, <1>3, <3>1, VersionUp DEF TypeInv, TableInv
  <2>4. GhostInv'
    BY <1>2, <1>3, VersionUp DEF TypeInv, GhostInv
  <2> QED
    BY <1>2, <2>2, <2>3, <2>4 DEF TypeInv, LimiterInv
<1>4. CASE Answer(r) /\ UNCHANGED <<stored, version, claims>>
  BY <1>2, <1>4, QuietTypes DEF tables, ghosts, TypeInv, LimiterInv
<1> QED
  BY <1>3, <1>4 DEF SetupClaims

LEMMA SetupForgivesTypes ==
    ASSUME TypeInv, NEW r \in Requests, SetupForgives(r)
    PROVE  TypeInv'
<1>1. request[r].source \in Sources
  BY ReadersRequests DEF TypeInv, RequestInv, SetupForgives
<1>2. LimiterInv'
  BY <1>1, ResetTypes DEF TypeInv, SetupForgives, Limiters
<1> QED
  BY <1>2, QuietTypes DEF SetupForgives

LEMMA ChangeArrivesTypes ==
    ASSUME TypeInv, NEW r \in Requests, NEW p \in Passwords, NEW q \in Passwords,
           ChangeArrives(r, p, q)
    PROVE  TypeInv'
<1> DEFINE next == [at |-> "scope", current |-> p, password |-> q]
<1>1. next \in Request /\ next.at \notin Read
  BY DEF Request, Asking, Read
<1>2. Go(r, next) /\ LimiterInv' /\ UNCHANGED <<tables, ghosts>>
  BY DEF ChangeArrives, TypeInv, LimiterInv
<1> QED
  <2> HIDE DEF next
  <2> QED
    BY <1>1, <1>2, QuietTypes

LEMMA ChangeAsksTypes ==
    ASSUME TypeInv, NEW r \in Requests, ChangeAuthenticates(r) \/ ChangeReads(r)
    PROVE  TypeInv'
<1> DEFINE ask == [request[r] EXCEPT !.at = "current"]
           change == [at |-> "change", password |-> request[r].password]
<1>1. request[r] \in Asking
  BY ReadersRequests DEF TypeInv, RequestInv, ChangeAuthenticates, ChangeReads
<1>2. ask \in Request /\ ask.at \notin Read
  BY <1>1 DEF Asking, Request, Read
<1>3. change \in Request /\ change.at \notin Read
  BY <1>1 DEF Asking, Changing, Request, Read
<1>4. (Answer(r) \/ Go(r, ask) \/ Go(r, change)) /\ LimiterInv' /\ UNCHANGED <<tables, ghosts>>
  BY DEF ChangeAuthenticates, ChangeReads, TypeInv, LimiterInv
<1> QED
  <2> HIDE DEF ask, change
  <2> QED
    BY <1>2, <1>3, <1>4, QuietTypes

LEMMA ChangeSetsTypes ==
    ASSUME TypeInv, NEW r \in Requests, ChangeSets(r)
    PROVE  TypeInv'
<1>1. request[r].password \in Passwords
  BY ReadersRequests DEF TypeInv, RequestInv, ChangeSets, Changing
<1>2. UNCHANGED <<limiter, sessions, tokens, issued, claims, unswept>>
  BY DEF ChangeSets
<1>3. CASE /\ version < MaxVersion /\ version' = version + 1
           /\ stored' = Hash(request[r].password) /\ Go(r, Sweeping)
  <2>1. Sweeping \in Request /\ Sweeping.at \notin Read
    BY DEF Request, Sweeping, Read
  <2>2. RequestInv'
    BY <1>3, <2>1, VersionUp, GoTypes DEF TypeInv
  <2>3. stored' \in Hashes
    BY <1>1, <1>3 DEF Hashes
  <2> QED
    BY <1>2, <1>3, <2>2, <2>3, VersionUp DEF TypeInv, LimiterInv, TableInv, GhostInv
<1>4. CASE Answer(r) /\ UNCHANGED <<stored, version>>
  BY <1>2, <1>4, QuietTypes DEF tables, ghosts, TypeInv, LimiterInv
<1> QED
  BY <1>3, <1>4 DEF ChangeSets, Sweeping

LEMMA ChangeSweepsTypes ==
    ASSUME TypeInv, NEW r \in Requests, ChangeSweeps(r)
    PROVE  TypeInv'
<1>1. Answer(r) /\ UNCHANGED <<limiter, stored, tokens, version, issued, claims>>
  BY DEF ChangeSweeps
<1>2. sessions' \subseteq sessions /\ unswept' \in BOOLEAN
  BY DEF ChangeSweeps
<1>3. RequestInv'
  BY <1>1, VersionIsNat, AnswerTypes DEF TypeInv
<1> QED
  BY <1>1, <1>2, <1>3 DEF TypeInv, LimiterInv, TableInv, GhostInv

\* Steps that only delete sessions.
LEMMA FewerSessionsTypes ==
    ASSUME TypeInv, sessions' \subseteq sessions, UNCHANGED <<memory, stored, tokens, ghosts>>
    PROVE  TypeInv'
BY DEF TypeInv, LimiterInv, RequestInv, TableInv, GhostInv, memory, ghosts

LEMMA TokenTypes ==
    ASSUME TypeInv, NEW n \in TokenNames,
           RevokeToken(n) \/ \E sc \in {"read", "admin"} : CreateToken(n, sc)
    PROVE  TypeInv'
<1>1. UNCHANGED <<memory, stored, sessions, ghosts>>
  BY DEF RevokeToken, CreateToken
<1>2. tokens' \in [TokenNames -> {NoScope, "read", "admin"}]
  BY DEF RevokeToken, CreateToken, TypeInv, TableInv
<1> QED
  BY <1>1, <1>2 DEF TypeInv, LimiterInv, RequestInv, TableInv, GhostInv, memory, ghosts

\* Every entry is aged, and none gains.
LEMMA TickLimiter ==
    ASSUME LimiterInv, Tick
    PROVE  /\ LimiterInv'
           /\ \A x \in Limiters \X Sources : limiter'[x].left <= limiter[x].left
<1> DEFINE X == Limiters \X Sources
           Aged(e) == Swept([e EXCEPT !.window = Less(@), !.left = Less(@)])
<1>1. DOMAIN limiter = X /\ limiter' = [x \in X |-> Aged(limiter[x])]
  BY DEF Tick, LimiterInv
<1>2. ASSUME NEW x \in X
      PROVE  EntryOK(Aged(limiter[x]), Limit(x[1])) /\ Aged(limiter[x]).left <= limiter[x].left
  <2>1. x[1] \in Limiters
    OBVIOUS
  <2>2. Limit(x[1]) \in Nat /\ EntryOK(limiter[x], Limit(x[1]))
    BY <2>1, LimitPositive DEF LimiterInv
  <2> QED
    BY <2>2, AgedOK
<1> HIDE DEF X, Aged
<1>3. \A x \in X : limiter'[x] = Aged(limiter[x])
  BY <1>1
<1>4. \A x \in X : EntryOK(limiter'[x], Limit(x[1])) /\ limiter'[x].left <= limiter[x].left
  BY <1>2, <1>3
<1>5. limiter' \in [X -> Entry]
  BY <1>1, <1>3, <1>4 DEF EntryOK
<1> QED
  BY <1>4, <1>5 DEF LimiterInv, X

\* The sessions after a tick are those before it, with less time left.
LEMMA TickSessions ==
    ASSUME TableInv, Tick, NEW u \in sessions'
    PROVE  u \in Session /\ \E s \in sessions : u.version = s.version /\ u.late = s.late
<1>1. PICK s \in sessions : u = [s EXCEPT !.left = Less(@)]
  BY DEF Tick
<1>2. s \in Session /\ s.left \in 0..SessionTTL
  BY DEF TableInv, Session
<1> DEFINE n == Less(s.left)
<1>3. n \in 0..SessionTTL
  BY <1>2, Durations DEF Less
<1>4. u = [s EXCEPT !.left = n]
  BY <1>1
<1> HIDE DEF n
<1>5. u \in Session /\ u.version = s.version /\ u.late = s.late
  BY <1>2, <1>3, <1>4 DEF Session
<1> QED
  BY <1>5

LEMMA TickTypes ==
    ASSUME TypeInv, Tick
    PROVE  TypeInv'
<1>1. UNCHANGED <<request, stored, tokens, version, issued, claims, unswept>>
  BY DEF Tick, ghosts
<1>2. TableInv'
  <2>1. sessions' \subseteq Session
    BY TickSessions DEF TypeInv
  <2>2. \A u \in sessions' : u.version <= version
    BY TickSessions DEF TypeInv, TableInv
  <2> QED
    BY <1>1, <2>1, <2>2 DEF TypeInv, TableInv
<1> QED
  BY <1>1, <1>2, TickLimiter DEF TypeInv, RequestInv, GhostInv

LEMMA RestartTypes ==
    ASSUME TypeInv, Restart
    PROVE  TypeInv'
<1>1. UNCHANGED <<tables, version, issued, claims>> /\ unswept' \in BOOLEAN
  BY DEF Restart
<1>2. request' = [r \in Requests |-> Idle] /\ Idle \in Request /\ Idle.at \notin Read
  BY DEF Restart, Idle, Request, Read
<1>3. RequestInv'
  BY <1>2 DEF RequestInv
<1>4. LimiterInv'
  <2> DEFINE X == Limiters \X Sources
  <2>1. limiter' = [x \in X |-> NoEntry]
    BY DEF Restart, TypeInv, LimiterInv
  <2>2. \A x \in X : EntryOK(NoEntry, Limit(x[1]))
    <3>1. \A x \in X : x[1] \in Limiters
      OBVIOUS
    <3> QED
      BY <3>1, LimitPositive, NoEntryOK
  <2>3. NoEntry \in Entry
    BY DEF NoEntry, Entry
  <2> HIDE DEF X
  <2>4. limiter' \in [X -> Entry] /\ \A x \in X : limiter'[x] = NoEntry
    BY <2>1, <2>3
  <2> QED
    BY <2>2, <2>4 DEF LimiterInv, X
<1> QED
  BY <1>1, <1>3, <1>4 DEF TypeInv, TableInv, GhostInv, tables

\* The steps of Next, one by one.
LEMMA TypeInvStep == TypeInv /\ [Next]_vars => TypeInv'
<1> SUFFICES ASSUME TypeInv, [Next]_vars PROVE TypeInv'
  OBVIOUS
<1>1. ASSUME NEW r \in Requests, NEW src \in Sources, NEW p \in Passwords,
             LoginArrives(r, src, p) \/ SetupArrives(r, src, p)
      PROVE  TypeInv'
  BY <1>1, LoginArrivesTypes
<1>2. ASSUME NEW r \in Requests, NEW p \in Passwords, NEW q \in Passwords,
             ChangeArrives(r, p, q)
      PROVE  TypeInv'
  BY <1>2, ChangeArrivesTypes
<1>3. ASSUME NEW r \in Requests, Step(r)
      PROVE  TypeInv'
  BY <1>3, LoginReadsTypes, LoginFailsTypes, LoginVerifiedTypes, LoginUpgradesTypes,
     LoginCreatesSessionTypes, SetupCountsTypes, SetupChecksTypes, SetupClaimsTypes,
     SetupForgivesTypes, ChangeAsksTypes, ChangeSetsTypes, ChangeSweepsTypes DEF Step
<1>4. ASSUME NEW s \in sessions, Logout(s)
      PROVE  TypeInv'
  BY <1>4, FewerSessionsTypes DEF Logout
<1>5. ASSUME NEW n \in TokenNames,
             RevokeToken(n) \/ \E sc \in {"read", "admin"} : CreateToken(n, sc)
      PROVE  TypeInv'
  BY <1>5, TokenTypes
<1>6. CASE Tick
  BY <1>6, TickTypes
<1>7. CASE ReapExpiredSessions
  BY <1>7, FewerSessionsTypes DEF ReapExpiredSessions
<1>8. CASE Restart
  BY <1>8, RestartTypes
<1>9. CASE UNCHANGED vars
  BY <1>9 DEF vars, memory, tables, ghosts, TypeInv, LimiterInv, RequestInv, TableInv, GhostInv
<1> QED
  BY <1>1, <1>2, <1>3, <1>4, <1>5, <1>6, <1>7, <1>8, <1>9 DEF Next

LEMMA TypeInvImplies == TypeInv => TypeOK
<1> SUFFICES ASSUME TypeInv PROVE TypeOK
  OBVIOUS
<1>1. /\ stored \in Hashes
      /\ tokens \in [TokenNames -> {NoScope, "read", "admin"}]
  BY DEF TypeInv, TableInv
<1>2. \A s \in sessions : s.left \in 0..SessionTTL /\ s.version \in 0..version
  BY VersionIsNat DEF TypeInv, TableInv, Session
<1>3. ASSUME NEW x \in DOMAIN limiter
      PROVE  /\ limiter[x].failures \in 0..Limit(x[1])
             /\ limiter[x].left \in 0..Lockout
             /\ limiter[x].left > 0 => limiter[x].locked
  <2>1. x \in Limiters \X Sources /\ x[1] \in Limiters
    BY DEF TypeInv, LimiterInv
  <2>2. Limit(x[1]) \in Nat /\ Lockout \in Nat /\ EntryOK(limiter[x], Limit(x[1]))
    BY <2>1, LimitPositive, Durations DEF TypeInv, LimiterInv
  <2>3. limiter[x].left > 0 => limiter[x].locked = TRUE
    BY <2>2 DEF EntryOK
  <2>4. limiter[x].failures \in 0..Limit(x[1]) /\ limiter[x].left \in 0..Lockout
    BY <2>2 DEF EntryOK, Entry
  <2> QED
    BY <2>3, <2>4
<1>4. version \in 0..MaxVersion /\ issued \in 0..MaxSessions /\ unswept \in BOOLEAN
  BY DEF TypeInv, GhostInv
<1> QED
  BY <1>1, <1>2, <1>3, <1>4 DEF TypeOK, Hashes

\* The tables and the limiter stay well formed; in particular no source is
\* locked longer than lockoutDuration, or counted past its threshold
\* (RecordFailure, ratelimit.go).
THEOREM AccessTypes == Spec => []TypeOK
<1>1. Spec => []TypeInv
  BY InitTypeInv, TypeInvStep, PTL DEF Spec
<1> QED
  BY <1>1, TypeInvImplies, PTL

------------------------------------------------------------------------------
(* One setup wins, and old sessions go *)

AccessInv == TypeInv /\ SetupInv /\ NobodyYet

\* A password is not the empty string, so a hash of one is not "no hash".
LEMMA HashIsSet ==
    ASSUME NEW p \in Passwords
    PROVE  Hash(p) # NoHash /\ LegacyHash(p) # NoHash
<1>1. p # ""
  BY AccessAssumption
<1>2. Hash(p).password = p /\ LegacyHash(p).password = p /\ NoHash.password = ""
  BY DEF Hash, LegacyHash, NoHash
<1> QED
  BY <1>1, <1>2

\* What moving a request does to the others, and to where it stands.
LEMMA GoAt ==
    ASSUME TypeInv, NEW r \in Requests, NEW q, Go(r, q)
    PROVE  \A o \in Requests : request'[o] = IF o = r THEN q ELSE request[o]
BY DEF TypeInv, RequestInv, Go

LEMMA AnswerAt ==
    ASSUME TypeInv, NEW r \in Requests, Answer(r)
    PROVE  \A o \in Requests : request'[o].at = IF o = r THEN "idle" ELSE request[o].at
BY GoAt DEF Answer, Idle

\* Where each step of a request takes it.
LEMMA StepAt ==
    ASSUME TypeInv, NEW r \in Requests, Step(r)
    PROVE  \A o \in Requests :
               \/ request'[o].at = request[o].at
               \/ request'[o].at = "idle"
               \/ request[o].at = "login" /\ request'[o].at = "verify" /\ PasswordHash # NoHash
               \/ request[o].at \in Read /\ request'[o].at \in {"upgrade", "session"}
               \/ request[o].at = "setup" /\ request'[o].at = "check" /\ ~Pinned
               \/ request[o].at = "check" /\ request'[o].at = "claim"
               \/ request[o].at = "claim" /\ request'[o].at = "forgive"
               \/ request'[o].at \in {"current", "change", "sweep"}
<1>1. request[r] \in Request
  BY DEF TypeInv, RequestInv
<1>2. CASE Answer(r)
  BY <1>2, AnswerAt
<1>3. CASE LoginReads(r)
  BY <1>2, <1>3, GoAt DEF LoginReads
<1>4. CASE LoginFails(r)
  BY <1>2, <1>4 DEF LoginFails
<1>5. CASE LoginVerified(r)
  BY <1>5, GoAt DEF LoginVerified, Read
<1>6. CASE LoginUpgrades(r)
  <2>1. request[r] \in Admission
    BY <1>1, <1>6, ReadersRequests DEF LoginUpgrades
  <2> DEFINE q == [request[r] EXCEPT !.at = "session"]
  <2>2. q.at = "session" /\ Go(r, q) /\ request[r].at = "upgrade"
    BY <1>6, <2>1 DEF Admission, LoginUpgrades
  <2> HIDE DEF q
  <2> QED
    BY <2>2, GoAt DEF Read
<1>7. CASE LoginCreatesSession(r)
  BY <1>2, <1>7 DEF LoginCreatesSession
<1>8. CASE SetupCounts(r)
  <2>1. request[r] \in Attempt
    BY <1>1, <1>8, ReadersRequests DEF SetupCounts
  <2> DEFINE q == [request[r] EXCEPT !.at = "check"]
  <2>2. q.at = "check" /\ (Answer(r) \/ (Go(r, q) /\ ~Pinned)) /\ request[r].at = "setup"
    BY <1>8, <2>1 DEF Attempt, SetupCounts, Answer
  <2> HIDE DEF q
  <2> QED
    BY <1>2, <2>2, GoAt
<1>9. CASE SetupChecks(r)
  <2>1. request[r] \in Attempt
    BY <1>1, <1>9, ReadersRequests DEF SetupChecks
  <2> DEFINE q == [request[r] EXCEPT !.at = "claim"]
  <2>2. q.at = "claim" /\ (Answer(r) \/ Go(r, q)) /\ request[r].at = "check"
    BY <1>9, <2>1 DEF Attempt, SetupChecks, Answer
  <2> HIDE DEF q
  <2> QED
    BY <1>2, <2>2, GoAt
<1>10. CASE SetupClaims(r)
  <2>1. request[r] \in Attempt
    BY <1>1, <1>10, ReadersRequests DEF SetupClaims
  <2> DEFINE q == [request[r] EXCEPT !.at = "forgive"]
  <2>2. q.at = "forgive" /\ (Answer(r) \/ Go(r, q)) /\ request[r].at = "claim"
    BY <1>10, <2>1 DEF Attempt, SetupClaims
  <2> HIDE DEF q
  <2> QED
    BY <1>2, <2>2, GoAt
<1>14. CASE SetupForgives(r)
  BY <1>2, <1>14 DEF SetupForgives
<1>13. CASE ChangeAuthenticates(r) \/ ChangeReads(r)
  <2>1. request[r] \in Asking
    BY <1>1, <1>13, ReadersRequests DEF ChangeAuthenticates, ChangeReads
  <2> DEFINE ask == [request[r] EXCEPT !.at = "current"]
             change == [at |-> "change", password |-> request[r].password]
  <2>2. ask.at = "current" /\ change.at = "change" /\ (Answer(r) \/ Go(r, ask) \/ Go(r, change))
    BY <1>13, <2>1 DEF Asking, ChangeAuthenticates, ChangeReads
  <2> HIDE DEF ask, change
  <2> QED
    BY <1>2, <2>2, GoAt
<1>11. CASE ChangeSets(r)
  <2>1. request[r].at = "change" /\ (Answer(r) \/ Go(r, Sweeping)) /\ Sweeping.at = "sweep"
    BY <1>11 DEF ChangeSets, Sweeping
  <2> QED
    BY <1>2, <2>1, GoAt
<1>12. CASE ChangeSweeps(r)
  BY <1>2, <1>12 DEF ChangeSweeps
<1> QED
  BY <1>3, <1>4, <1>5, <1>6, <1>7, <1>8, <1>9, <1>10, <1>11, <1>12, <1>13, <1>14
     DEF Step

\* What the steps of a request do to the row of table auth.
LEMMA StepStored ==
    ASSUME TypeInv, NEW r \in Requests, Step(r)
    PROVE  /\ stored # NoHash => stored' # NoHash
           /\ \/ UNCHANGED <<stored, version, claims>>
              \/ /\ request[r].at \in {"upgrade", "change"}
                 /\ claims' = claims
              \/ /\ request[r].at = "claim" /\ stored = NoHash /\ stored' # NoHash
                 /\ claims' = claims + 1 /\ version' = version + 1
                 /\ sessions' = sessions
<1>1. request[r] \in Request
  BY DEF TypeInv, RequestInv
<1>2. CASE LoginUpgrades(r)
  <2>1. request[r] \in Admission
    BY <1>1, <1>2, ReadersRequests DEF LoginUpgrades
  <2>2. request[r].hash # NoHash
    BY <2>1, HashIsSet DEF Admission
  <2> QED
    BY <1>2, <2>2 DEF LoginUpgrades, ghosts
<1>3. CASE SetupClaims(r)
  <2>1. Hash(request[r].password) # NoHash
    BY <1>1, <1>3, ReadersRequests, HashIsSet DEF SetupClaims
  <2> QED
    BY <1>3, <2>1 DEF SetupClaims
<1>4. CASE ChangeSets(r)
  <2>1. request[r].password \in Passwords
    BY <1>1, <1>4, ReadersRequests DEF ChangeSets, Changing
  <2> QED
    BY <1>4, <2>1, HashIsSet DEF ChangeSets
<1>5. CASE LoginReads(r) \/ LoginFails(r) \/ LoginVerified(r) \/ LoginCreatesSession(r)
           \/ SetupCounts(r) \/ SetupChecks(r) \/ SetupForgives(r) \/ ChangeAuthenticates(r)
           \/ ChangeReads(r) \/ ChangeSweeps(r)
  BY <1>5 DEF LoginReads, LoginFails, LoginVerified, LoginCreatesSession, SetupCounts,
     SetupChecks, SetupForgives, ChangeAuthenticates, ChangeReads, ChangeSweeps, tables, ghosts
<1> QED
  BY <1>2, <1>3, <1>4, <1>5 DEF Step

\* Every step of Next that is not a step of a request under way.
Outside ==
    \/ \E r \in Requests, src \in Sources, p \in Passwords :
           LoginArrives(r, src, p) \/ SetupArrives(r, src, p)
    \/ \E r \in Requests, p, q \in Passwords : ChangeArrives(r, p, q)
    \/ \E s \in sessions : Logout(s)
    \/ \E n \in TokenNames : RevokeToken(n) \/ \E sc \in {"read", "admin"} : CreateToken(n, sc)
    \/ Tick \/ ReapExpiredSessions \/ Restart
    \/ UNCHANGED vars

LEMMA NextSplits == [Next]_vars => Outside \/ \E r \in Requests : Step(r)
BY DEF Next, Outside

\* They set no password, and put no request where it could act on one.
LEMMA OutsideSteps ==
    ASSUME TypeInv, Outside
    PROVE  /\ UNCHANGED <<stored, version, claims>>
           /\ \A o \in Requests : \/ request'[o].at = request[o].at
                                   \/ request'[o].at \in {"idle", "login", "setup", "scope"}
           /\ \A u \in sessions' : \E s \in sessions : u.version = s.version /\ u.late = s.late
<1>1. ASSUME NEW r \in Requests, NEW src \in Sources, NEW p \in Passwords,
             LoginArrives(r, src, p) \/ SetupArrives(r, src, p)
      PROVE  /\ UNCHANGED <<tables, ghosts>>
             /\ \A o \in Requests : \/ request'[o].at = request[o].at
                                     \/ request'[o].at \in {"idle", "login", "setup"}
  <2> DEFINE login == [at |-> "login", source |-> src, password |-> p]
             setup == [at |-> "setup", source |-> src, password |-> p]
  <2>1. login.at = "login" /\ setup.at = "setup"
    OBVIOUS
  <2>2. Answer(r) \/ Go(r, login) \/ Go(r, setup)
    BY <1>1 DEF LoginArrives, SetupArrives, Allow
  <2>3. UNCHANGED <<tables, ghosts>>
    BY <1>1 DEF LoginArrives, SetupArrives
  <2> HIDE DEF login, setup
  <2> QED
    BY <2>1, <2>2, <2>3, GoAt, AnswerAt
<1>2. ASSUME NEW r \in Requests, NEW p \in Passwords, NEW q \in Passwords,
             ChangeArrives(r, p, q)
      PROVE  /\ UNCHANGED <<tables, ghosts>>
             /\ \A o \in Requests : \/ request'[o].at = request[o].at
                                     \/ request'[o].at = "scope"
  BY <1>2, GoAt DEF ChangeArrives
<1>3. CASE \E s \in sessions : Logout(s)
  BY <1>3 DEF Logout, memory, ghosts
<1>4. CASE \E n \in TokenNames :
               RevokeToken(n) \/ \E sc \in {"read", "admin"} : CreateToken(n, sc)
  BY <1>4 DEF RevokeToken, CreateToken, memory, ghosts
<1>5. CASE Tick
  BY <1>5, TickSessions DEF Tick, ghosts, TypeInv
<1>6. CASE ReapExpiredSessions
  BY <1>6 DEF ReapExpiredSessions, memory, ghosts
<1>7. CASE Restart
  BY <1>7 DEF Restart, tables, Idle
<1>8. CASE UNCHANGED vars
  BY <1>8 DEF vars, memory, tables, ghosts
<1> QED
  BY <1>1, <1>2, <1>3, <1>4, <1>5, <1>6, <1>7, <1>8 DEF Outside, tables, ghosts

LEMMA SetupInvStep ==
    ASSUME TypeInv, SetupInv, [Next]_vars
    PROVE  SetupInv'
<1>1. claims \in Nat
  BY DEF TypeInv, GhostInv
<1>2. CASE Outside
  BY <1>2, OutsideSteps DEF SetupInv
<1>3. ASSUME NEW r \in Requests, Step(r)
      PROVE  SetupInv'
  <2>1. claims' <= 1 /\ (claims' = 1 => stored' # NoHash)
    BY <1>1, <1>3, StepStored DEF SetupInv
  <2>2. \A o \in Requests : request'[o].at \in {"check", "claim"} => ~Pinned
    BY <1>3, StepAt DEF SetupInv, Read
  <2> QED
    BY <2>1, <2>2 DEF SetupInv
<1> QED
  BY <1>2, <1>3, NextSplits

\* What the steps of a request do to the sessions.
LEMMA StepSessions ==
    ASSUME TypeInv, NEW r \in Requests, Step(r)
    PROVE  \/ sessions' = sessions /\ (unswept' = unswept \/ request[r].at = "sweep")
           \/ sessions' = {}
           \/ /\ request[r].at = "session"
              /\ UNCHANGED <<version, unswept>>
              /\ \A u \in sessions' : u \in sessions \/ u.version = version \/ u.late = TRUE
<1>1. CASE LoginCreatesSession(r) /\ sessions' # sessions
  <2> DEFINE late == request[r].version # version
             s == [id |-> issued + 1, left |-> SessionTTL, version |-> request[r].version,
                   late |-> late]
  <2>1. sessions' = sessions \cup {s}
    BY <1>1 DEF LoginCreatesSession
  <2>2. s.version = version \/ s.late = TRUE
    <3>1. s.version = request[r].version /\ s.late = late
      OBVIOUS
    <3>2. request[r].version = version \/ late = TRUE
      OBVIOUS
    <3> QED
      BY <3>1, <3>2
  <2> HIDE DEF s
  <2> QED
    BY <1>1, <2>1, <2>2 DEF LoginCreatesSession
<1>2. CASE ChangeSweeps(r)
  BY <1>2 DEF ChangeSweeps
<1>3. CASE LoginReads(r) \/ LoginFails(r) \/ LoginVerified(r) \/ LoginUpgrades(r)
           \/ SetupCounts(r) \/ SetupChecks(r) \/ SetupClaims(r) \/ SetupForgives(r)
           \/ ChangeAuthenticates(r) \/ ChangeReads(r) \/ ChangeSets(r)
  BY <1>3 DEF LoginReads, LoginFails, LoginVerified, LoginUpgrades, SetupCounts, SetupChecks,
     SetupClaims, SetupForgives, ChangeAuthenticates, ChangeReads, ChangeSets, tables, ghosts
<1> QED
  BY <1>1, <1>2, <1>3 DEF Step, LoginCreatesSession

LEMMA NobodyYetStep ==
    ASSUME TypeInv, NobodyYet, [Next]_vars
    PROVE  NobodyYet'
<1> SUFFICES ASSUME ~Pinned, stored' = NoHash
             PROVE  sessions' = {} /\ \A r \in Requests : request'[r].at \notin Read
  BY DEF NobodyYet
<1>1. CASE Outside
  <2>1. stored = NoHash
    BY <1>1, OutsideSteps
  <2> QED
    BY <1>1, <2>1, OutsideSteps DEF NobodyYet, Read
<1>2. ASSUME NEW r \in Requests, Step(r)
      PROVE  sessions' = {} /\ \A o \in Requests : request'[o].at \notin Read
  <2>1. stored = NoHash /\ PasswordHash = NoHash
    BY <1>2, StepStored DEF PasswordHash
  <2>2. sessions = {} /\ \A o \in Requests : request[o].at \notin Read
    BY <2>1 DEF NobodyYet
  <2>3. sessions' = {}
    BY <1>2, <2>2, StepSessions DEF Read
  <2>4. \A o \in Requests : request'[o].at \notin Read
    BY <1>2, <2>1, <2>2, StepAt DEF Read
  <2> QED
    BY <2>3, <2>4
<1> QED
  BY <1>1, <1>2, NextSplits

\* A change whose sessions are still to be deleted, or were not.
Pending == unswept \/ \E r \in Requests : request[r].at = "sweep"

OldInv == ~Pending => \A s \in sessions : s.version = version \/ s.late = TRUE

LEMMA PendingOutside ==
    ASSUME TypeInv, Outside, Pending
    PROVE  Pending'
<1>1. ASSUME NEW r \in Requests, NEW src \in Sources, NEW p \in Passwords,
             LoginArrives(r, src, p) \/ SetupArrives(r, src, p)
      PROVE  Pending'
  <2>1. /\ UNCHANGED unswept /\ request[r].at = "idle"
        /\ \A o \in Requests \ {r} : request'[o] = request[o]
    BY <1>1, GoAt DEF LoginArrives, SetupArrives, Allow, Answer, ghosts
  <2> QED
    BY <2>1 DEF Pending
<1>2. ASSUME NEW r \in Requests, NEW p \in Passwords, NEW q \in Passwords,
             ChangeArrives(r, p, q)
      PROVE  Pending'
  <2>1. /\ UNCHANGED unswept /\ request[r].at = "idle"
        /\ \A o \in Requests \ {r} : request'[o] = request[o]
    BY <1>2, GoAt DEF ChangeArrives, ghosts
  <2> QED
    BY <2>1 DEF Pending
<1>3. CASE Restart
  BY <1>3 DEF Restart, Pending
<1>4. CASE UNCHANGED <<request, unswept>>
  BY <1>4 DEF Pending
<1> QED
  BY <1>1, <1>2, <1>3, <1>4 DEF Outside, Logout, RevokeToken, CreateToken, Tick,
     ReapExpiredSessions, vars, memory, ghosts

\* The steps of other requests leave a pending deletion pending; its own step
\* makes it, or leaves the mark of its failure.
LEMMA PendingStep ==
    ASSUME TypeInv, NEW r \in Requests, Step(r), Pending
    PROVE  Pending' \/ sessions' = {}
<1>1. CASE ChangeSweeps(r)
  BY <1>1 DEF ChangeSweeps, Pending
<1>2. CASE ~ChangeSweeps(r)
  <2>1. request[r].at # "sweep" /\ unswept' = unswept
    BY <1>2 DEF Step, LoginReads, LoginFails, LoginVerified, LoginUpgrades,
       LoginCreatesSession, SetupCounts, SetupChecks, SetupClaims, SetupForgives,
       ChangeAuthenticates, ChangeReads, ChangeSets, ghosts
  <2>2. \E q : Go(r, q)
    BY <1>2 DEF Step, LoginReads, LoginFails, LoginVerified, LoginUpgrades,
       LoginCreatesSession, SetupCounts, SetupChecks, SetupClaims, SetupForgives,
       ChangeAuthenticates, ChangeReads, ChangeSets, Answer
  <2>3. \A o \in Requests \ {r} : request'[o] = request[o]
    BY <2>2, GoAt
  <2> QED
    BY <2>1, <2>3 DEF Pending
<1> QED
  BY <1>1, <1>2

\* The version changes only while nobody has a session, or with a deletion
\* still to come.
LEMMA VersionStep ==
    ASSUME AccessInv, NEW r \in Requests, Step(r), version' # version
    PROVE  Pending' \/ sessions' = {}
<1>1. CASE SetupClaims(r)
  <2>1. stored = NoHash /\ sessions' = sessions /\ request[r].at = "claim"
    BY <1>1 DEF SetupClaims
  <2>2. ~Pinned
    BY <2>1 DEF AccessInv, SetupInv
  <2> QED
    BY <2>1, <2>2 DEF AccessInv, NobodyYet
<1>2. CASE ChangeSets(r)
  <2>1. Go(r, Sweeping) /\ Sweeping.at = "sweep" /\ TypeInv
    BY <1>2 DEF ChangeSets, Sweeping, AccessInv
  <2>2. request'[r].at = "sweep"
    BY <2>1, GoAt
  <2> QED
    BY <2>2 DEF Pending
<1> QED
  BY <1>1, <1>2 DEF Step, LoginReads, LoginFails, LoginVerified, LoginUpgrades,
     LoginCreatesSession, SetupCounts, SetupChecks, SetupForgives, ChangeAuthenticates,
     ChangeReads, ChangeSweeps, ghosts

LEMMA OldInvStep ==
    ASSUME AccessInv, OldInv, [Next]_vars
    PROVE  OldInv'
<1> SUFFICES ASSUME ~Pending', NEW u \in sessions'
             PROVE  u.version = version' \/ u.late = TRUE
  BY DEF OldInv
<1>1. TypeInv
  BY DEF AccessInv
<1>2. CASE Outside
  <2>1. ~Pending
    BY <1>1, <1>2, PendingOutside
  <2> QED
    BY <1>1, <1>2, <2>1, OutsideSteps DEF OldInv
<1>3. ASSUME NEW r \in Requests, Step(r)
      PROVE  u.version = version' \/ u.late = TRUE
  <2>1. ~Pending /\ version' = version
    BY <1>1, <1>3, PendingStep, VersionStep
  <2> QED
    BY <1>1, <1>3, <2>1, StepSessions DEF OldInv
<1> QED
  BY <1>2, <1>3, NextSplits

LEMMA InitAccessInv == Init => AccessInv /\ OldInv
<1> SUFFICES ASSUME Init PROVE AccessInv /\ OldInv
  OBVIOUS
<1>1. \A r \in Requests : request[r].at = "idle"
  BY DEF Init, Idle
<1> QED
  BY <1>1, InitTypeInv DEF Init, AccessInv, SetupInv, NobodyYet, OldInv, Read

LEMMA AccessInvStep == AccessInv /\ OldInv /\ [Next]_vars => (AccessInv /\ OldInv)'
BY TypeInvStep, SetupInvStep, NobodyYetStep, OldInvStep DEF AccessInv

LEMMA AlwaysAccessInv == Spec => [](AccessInv /\ OldInv)
BY InitAccessInv, AccessInvStep, PTL DEF Spec

\* However many setup requests pass the first check and hash their passwords
\* side by side, one of them gets the account: ClaimInitialPassword inserts
\* the row only if there is none, and no operation takes it away again.
THEOREM OneSetupWins == Spec => []SetupOnce
<1>1. AccessInv /\ OldInv => SetupOnce
  BY DEF AccessInv, SetupInv, SetupOnce
<1> QED
  BY <1>1, AlwaysAccessInv, PTL

\* Once the deletion that follows a password change has been made and did not
\* fail (handleChangePassword), what is left is sessions of the new password
\* and of logins that had verified the old one and were still under way.
THEOREM ChangeEndsSessions == Spec => []OldSessionsGone
<1>1. AccessInv /\ OldInv => OldSessionsGone
  BY DEF OldInv, OldSessionsGone, Pending
<1> QED
  BY <1>1, AlwaysAccessInv, PTL

------------------------------------------------------------------------------
(* Locks *)

\* The left of an entry that an operation replaces.
LEMMA OtherEntries ==
    ASSUME LimiterInv, NEW l \in Limiters, NEW src \in Sources, NEW e,
           limiter' = [limiter EXCEPT ![<<l, src>>] = e],
           NEW x \in Limiters \X Sources
    PROVE  limiter'[x] = IF x = <<l, src>> THEN e ELSE limiter[x]
<1> DEFINE y == <<l, src>>
           X == Limiters \X Sources
<1>1. limiter \in [X -> Entry] /\ y \in X /\ limiter' = [limiter EXCEPT ![y] = e] /\ x \in X
  BY Zenon DEF LimiterInv
<1>2. limiter'[x] = IF x = y THEN e ELSE limiter[x]
  <2> HIDE DEF X, y
  <2> QED
    BY <1>1
<1> QED
  BY <1>2

LEMMA LockStep ==
    ASSUME TypeInv, Next, NEW x \in DOMAIN limiter,
           Refused(limiter[x]), limiter'[x].left > limiter[x].left
    PROVE  \E r \in Requests : request[r].at \in {"verify", "setup"} /\ request'[r] # request[r]
<1>1. x \in Limiters \X Sources /\ LimiterInv
  BY DEF TypeInv, LimiterInv
<1>2. limiter[x].left \in Nat /\ limiter[x].left > 0
  BY <1>1 DEF LimiterInv, Entry, Refused
<1>3. limiter' # limiter
  BY <1>2
<1>4. NoEntry.left = 0
  BY DEF NoEntry
<1>5. ASSUME NEW r \in Requests, NEW l \in Limiters, NEW src \in Sources, NEW next,
             Allow(r, l, src, next)
      PROVE  FALSE
  <2> DEFINE e == limiter[<<l, src>>]
  <2>1. ~Refused(e) /\ limiter' = [limiter EXCEPT ![<<l, src>>] = Admitted(e)]
    BY <1>3, <1>5 DEF Allow
  <2>2. x # <<l, src>>
    BY <2>1
  <2> QED
    BY <1>1, <1>2, <2>1, <2>2, OtherEntries
<1>6. ASSUME NEW l \in Limiters, NEW src \in Sources, Reset(l, src)
      PROVE  FALSE
  <2>1. limiter'[x] = IF x = <<l, src>> THEN NoEntry ELSE limiter[x]
    BY <1>1, <1>6, OtherEntries DEF Reset
  <2> QED
    BY <1>2, <1>4, <2>1
<1>7. "login" \in Limiters /\ "setup" \in Limiters
  BY DEF Limiters
<1>8. ASSUME NEW r \in Requests, NEW src \in Sources, NEW p \in Passwords,
             LoginArrives(r, src, p) \/ SetupArrives(r, src, p)
      PROVE  FALSE
  BY <1>5, <1>7, <1>8 DEF LoginArrives, SetupArrives
<1>9. ~Tick
  <2>1. Tick => limiter'[x].left <= limiter[x].left /\ limiter'[x].left \in Nat
    BY <1>1, TickLimiter DEF LimiterInv, Entry
  <2> QED
    BY <1>2, <2>1
<1>10. ~Restart
  <2>1. Restart => limiter'[x] = NoEntry
    BY DEF Restart
  <2> QED
    BY <1>2, <1>4, <2>1
<1>11. ASSUME NEW r \in Requests, Step(r)
       PROVE  request[r].at \in {"verify", "setup"} /\ request'[r] # request[r]
  <2>1. request[r] \in Request
    BY DEF TypeInv, RequestInv
  <2>2. ~LoginVerified(r)
    <3>1. LoginVerified(r) => request[r].source \in Sources /\ Reset("login", request[r].source)
      BY <2>1, ReadersRequests DEF LoginVerified, Verifying
    <3> QED
      BY <1>6, <1>7, <3>1
  <2>3. ~SetupForgives(r)
    <3>1. SetupForgives(r) => request[r].source \in Sources /\ Reset("setup", request[r].source)
      BY <2>1, ReadersRequests DEF SetupForgives
    <3> QED
      BY <1>6, <1>7, <3>1
  <2>4. LoginFails(r) \/ SetupCounts(r)
    BY <1>3, <1>11, <2>2, <2>3 DEF Step, LoginReads, LoginUpgrades, LoginCreatesSession,
       SetupChecks, SetupClaims, ChangeAuthenticates, ChangeReads, ChangeSets, ChangeSweeps
  <2>5. request[r].at \in {"verify", "setup"}
    BY <2>4 DEF LoginFails, SetupCounts
  <2>6. CASE LoginFails(r)
    <3>1. request'[r].at = "idle"
      BY <2>6, AnswerAt DEF LoginFails
    <3> QED
      BY <2>5, <3>1
  <2>7. CASE SetupCounts(r)
    <3>1. request[r] \in Attempt /\ request[r].at = "setup"
      BY <2>1, <2>7, ReadersRequests DEF SetupCounts
    <3> DEFINE q == [request[r] EXCEPT !.at = "check"]
    <3>2. q.at = "check" /\ (Answer(r) \/ Go(r, q))
      BY <2>7, <3>1 DEF Attempt, SetupCounts, Answer
    <3> HIDE DEF q
    <3>3. request'[r].at \in {"idle", "check"}
      BY <3>2, GoAt, AnswerAt
    <3> QED
      BY <3>1, <3>3
  <2> QED
    BY <2>4, <2>5, <2>6, <2>7
<1>12. ASSUME NEW r \in Requests, NEW p \in Passwords, NEW q \in Passwords,
              ChangeArrives(r, p, q)
       PROVE  FALSE
  BY <1>3, <1>12 DEF ChangeArrives
<1>13. ~(\E s \in sessions : Logout(s)) /\ ~ReapExpiredSessions
  BY <1>3 DEF Logout, ReapExpiredSessions, memory
<1>14. ~\E n \in TokenNames :
           RevokeToken(n) \/ \E sc \in {"read", "admin"} : CreateToken(n, sc)
  BY <1>3 DEF RevokeToken, CreateToken, memory
<1> QED
  BY <1>8, <1>9, <1>10, <1>11, <1>12, <1>13, <1>14 DEF Next

\* Allow answers a source that is locked without touching its entry
\* (ratelimit.go), so that an operator who keeps trying is not shut out by
\* trying: what prolongs a lock is a request let in before it began.
THEOREM RefusalsDoNotProlong == Spec => LockNotProlonged
<1>1. Spec => []TypeInv
  BY InitTypeInv, TypeInvStep, PTL DEF Spec
<1>2. TypeInv /\ [Next]_vars =>
          [\A x \in DOMAIN limiter :
               (Refused(limiter[x]) /\ limiter'[x].left > limiter[x].left) =>
                   \E r \in Requests : request[r].at \in {"verify", "setup"} /\ request'[r] # request[r]
          ]_vars
  BY LockStep
<1> QED
  BY <1>1, <1>2, PTL DEF Spec, LockNotProlonged
=============================================================================
