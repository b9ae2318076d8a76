SPECIFICATION Spec
CONSTANTS
    Requests = {r1, r2}
    Sources = {"desk"}
    Passwords = {p1, p2}
    Pinned = FALSE
    TokenNames = {"ci"}
    MaxFailures = 2
    MaxSetups = 2
    Window = 1
    Lockout = 2
    SessionTTL = 1
    MaxVersion = 2
    MaxSessions = 1
INVARIANTS TypeOK SetupOnce OldSessionsGone
PROPERTY LockNotProlonged
SYMMETRY Interchangeable
