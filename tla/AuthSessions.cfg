SPECIFICATION Spec
CONSTANTS
    Emails = {e1}
    Passwords = {p1, p2}
    UserIds = {u1, u2}
    Tokens = {t1, t2, t3}
    Requests = {r1, r2, r3}
    TTL = 2
    MaxTime = 3
    NULL = NULL
SYMMETRY Symmetry
INVARIANTS
    SessionSafety
    DeadTokensStayDead
PROPERTY
    ImplementsLifecycle
CHECK_DEADLOCK FALSE
