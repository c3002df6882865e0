\* Two tokens of one user on one device, two requests, an hour of two
\* ticks, a cache entry of one.
SPECIFICATION Spec
CONSTANTS
    SessionId = {s1, s2}
    Jti = {j1, j2}
    User = {u1}
    Device = {d1}
    Issuer = {l1, l2}
    Request = {r1, r2}
    None = None
    Never = Never
    TOKEN_TTL = 2
    SESSION_TTL = 2
    CACHE_TTL = 1
    NEGATIVE_TTL = 1
    MaxTime = 3
SYMMETRY Symmetry
CHECK_DEADLOCK FALSE
INVARIANTS TypeOK SessionOutlivesToken RejectionIsFinal StaleAcceptanceBounded
PROPERTIES ClosedStaysClosed ImplementsGate
