\* Races between two requests of two devices: three tokens, one user, no clock;
\* no symmetry, for the liveness of the rotation is checked here too.
SPECIFICATION FairSpec
CONSTANTS
    TokenId = {t1, t2, t3}
    Request = {r1, r2}
    User = {u1}
    Device = {d1, d2}
    Ip = {"ipv4"}
    NoToken = NoToken
    NoDevice = NoDevice
    Never = Never
    TicksPerHour = 1
    TicksPerDay = 4
    REFRESH_TOKEN_EXPIRATION_HOURS = 2
    MAX_SESSION_LIFETIME_HOURS = 3
    REFRESH_TOKEN_INACTIVITY_HOURS = 1
    MAX_REFRESH_ATTEMPTS_PER_DAY = 2
    MaxTime = 0
    MaxFailures = 1
INVARIANTS TypeOK CountedOnce BindingKept
PROPERTIES FirstRevocationStays UsedTokenDies ImplementsLifecycle
CHECK_DEADLOCK FALSE
