\* The clock: hourly ticks, tokens that expire, sessions that reach their
\* maximum lifetime, reuse hidden behind inactivity; two users and two classes
\* of address, one request at a time.
SPECIFICATION Spec
CONSTANTS
    TokenId = {t1, t2, t3}
    Request = {r1}
    User = {u1, u2}
    Device = {}
    Ip = {"ipv4", "ipv6"}
    NoToken = NoToken
    NoDevice = NoDevice
    Never = Never
    TicksPerHour = 1
    TicksPerDay = 3
    REFRESH_TOKEN_EXPIRATION_HOURS = 2
    MAX_SESSION_LIFETIME_HOURS = 3
    REFRESH_TOKEN_INACTIVITY_HOURS = 1
    MAX_REFRESH_ATTEMPTS_PER_DAY = 2
    MaxTime = 5
    MaxFailures = 1
SYMMETRY Symmetry
CHECK_DEADLOCK FALSE
INVARIANTS BindingKept SessionPreserved UsedInTime
