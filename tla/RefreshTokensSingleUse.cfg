\* Two requests trade one token.
SPECIFICATION Spec
CONSTANTS
    TokenId = {t1, t2, t3}
    Request = {r1, r2}
    User = {u1}
    Device = {}
    Ip = {"ipv4"}
    NoToken = NoToken
    NoDevice = NoDevice
    Never = Never
    TicksPerHour = 2
    TicksPerDay = 6
    REFRESH_TOKEN_EXPIRATION_HOURS = 2
    MAX_SESSION_LIFETIME_HOURS = 3
    REFRESH_TOKEN_INACTIVITY_HOURS = 1
    MAX_REFRESH_ATTEMPTS_PER_DAY = 2
    MaxTime = 0
    MaxFailures = 0
CHECK_DEADLOCK FALSE
INVARIANT SingleUse
