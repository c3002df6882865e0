\* A number registered with its spaces and its zero, and typed again just so.
SPECIFICATION LoginSpec
CONSTANTS
    Email = {e1}
    Phone <- Phones2
    Number <- Numbers
    UserId = {u1, u2}
    Request = {r1, r2}
    Login = {l1}
    None = None
    MaxFailures = 0
CHECK_DEADLOCK FALSE
INVARIANTS PhoneNotRefused
