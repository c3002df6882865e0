\* Two registrations at a time, of two emails and a phone in its normal form,
\* one call failing; one login at a time, with any form of the number.
SPECIFICATION LoginFairSpec
CONSTANTS
    Email = {e1, e2}
    Phone <- Phones1
    Number <- Numbers
    UserId = {u1, u2}
    Request = {r1, r2}
    Login = {l1}
    None = None
    MaxFailures = 1
CHECK_DEADLOCK FALSE
INVARIANTS EmailIsOneAccount LoginTypeOK RightAccount OwnerNotRefused
PROPERTIES EmailUserCanLogIn ImplementsAccounts
