\* Two calls at a time on two tokens of two opaque ids each, of a user's registration
\* and login or of another user; calls may overlap on the list the first two share.
SPECIFICATION Spec
CONSTANTS
    OpaqueId = {o1, o2, o3, o4}
    u1 = u1
    u2 = u2
    x1 = x1
    UserId = {u1, u2}
    AuthId = {x1}
    Account <- Accounts
    Handler = {h1, h2}
    None = None
    Forever = Forever
    MAPPING_TTL = 1
    ExtraTtl = {0}
SYMMETRY Symmetry
CONSTRAINT FewExceptions
CHECK_DEADLOCK FALSE
INVARIANTS TypeOK ListComplete
PROPERTIES RevocationComplete ImplementsOpaqueIds
