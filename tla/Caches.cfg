\* One user, a second of two ticks, one key of each kind, at most four calls
\* or changes of a document.
SPECIFICATION Spec
CONSTANTS
    Key = {ka, ku, kr}
    AuthKey = {ka}
    UserKey = {ku}
    RolesKey = {kr}
    PageKey = {kp}
    None = None
    NoRoles = NoRoles
    Data = {p1}
    AuthTtl = {0, 1}
    Caller = {c1, c2}
    Reader = {h1, h2}
    Second = 2
    UserTtl = 1
    RolesTtl = 1
    PageTtl = 1
    MaxVersion = 1
    MaxFill = 1
    MaxTime = 5
    MaxCalls = 4
SYMMETRY Symmetry
CHECK_DEADLOCK FALSE
INVARIANTS TypeOK ServedWithinGrant InvalidatedStaysOut StaleBounded
