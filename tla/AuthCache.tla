------------------------------ MODULE AuthCache ------------------------------
(***************************************************************************)
(* AuthCacheService: the authentication data of a user, with an expiry of  *)
(* its own beside the provider's.  A call awaits between the read of the   *)
(* entry, the test of its expiry and the write, and others run meanwhile.  *)
(*                                                                         *)
(* The operators whose names end in _Bug are plausible mistakes in the     *)
(* definition that follows them; only the mutation runs use them.          *)
(***************************************************************************)
EXTENDS CacheProvider

CONSTANTS
    AuthKey,    \* the keys auth:<userId>, one for each user
    Data,       \* permissions, roles, estates of a user
    AuthTtl,    \* the ttls callers give, in seconds
    Caller      \* calls in progress

ASSUME AuthAssumption ==
    AuthKey \subseteq Key /\ AuthTtl \subseteq Nat /\ None \notin Data

VARIABLES
    caller,     \* the state of each call
    granted,    \* history: the ends of the lives that setUserData has given
    closed      \* history: the users invalidated, with no update at work on
                \* them, and not set since

authVars == <<caller, granted, closed>>

AuthIdle == [pc |-> "idle"]

AuthEntry == [data : Data, expiresAt : Nat]

\* getUserData has been answered by the cache, alone or inside
\* updateUserData, which then has data to merge.
Checking == [pc : {"check"}, key : AuthKey, entry : AuthEntry,
             update : Data \cup {None}]
Merging == [pc : {"merge"}, key : AuthKey, entry : AuthEntry, update : Data]
Served == [pc : {"served"}, key : AuthKey, entry : AuthEntry, at : Nat]

AuthInit ==
    /\ caller = [c \in Caller |-> AuthIdle]
    /\ granted = [k \in AuthKey |-> {}]
    /\ closed = {}

\* An updateUserData has read the entry of this user and may write it.
UpdateAtWork(k) ==
    \E c \in Caller :
        /\ caller[c].pc \in {"check", "merge"}
        /\ caller[c].key = k /\ caller[c].update # None

\* mutant: the entry expires when the provider says so, and not before
Stale_Bug(entry) == FALSE

Stale(entry) == now > entry.expiresAt

-----------------------------------------------------------------------------
SetUserData(k, data, ttl) ==
    /\ Store(k, [data |-> data, expiresAt |-> now + ttl * Second], ttl)
    /\ granted' = [granted EXCEPT ![k] = @ \cup {now + ttl * Second}]
    /\ closed' = closed \ {k}
    /\ UNCHANGED caller

\* invalidateMultipleUsers, and invalidateUserData for a set of one; del of
\* the provider never fails.
InvalidateUsers(ks) ==
    /\ Drop(ks)
    /\ closed' = closed \cup {k \in ks : ~UpdateAtWork(k)}
    /\ UNCHANGED <<caller, granted>>

\* hasUserData: the answer is the provider's, whatever expiresAt says.
HasUserData(k) == Look(k) /\ UNCHANGED authVars

\* mutant: an update that finds no entry goes on with none
ReadUserData_Bug(c, k, update) ==
    /\ caller[c] = AuthIdle
    /\ Look(k)
    /\ caller' = [caller EXCEPT ![c] =
                    IF Peek(k) # None
                    THEN [pc |-> "check", key |-> k, entry |-> Peek(k),
                          update |-> update]
                    ELSE IF update = None THEN AuthIdle
                    ELSE [pc |-> "merge", key |-> k, update |-> update,
                          entry |-> [data |-> update, expiresAt |-> now]]]
    /\ UNCHANGED <<granted, closed>>

\* The first step of getUserData and updateUserData; a miss ends both.
ReadUserData(c, k, update) ==
    /\ caller[c] = AuthIdle
    /\ Look(k)
    /\ caller' = [caller EXCEPT ![c] =
                    IF Peek(k) = None THEN AuthIdle
                    ELSE [pc |-> "check", key |-> k, entry |-> Peek(k),
                          update |-> update]]
    /\ UNCHANGED <<granted, closed>>

\* The rest of getUserData: drop what has expired, or go on with the data.
CheckUserData(c) ==
    /\ caller[c].pc = "check"
    /\ LET r == caller[c] IN
       \/ /\ Stale(r.entry)
          /\ Drop({r.key})
          /\ caller' = [caller EXCEPT ![c] = AuthIdle]
       \/ /\ ~Stale(r.entry)
          /\ caller' = [caller EXCEPT ![c] =
                IF r.update = None
                THEN [pc |-> "served", key |-> r.key, entry |-> r.entry,
                      at |-> now]
                ELSE [pc |-> "merge", key |-> r.key, entry |-> r.entry,
                      update |-> r.update]]
          /\ UNCHANGED cache
    /\ UNCHANGED <<granted, closed>>

\* The whole seconds that an entry has left, never fewer than 0.
RemainingTtl(entry) ==
    IF now < entry.expiresAt THEN (entry.expiresAt - now) \div Second ELSE 0

\* mutant: the update is stored with a life of its own
MergeUserData_Bug(c) ==
    /\ caller[c].pc = "merge"
    /\ \E ttl \in AuthTtl :
         Store(caller[c].key, [data |-> caller[c].update,
                               expiresAt |-> now + ttl * Second], ttl)
    /\ caller' = [caller EXCEPT ![c] = AuthIdle]
    /\ UNCHANGED <<granted, closed>>

\* The rest of updateUserData: the entry read, with the updates, for the rest
\* of its life.
MergeUserData(c) ==
    /\ caller[c].pc = "merge"
    /\ LET r == caller[c] IN
       Store(r.key, [data |-> r.update, expiresAt |-> r.entry.expiresAt],
             RemainingTtl(r.entry))
    /\ caller' = [caller EXCEPT ![c] = AuthIdle]
    /\ UNCHANGED <<granted, closed>>

\* The caller of getUserData is done with what it was given.
Return(c) ==
    /\ caller[c].pc = "served"
    /\ caller' = [caller EXCEPT ![c] = AuthIdle]
    /\ UNCHANGED <<cache, granted, closed>>

AuthCall ==
    \/ \E k \in AuthKey, data \in Data, ttl \in AuthTtl :
         SetUserData(k, data, ttl)
    \/ \E ks \in SUBSET AuthKey \ {{}} : InvalidateUsers(ks)
    \/ \E k \in AuthKey : HasUserData(k)
    \/ \E c \in Caller, k \in AuthKey, update \in Data \cup {None} :
         ReadUserData(c, k, update)

AuthStep ==
    \E c \in Caller : CheckUserData(c) \/ MergeUserData(c) \/ Return(c)

-----------------------------------------------------------------------------
(* Properties                                                              *)

AuthTypeOK ==
    /\ \A k \in AuthKey : cache[k] \in
         [value : AuthEntry, expiry : Nat \cup {None}] \cup {None}
    /\ caller \in [Caller -> Checking \cup Merging \cup Served \cup {AuthIdle}]
    /\ granted \in [AuthKey -> SUBSET Nat]
    /\ closed \subseteq AuthKey

\* getUserData (l.132) serves data only within a life that setUserData gave
\* it, whatever updates renewed the entry since and though an update of its
\* last second stores it without expiry (l.333, in-memory-cache l.43).
ServedWithinGrant ==
    \A c \in Caller : caller[c].pc = "served" =>
        /\ caller[c].at <= caller[c].entry.expiresAt
        /\ caller[c].entry.expiresAt \in granted[caller[c].key]

\* invalidateUserData forces "the next request to fetch fresh data from the
\* database" (l.205): once it returns, and no update was at work on the user,
\* the data stay out until they are set again, whatever reads are under way
\* and whatever updates follow (l.322).  An update that has read the entry
\* before brings the old data back (l.321-338).
InvalidatedStaysOut == \A k \in closed : ~Has(k)
=============================================================================
