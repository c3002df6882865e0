----------------------------- MODULE ReadThrough -----------------------------
(***************************************************************************)
(* The three caches that keep what they read: UserService.getUserInfo by   *)
(* getOrSet, the roles that JwtStrategy attaches, and the answers that     *)
(* AdminCacheInterceptor keeps in a map of its own.  Whoever changes a     *)
(* document tells no cache.  A key is written by what was read before:     *)
(* reading and storing are steps of their own.                             *)
(*                                                                         *)
(* The operators whose names end in _Bug are plausible mistakes in the     *)
(* definition that follows them; only the mutation runs use them.          *)
(***************************************************************************)
EXTENDS CacheProvider

CONSTANTS
    UserKey,    \* user_info:<userId>
    RolesKey,   \* the roles cache, by authId
    PageKey,    \* admin:<userId>:<url>, of GET requests
    NoRoles,    \* the empty list of roles
    UserTtl, RolesTtl, PageTtl,     \* in seconds
    Reader,     \* requests in progress
    MaxVersion, \* bound on the changes of a document
    MaxFill     \* ticks: a handler stores what it read within this time

ViewKey == UserKey \cup RolesKey \cup PageKey

Version == 0 .. MaxVersion

ASSUME ViewAssumption ==
    /\ UserKey \cup RolesKey \subseteq Key
    /\ UserKey \cap RolesKey = {} /\ PageKey \cap Key = {}
    /\ UserTtl \in Nat \ {0} /\ RolesTtl \in Nat \ {0} /\ PageTtl \in Nat \ {0}
    /\ MaxVersion \in Nat /\ MaxFill \in Nat
    /\ NoRoles \notin Version \cup {None}

VARIABLES
    doc,        \* the document behind each key: its version, None if deleted
    replacedAt, \* history: when each version ceased to be the current one
    pages,      \* the map of AdminCacheInterceptor
    reader      \* the state of each request

viewVars == <<doc, replacedAt, pages, reader>>

ReadIdle == [pc |-> "idle"]

Looking == [pc : {"exists", "read"}, key : UserKey]
           \cup [pc : {"read"}, key : RolesKey, attempt : {0, 1}]
           \cup [pc : {"read"}, key : PageKey]

\* readAt is history.
Filling == [pc : {"fill"}, key : ViewKey,
            value : Version \cup {None, NoRoles}, readAt : Nat]

\* A user who registered and did not log in has no Auth document (JwtStrategy
\* then looks one up by the user's id): None from the start.
ViewInit ==
    /\ doc \in [ViewKey -> {0, None}]
    /\ \A k \in UserKey \cup PageKey : doc[k] = 0
    /\ replacedAt = [k \in ViewKey |-> [v \in Version |-> None]]
    /\ pages = [k \in PageKey |-> None]
    /\ reader = [h \in Reader |-> ReadIdle]

\* What a fresh read of the document shows.
Shown(k) == IF k \in RolesKey /\ doc[k] = None THEN NoRoles ELSE doc[k]

Ttl(k) == IF k \in UserKey THEN UserTtl
          ELSE IF k \in RolesKey THEN RolesTtl ELSE PageTtl

\* What a request of this key is answered without a read, or None.
Answer(k) ==
    IF k \in PageKey
    THEN IF pages[k] # None /\ pages[k].expiresAt > now
         THEN pages[k].value ELSE None
    ELSE Peek(k)

-----------------------------------------------------------------------------
(* The documents, changed by other parts of the system                     *)

WriteDoc(k) ==
    /\ doc[k] \in 0 .. MaxVersion - 1
    /\ doc' = [doc EXCEPT ![k] = @ + 1]
    /\ replacedAt' = [replacedAt EXCEPT ![k][doc[k]] = now]
    /\ UNCHANGED <<cache, pages, reader>>

DeleteDoc(k) ==
    /\ doc[k] # None
    /\ doc' = [doc EXCEPT ![k] = None]
    /\ replacedAt' = [replacedAt EXCEPT ![k][doc[k]] = now]
    /\ UNCHANGED <<cache, pages, reader>>

-----------------------------------------------------------------------------
(* getUserInfo: getOrSet around findOneOrThrowException, which reads twice *)

LookUpUser(h, k) ==
    /\ reader[h] = ReadIdle
    /\ Look(k)
    /\ reader' = [reader EXCEPT ![h] =
                    IF Peek(k) # None THEN ReadIdle
                    ELSE [pc |-> "exists", key |-> k]]
    /\ UNCHANGED <<doc, replacedAt, pages>>

\* The first findOne; without a document the call throws.
FindUser(h) ==
    /\ reader[h].pc = "exists"
    /\ reader' = [reader EXCEPT ![h] =
                    IF doc[reader[h].key] = None THEN ReadIdle
                    ELSE [pc |-> "read", key |-> reader[h].key]]
    /\ UNCHANGED <<cache, doc, replacedAt, pages>>

-----------------------------------------------------------------------------
(* attachRoles and AdminCacheInterceptor                                   *)

LookUpRoles(h, k) ==
    /\ reader[h] = ReadIdle
    /\ Look(k)
    /\ reader' = [reader EXCEPT ![h] =
                    IF Peek(k) # None THEN ReadIdle
                    ELSE [pc |-> "read", key |-> k, attempt |-> 0]]
    /\ UNCHANGED <<doc, replacedAt, pages>>

\* mutant: the roles that stand in for those not read are cached as well
FailToRead_Bug(h) ==
    /\ reader[h].pc = "read" /\ reader[h].key \in RolesKey
    /\ reader' = [reader EXCEPT ![h] =
                    IF reader[h].attempt = 0 THEN [@ EXCEPT !.attempt = 1]
                    ELSE [pc |-> "fill", key |-> reader[h].key,
                          value |-> NoRoles, readAt |-> now]]
    /\ UNCHANGED <<cache, doc, replacedAt, pages>>

\* The database fails a read of the roles, which is made once more; then the
\* request goes on, as Administrator if its token says ADMIN, with no roles
\* otherwise, and nothing is cached.
FailToRead(h) ==
    /\ reader[h].pc = "read" /\ reader[h].key \in RolesKey
    /\ reader' = [reader EXCEPT ![h] =
                    IF reader[h].attempt = 0 THEN [@ EXCEPT !.attempt = 1]
                    ELSE ReadIdle]
    /\ UNCHANGED <<cache, doc, replacedAt, pages>>

\* An expired page is not removed, only written over.
LookUpPage(h, k) ==
    /\ reader[h] = ReadIdle
    /\ reader' = [reader EXCEPT ![h] =
                    IF Answer(k) # None THEN ReadIdle
                    ELSE [pc |-> "read", key |-> k]]
    /\ UNCHANGED <<cache, doc, replacedAt, pages>>

-----------------------------------------------------------------------------
(* The read that fills the entry, and the write                            *)

Read(h) ==
    /\ reader[h].pc = "read"
    /\ reader' = [reader EXCEPT ![h] =
                    [pc |-> "fill", key |-> reader[h].key,
                     value |-> Shown(reader[h].key), readAt |-> now]]
    /\ UNCHANGED <<cache, doc, replacedAt, pages>>

\* mutant: the ttl is not handed on to the provider
FillEntry_Bug(h) ==
    /\ reader[h].pc = "fill"
    /\ LET k == reader[h].key IN
       IF k \in PageKey
       THEN /\ pages' = [pages EXCEPT ![k] =
                           [value |-> reader[h].value,
                            expiresAt |-> now + PageTtl * Second]]
            /\ UNCHANGED cache
       ELSE /\ Store(k, reader[h].value, 0)
            /\ UNCHANGED pages
    /\ reader' = [reader EXCEPT ![h] = ReadIdle]
    /\ UNCHANGED <<doc, replacedAt>>

FillEntry(h) ==
    /\ reader[h].pc = "fill"
    /\ LET k == reader[h].key IN
       IF k \in PageKey
       THEN /\ pages' = [pages EXCEPT ![k] =
                           [value |-> reader[h].value,
                            expiresAt |-> now + PageTtl * Second]]
            /\ UNCHANGED cache
       ELSE /\ Store(k, reader[h].value, Ttl(k))
            /\ UNCHANGED pages
    /\ reader' = [reader EXCEPT ![h] = ReadIdle]
    /\ UNCHANGED <<doc, replacedAt>>

\* Assumption on time: no handler takes longer than MaxFill from its read to
\* its write.
InTime == \A h \in Reader :
              reader[h].pc = "fill" => now < reader[h].readAt + MaxFill

ViewCall ==
    \/ \E k \in ViewKey : WriteDoc(k) \/ DeleteDoc(k)
    \/ \E h \in Reader :
         \/ \E k \in UserKey : LookUpUser(h, k)
         \/ \E k \in RolesKey : LookUpRoles(h, k)
         \/ \E k \in PageKey : LookUpPage(h, k)

ViewStep ==
    \E h \in Reader : FindUser(h) \/ FailToRead(h) \/ Read(h) \/ FillEntry(h)

-----------------------------------------------------------------------------
(* Properties                                                              *)

ViewTypeOK ==
    /\ doc \in [ViewKey -> Version \cup {None}]
    /\ replacedAt \in [ViewKey -> [Version -> Nat \cup {None}]]
    /\ \A k \in UserKey \cup RolesKey : cache[k] \in
         [value : Version \cup {None, NoRoles}, expiry : Nat] \cup {None}
    /\ pages \in [PageKey -> [value : Version \cup {None, NoRoles},
                              expiresAt : Nat] \cup {None}]
    /\ reader \in [Reader -> Looking \cup Filling \cup {ReadIdle}]

\* Whatever a cache answers is what the database holds, or was so until the
\* time to live of the cache and the time of one fill ago: a fill that lost a
\* race with a write, or with another fill, is not kept longer than that
\* (cache.services l.65-68, jwt.strategy l.209-216), and what stands in for
\* roles that could not be read is never answered to anyone else (l.228).
StaleBounded ==
    \A k \in ViewKey :
        Answer(k) \notin {None, Shown(k)} =>
            /\ Answer(k) \in Version
            /\ replacedAt[k][Answer(k)] # None
            /\ now <= replacedAt[k][Answer(k)] + MaxFill + Ttl(k) * Second
=============================================================================
