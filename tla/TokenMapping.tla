----------------------------- MODULE TokenMapping -----------------------------
(***************************************************************************)
(* TokenMappingService: the opaque ids that stand for a user in an access  *)
(* token, their forward entries in the cache, and the reverse lists by     *)
(* which all the ids of a user id or an auth id can be revoked.  The two   *)
(* lists of a token are kept each under its own key, and tokens of one     *)
(* user share the key of the user id: the token of a registration has that *)
(* id for its auth id too (auth.service.ts:688), the token of a login has  *)
(* the auth record's.  A list is read, merged and written back in separate *)
(* calls of the cache, between which other handlers may run.               *)
(* An entry of the cache carries the time it has left; there is no clock.  *)
(*                                                                         *)
(* The operators whose names end in _Bug are plausible mistakes in the     *)
(* definition that follows them; only the mutation runs use them.          *)
(***************************************************************************)
EXTENDS Integers, FiniteSets

CONSTANTS
    OpaqueId,       \* the uuids the server may draw
    UserId,         \* ids of users
    AuthId,         \* ids of auth records
    Account,        \* the real ids of the tokens that may be signed
    Handler,        \* calls in progress at the same time
    None,           \* no entry
    Forever,        \* the time left to an entry that does not expire
    MAPPING_TTL,    \* TOKEN_MAPPING_TTL_SECONDS, in ticks
    ExtraTtl        \* values of additionalSeconds an extension may ask for

ASSUME MappingAssumption ==
    /\ Account \subseteq [userId : UserId, authId : AuthId \cup UserId]
    /\ MAPPING_TTL \in Nat \ {0}
    /\ ExtraTtl \subseteq Nat

VARIABLES
    mapping,    \* forward: the entry of each opaque id, or None
    reverse,    \* the list under each key, or None
    handler,    \* the state of each call in progress
    owner,      \* history: for whom each opaque id was drawn, or None
    extended,   \* history: the ids whose forward entry has been extended
    overlapped  \* history: the keys two calls have worked on at a time

vars == <<mapping, reverse, handler, owner, extended, overlapped>>

\* getReverseKey, for the two real ids of a token.
Lists == [a \in Account |-> {[kind |-> "userId", id |-> a.userId],
                             [kind |-> "authId", id |-> a.authId]}]

Key == UNION {Lists[a] : a \in Account}

drawn == {o \in OpaqueId : owner[o] # None}

Resolves(o) == mapping[o] # None
ListOf(k) == IF reverse[k] # None THEN reverse[k].ids ELSE {}

\* What set() stores in the cache: with a TTL of 0, an entry that stays.
Lasting(ttl) == IF ttl = 0 THEN Forever ELSE ttl
ForwardEntry(a, ttl) == [account |-> a, left |-> Lasting(ttl)]
ListEntry(ids) == [ids |-> ids, left |-> MAPPING_TTL]

Entry == [account : Account, left : Nat \cup {Forever}]

List == [ids : (SUBSET OpaqueId) \ {{}}, left : 0..MAPPING_TTL]

\* A revocation of the real id of key k, with the entries gone or not yet.
Revocation == [key : Key, done : BOOLEAN]

ASSUME NoneAssumption ==
    /\ None \notin Account \cup Entry \cup List \cup Revocation
    /\ None \notin Nat \cup {Forever}
    /\ Forever \notin Nat

\* InMemoryCacheProvider: an entry past its expiry is no longer there.
Older(entry) ==
    IF entry = None \/ entry.left = 0 THEN None
    ELSE IF entry.left = Forever THEN entry
    ELSE [entry EXCEPT !.left = @ - 1]

-----------------------------------------------------------------------------
Idle == [pc |-> "idle", lists |-> {}]

\* A call of revokeMapping or createMappings about to update the lists ks.
Listing(op, ids, ks) ==
    [pc |-> "listing", op |-> op, ids |-> ids, lists |-> ks,
     seen |-> [k \in Key |-> {}]]

WorksOn(h, k) == k \in handler[h].lists

\* Call h turns to the lists ks.
Enter(h, ks) ==
    overlapped' = overlapped \cup
        {k \in ks : \E g \in Handler \ {h} : WorksOn(g, k)}

Init ==
    /\ mapping = [o \in OpaqueId |-> None]
    /\ reverse = [k \in Key |-> None]
    /\ handler = [h \in Handler |-> Idle]
    /\ owner = [o \in OpaqueId |-> None]
    /\ extended = {}
    /\ overlapped = {}

\* createMappings: two opaque ids, for the user and the auth id of a token; the
\* forward entries are set before the lists are looked at.
CreateMappings(h, a) ==
    /\ handler[h] = Idle
    /\ \E ids \in SUBSET (OpaqueId \ drawn) :
         /\ Cardinality(ids) = 2
         /\ owner' = [o \in OpaqueId |-> IF o \in ids THEN a ELSE owner[o]]
         /\ mapping' = [o \in OpaqueId |->
                          IF o \in ids THEN ForwardEntry(a, MAPPING_TTL)
                          ELSE mapping[o]]
         /\ handler' = [handler EXCEPT ![h] = Listing("create", ids, Lists[a])]
    /\ Enter(h, Lists[a])
    /\ UNCHANGED <<reverse, extended>>

\* revokeMapping resolves the id first; it will touch the lists of its token.
ResolveToRevoke(h, o) ==
    /\ handler[h] = Idle
    /\ Resolves(o)
    /\ handler' = [handler EXCEPT ![h] =
                     [pc |-> "revoke", id |-> o,
                      lists |-> Lists[mapping[o].account]]]
    /\ Enter(h, Lists[mapping[o].account])
    /\ UNCHANGED <<mapping, reverse, owner, extended>>

DeleteMapping(h) ==
    /\ handler[h].pc = "revoke"
    /\ mapping' = [mapping EXCEPT ![handler[h].id] = None]
    /\ handler' = [handler EXCEPT ![h] =
                     Listing("revoke", {handler[h].id}, handler[h].lists)]
    /\ UNCHANGED <<reverse, owner, extended, overlapped>>

\* extendMappingTTL resolves the id as well; it touches no list ...
ResolveToExtend(h, o) ==
    /\ handler[h] = Idle
    /\ Resolves(o)
    /\ handler' = [handler EXCEPT ![h] =
                     [pc |-> "extend", id |-> o, account |-> mapping[o].account,
                      lists |-> {}]]
    /\ UNCHANGED <<mapping, reverse, owner, extended, overlapped>>

\* ... and stores the entry anew, should it have gone since it was read.
ExtendMapping(h) ==
    /\ handler[h].pc = "extend"
    /\ \E additionalSeconds \in ExtraTtl \cup {MAPPING_TTL} :
         mapping' = [mapping EXCEPT ![handler[h].id] =
                       ForwardEntry(handler[h].account, additionalSeconds)]
    /\ extended' = extended \cup {handler[h].id}
    /\ handler' = [handler EXCEPT ![h] = Idle]
    /\ UNCHANGED <<reverse, owner, overlapped>>

\* Promise.all starts the reads of both lists in one turn ...
ReadLists(h) ==
    /\ handler[h].pc = "listing"
    /\ handler' = [handler EXCEPT ![h].pc = "merging",
                     ![h].seen = [k \in Key |-> IF WorksOn(h, k) THEN ListOf(k)
                                                ELSE {}]]
    /\ UNCHANGED <<mapping, reverse, owner, extended, overlapped>>

\* mutant: a new token's ids replace those of the user's other tokens
NewList_Bug(h, k) ==
    IF handler[h].op = "create" THEN handler[h].ids
    ELSE handler[h].seen[k] \ handler[h].ids

NewList(h, k) ==
    IF handler[h].op = "create" THEN handler[h].seen[k] \cup handler[h].ids
    ELSE handler[h].seen[k] \ handler[h].ids

\* What is left of a call that has updated all but the lists ks.
Rest(call, ks) == IF ks = {} THEN Idle ELSE [call EXCEPT !.lists = ks]

\* mutant: a list that becomes empty is stored
WriteList_Bug(h, k) ==
    /\ handler[h].pc = "merging"
    /\ WorksOn(h, k)
    /\ reverse' = [reverse EXCEPT ![k] = ListEntry(NewList(h, k))]
    /\ handler' = [handler EXCEPT ![h] = Rest(@, @.lists \ {k})]
    /\ UNCHANGED <<mapping, owner, extended, overlapped>>

\* ... and each is written back when its read is answered.  Of a revocation, a
\* list it has not found is left alone and one that becomes empty deleted.
WriteList(h, k) ==
    /\ handler[h].pc = "merging"
    /\ WorksOn(h, k)
    /\ reverse' = [reverse EXCEPT ![k] =
         IF NewList(h, k) # {} THEN ListEntry(NewList(h, k))
         ELSE IF handler[h].seen[k] # {} THEN None ELSE @]
    /\ handler' = [handler EXCEPT ![h] = Rest(@, @.lists \ {k})]
    /\ UNCHANGED <<mapping, owner, extended, overlapped>>

\* revokeMappingsByRealId: read the list of one real id, of whatever tokens ...
FindAll(h, k) ==
    /\ handler[h] = Idle
    /\ ListOf(k) # {}
    /\ handler' = [handler EXCEPT ![h] =
                     [pc |-> "deleting", key |-> k, ids |-> ListOf(k),
                      lists |-> {k}]]
    /\ Enter(h, {k})
    /\ UNCHANGED <<mapping, reverse, owner, extended>>

\* mutant: only one id of the list loses its entry
DeleteAll_Bug(h) ==
    /\ handler[h].pc = "deleting"
    /\ mapping' = [mapping EXCEPT ![CHOOSE o \in handler[h].ids : TRUE] = None]
    /\ handler' = [handler EXCEPT ![h].pc = "dropping"]
    /\ UNCHANGED <<reverse, owner, extended, overlapped>>

\* ... delete the forward entry of every id on it, all of them in one turn ...
DeleteAll(h) ==
    /\ handler[h].pc = "deleting"
    /\ mapping' = [o \in OpaqueId |->
                     IF o \in handler[h].ids THEN None ELSE mapping[o]]
    /\ handler' = [handler EXCEPT ![h].pc = "dropping"]
    /\ UNCHANGED <<reverse, owner, extended, overlapped>>

\* ... and the list; another list that names these ids stays as it is.
DropList(h) ==
    /\ handler[h].pc = "dropping"
    /\ reverse' = [reverse EXCEPT ![handler[h].key] = None]
    /\ handler' = [handler EXCEPT ![h] = Idle]
    /\ UNCHANGED <<mapping, owner, extended, overlapped>>

Tick ==
    /\ mapping' = [o \in OpaqueId |-> Older(mapping[o])]
    /\ reverse' = [k \in Key |-> Older(reverse[k])]
    /\ UNCHANGED <<handler, owner, extended, overlapped>>

Next ==
    \/ \E h \in Handler, a \in Account : CreateMappings(h, a)
    \/ \E h \in Handler, o \in OpaqueId : ResolveToRevoke(h, o)
    \/ \E h \in Handler, o \in OpaqueId : ResolveToExtend(h, o)
    \/ \E h \in Handler : DeleteMapping(h)
    \/ \E h \in Handler : ExtendMapping(h)
    \/ \E h \in Handler : ReadLists(h)
    \/ \E h \in Handler, k \in Key : WriteList(h, k)
    \/ \E h \in Handler, k \in Key : FindAll(h, k)
    \/ \E h \in Handler : DeleteAll(h)
    \/ \E h \in Handler : DropList(h)
    \/ Tick

Spec == Init /\ [][Next]_vars

-----------------------------------------------------------------------------
(* Properties                                                              *)

Call ==
    [pc : {"listing", "merging"}, op : {"create", "revoke"},
     ids : (SUBSET OpaqueId) \ {{}}, lists : (SUBSET Key) \ {{}},
     seen : [Key -> SUBSET OpaqueId]]
    \cup [pc : {"revoke"}, id : OpaqueId, lists : (SUBSET Key) \ {{}}]
    \cup [pc : {"extend"}, id : OpaqueId, account : Account, lists : {{}}]
    \cup UNION {[pc : {"deleting", "dropping"}, key : {k},
                 ids : (SUBSET OpaqueId) \ {{}}, lists : {{k}}] : k \in Key}

\* Every variable has its type; in particular no list is stored empty, which
\* revokeMapping takes care of (l.283-287).
TypeOK ==
    /\ mapping \in [OpaqueId -> Entry \cup {None}]
    /\ reverse \in [Key -> List \cup {None}]
    /\ handler \in [Handler -> Call \cup {Idle}]
    /\ owner \in [OpaqueId -> Account \cup {None}]
    /\ extended \subseteq drawn
    /\ overlapped \subseteq Key

Settled(k) == \A h \in Handler : ~WorksOn(h, k)

\* Both real ids of a token lead to the opaque ids of it that still resolve: they
\* are on the list of each, once no call is at work on that list.  It outlives the
\* entries it names (l.164, 284), through creations and revocations, of this and
\* of the other tokens that share it, in any order.  Only calls that overlap on
\* the list, or an extension, break it.
ListComplete ==
    \A o \in OpaqueId \ extended :
        Resolves(o) =>
          \A k \in Lists[mapping[o].account] \ overlapped :
              Settled(k) => o \in ListOf(k)

\* When revokeMappingsByRealId returns, no opaque id of that real id resolves any
\* more, whatever tokens it was drawn for (l.217 "Revokes all token mappings for a
\* given real ID"), under the same two exceptions.  Of the user's other real id
\* nothing is said: revoking by the auth id leaves the token of a registration.
RevocationComplete ==
    [][\A h \in Handler :
          /\ DropList(h)
          /\ handler[h].key \notin overlapped
          => \A o \in OpaqueId \ extended :
               Resolves(o) => handler[h].key \notin Lists[mapping[o].account]]_vars

-----------------------------------------------------------------------------
(* The abstract service that this one implements                           *)

SweepOf(call) ==
    IF call.pc \in {"deleting", "dropping"}
    THEN [key |-> call.key, done |-> call.pc = "dropping"]
    ELSE None

Life == [o \in OpaqueId |-> IF Resolves(o) THEN mapping[o].left ELSE None]

Sweeps == [h \in Handler |-> SweepOf(handler[h])]

Ids == INSTANCE OpaqueIds
       WITH RealIds <- Lists, RealId <- Key, life <- Life, sweep <- Sweeps,
            ExtraLife <- {Lasting(ttl) : ttl \in ExtraTtl \cup {MAPPING_TTL}}

\* Although a revocation reads a list, deletes entries one after the other and
\* drops the list, and creations merge lists that they have read before and that
\* the tokens of a user share (l.140-172, 215-249), the service behaves as
\* OpaqueIds does, which takes all ids of a real id in one step: no id is lost
\* before its time, revives, changes hands or is revoked with those of somebody
\* else.
ImplementsOpaqueIds == Ids!Spec
=============================================================================
