----------------------------- MODULE CachesProofs -----------------------------
(***************************************************************************)
(* What holds of the caches in every reachable state, for any number of    *)
(* users, keys, calls and requests.  The invariant says where every value  *)
(* in a cache, or on its way into one, comes from: each entry of a user    *)
(* ends with a life that setUserData gave it, and each value read from the *)
(* database is the current one or was so when it was read.                 *)
(***************************************************************************)
EXTENDS Caches, TLAPS

Life(k) == Ttl(k) * Second

\* The value of key k is what the database holds, or did at time t.
Traced(k, v, t) ==
    \/ v \in {None, Shown(k)}
    \/ v \in Version /\ replacedAt[k][v] # None /\ t <= replacedAt[k][v]

\* An entry of key k that is answered until time e.
Fresh(k, v, e) ==
    /\ e <= now + Life(k)
    /\ Traced(k, v, e - MaxFill - Life(k))

CacheOK == now \in Nat /\ calls \in Nat /\ cache = [k \in Key |-> cache[k]]

AuthEntriesOK ==
    \A k \in AuthKey : cache[k] # None =>
        /\ cache[k] \in [value : AuthEntry, expiry : Nat \cup {None}]
        /\ cache[k].value.expiresAt \in granted[k]

GrantedOK == granted \in [AuthKey -> SUBSET Nat] /\ closed \subseteq AuthKey

CallersOK ==
    /\ caller \in [Caller -> Checking \cup Merging \cup Served \cup {AuthIdle}]
    /\ \A c \in Caller : caller[c] # AuthIdle =>
          caller[c].entry.expiresAt \in granted[caller[c].key]
    /\ \A c \in Caller : caller[c].pc = "served" =>
          caller[c].at <= caller[c].entry.expiresAt

ClosedOK == \A k \in closed : ~Has(k) /\ ~UpdateAtWork(k)

AuthInv == AuthEntriesOK /\ GrantedOK /\ CallersOK /\ ClosedOK

DocsOK ==
    /\ doc \in [ViewKey -> Version \cup {None}]
    /\ replacedAt \in [ViewKey -> [Version -> Nat \cup {None}]]

ViewEntriesOK ==
    \A k \in UserKey \cup RolesKey : cache[k] # None =>
        /\ cache[k] \in [value : Version \cup {None, NoRoles}, expiry : Nat]
        /\ Fresh(k, cache[k].value, cache[k].expiry)

PagesOK ==
    /\ pages \in [PageKey -> [value : Version \cup {None, NoRoles},
                              expiresAt : Nat] \cup {None}]
    /\ \A k \in PageKey : pages[k] # None =>
          Fresh(k, pages[k].value, pages[k].expiresAt)

ReadersOK ==
    /\ reader \in [Reader -> Looking \cup Filling \cup {ReadIdle}]
    /\ \A h \in Reader : reader[h].pc = "fill" =>
          /\ reader[h].readAt <= now /\ now <= reader[h].readAt + MaxFill
          /\ Traced(reader[h].key, reader[h].value, reader[h].readAt)

ViewInv == DocsOK /\ ViewEntriesOK /\ PagesOK /\ ReadersOK

IInv == CacheOK /\ AuthInv /\ ViewInv

-----------------------------------------------------------------------------
(* Lemmas: arithmetic, the provider                                        *)

\* Times are whole numbers, and remaining lives never negative.
LEMMA Product == ASSUME NEW a \in Nat, NEW b \in Nat PROVE a * b \in Nat
  BY SMT

LEMMA Quotient == ASSUME NEW a \in Nat, NEW b \in Nat \ {0} PROVE a \div b \in Nat
  BY SMT

LEMMA LifeNat == ASSUME NEW k PROVE Life(k) \in Nat
  BY Product, ViewAssumption, ProviderAssumption DEF Life, Ttl

LEMMA RemainingNat ==
    ASSUME now \in Nat, NEW entry \in AuthEntry PROVE RemainingTtl(entry) \in Nat
  <1>1. entry.expiresAt \in Nat
    BY DEF AuthEntry
  <1>2. CASE now < entry.expiresAt
    <2>1. entry.expiresAt - now \in Nat
      BY <1>1, <1>2
    <2> QED
      BY <1>2, <2>1, Quotient, ProviderAssumption DEF RemainingTtl
  <1>3. CASE ~(now < entry.expiresAt)
    BY <1>3 DEF RemainingTtl
  <1> QED
    BY <1>2, <1>3

\* Looking an entry up keeps it or drops it, and no other.
LEMMA LookEffect ==
    ASSUME cache = [j \in Key |-> cache[j]], NEW k \in Key, Look(k)
    PROVE  /\ cache' = [j \in Key |-> cache'[j]]
           /\ \A j \in Key : cache'[j] \in {cache[j], None}
           /\ \A j \in Key : j # k => cache'[j] = cache[j]
  BY DEF Look

\* Dropping entries drops these.
LEMMA DropEffect ==
    ASSUME NEW ks, Drop(ks)
    PROVE  /\ cache' = [j \in Key |-> cache'[j]]
           /\ \A j \in Key : cache'[j] \in {cache[j], None}
           /\ \A j \in Key \cap ks : cache'[j] = None
           /\ \A j \in Key \ ks : cache'[j] = cache[j]
  BY DEF Drop

\* Storing an entry writes this one.
LEMMA StoreEffect ==
    ASSUME cache = [j \in Key |-> cache[j]], NEW k \in Key, NEW v, NEW ttl \in Nat,
           now \in Nat, Store(k, v, ttl)
    PROVE  /\ cache' = [j \in Key |-> cache'[j]]
           /\ \A j \in Key : j # k => cache'[j] = cache[j]
           /\ cache'[k] = [value |-> v,
                           expiry |-> IF ttl > 0 THEN now + ttl * Second ELSE None]
           /\ ttl * Second \in Nat
  BY Product, ProviderAssumption DEF Store

\* The keys of the users of the cache are different.
LEMMA Keys ==
    /\ AuthKey \subseteq Key
    /\ UserKey \cup RolesKey \subseteq Key \ AuthKey
    /\ PageKey \cap Key = {}
    /\ ViewKey = UserKey \cup RolesKey \cup PageKey
    /\ None # NoRoles /\ None \notin Int /\ NoRoles \notin Version
    /\ None \notin Version
  BY KeyAssumption, AuthAssumption, ViewAssumption, ProviderAssumption
     DEF ViewKey, Version

-----------------------------------------------------------------------------
(* What an action leaves alone                                             *)

\* AuthInv holds on when entries are only kept or dropped.
LEMMA AuthKept ==
    ASSUME AuthInv, CacheOK, UNCHANGED authVars,
           \A k \in AuthKey : cache'[k] \in {cache[k], None}
    PROVE  AuthInv'
  <1> USE DEF AuthInv, authVars
  <1>1. AuthEntriesOK'
    BY DEF AuthEntriesOK, AuthEntry
  <1>2. GrantedOK'
    BY DEF GrantedOK
  <1>3. CallersOK'
    BY DEF CallersOK, AuthEntry, Checking, Merging, Served
  <1>4. ClosedOK'
    BY DEF ClosedOK, Has, UpdateAtWork, GrantedOK
  <1> QED
    BY <1>1, <1>2, <1>3, <1>4

\* ViewInv holds on when entries are only kept or dropped, and time stands.
LEMMA ViewKept ==
    ASSUME ViewInv, UNCHANGED viewVars, now' = now,
           \A k \in UserKey \cup RolesKey : cache'[k] \in {cache[k], None}
    PROVE  ViewInv'
  <1> USE DEF ViewInv, viewVars
  <1>1. \A k, v, t : Traced(k, v, t)' <=> Traced(k, v, t)
    BY DEF Traced, Shown
  <1>2. \A k : Life(k)' = Life(k)
    BY DEF Life, Ttl
  <1>3. DocsOK'
    BY DEF DocsOK
  <1>4. ViewEntriesOK'
    BY DEF ViewEntriesOK, Fresh, Traced, Shown, Life, Ttl
  <1>5. PagesOK'
    BY DEF PagesOK, Fresh, Traced, Shown, Life, Ttl
  <1>6. ReadersOK'
    BY DEF ReadersOK, Traced, Shown, Looking, Filling
  <1> QED
    BY <1>3, <1>4, <1>5, <1>6

-----------------------------------------------------------------------------
(* The calls and steps of AuthCacheService                                 *)

LEMMA CallerKinds ==
    ASSUME CallersOK, NEW c \in Caller
    PROVE  /\ caller[c].pc = "check" => caller[c] \in Checking
           /\ caller[c].pc = "merge" => caller[c] \in Merging
           /\ caller[c].pc = "served" => caller[c] \in Served
           /\ caller[c].pc = "idle" => caller[c] = AuthIdle
           /\ caller[c].pc \in {"idle", "check", "merge", "served"}
           /\ caller[c] # AuthIdle => caller[c].key \in AuthKey
           /\ caller[c] # AuthIdle => caller[c].entry \in AuthEntry
  BY DEF CallersOK, Checking, Merging, Served, AuthIdle

\* A caller takes one step, to a state of its type.
LEMMA CallersStep ==
    ASSUME CallersOK, GrantedOK, NEW c \in Caller, granted' = granted,
           NEW r \in Checking \cup Merging \cup Served \cup {AuthIdle},
           caller' = [caller EXCEPT ![c] = r],
           r # AuthIdle => r.entry.expiresAt \in granted[r.key],
           r.pc = "served" => r.at <= r.entry.expiresAt
    PROVE  CallersOK'
  BY DEF CallersOK, Checking, Merging, Served

LEMMA SetUserDataStep ==
    ASSUME CacheOK, AuthInv, now' = now, calls' \in Nat,
           NEW k \in AuthKey, NEW data \in Data, NEW ttl \in AuthTtl,
           SetUserData(k, data, ttl)
    PROVE  CacheOK' /\ AuthInv' /\ \A j \in Key \ AuthKey : cache'[j] = cache[j]
  <1> USE Keys DEF AuthInv
  <1> DEFINE v == [data |-> data, expiresAt |-> now + ttl * Second]
  <1>0. ttl \in Nat /\ now \in Nat
    BY AuthAssumption DEF CacheOK
  <1>1. /\ cache' = [j \in Key |-> cache'[j]]
        /\ \A j \in Key : j # k => cache'[j] = cache[j]
        /\ cache'[k] = [value |-> v,
                        expiry |-> IF ttl > 0 THEN now + ttl * Second ELSE None]
        /\ ttl * Second \in Nat
    BY <1>0, StoreEffect DEF SetUserData, CacheOK
  <1>2. PICK n \in Nat : n = now + ttl * Second
    BY <1>0, <1>1
  <1>3. v \in AuthEntry /\ v.expiresAt = n
    BY <1>2 DEF AuthEntry
  <1>4. cache'[k].value = v /\ cache'[k] \in [value : AuthEntry, expiry : Nat \cup {None}]
    BY <1>1, <1>2, <1>3
  <1> HIDE DEF v
  <1>5. /\ granted' = [granted EXCEPT ![k] = @ \cup {n}]
        /\ closed' = closed \ {k} /\ UNCHANGED caller
    BY <1>2 DEF SetUserData
  <1>6. \A j \in AuthKey : granted[j] \subseteq granted'[j]
    BY <1>5 DEF GrantedOK
  <1>7. AuthEntriesOK'
    <2> SUFFICES ASSUME NEW j \in AuthKey, cache'[j] # None
                 PROVE  /\ cache'[j] \in [value : AuthEntry, expiry : Nat \cup {None}]
                        /\ cache'[j].value.expiresAt \in granted'[j]
      BY DEF AuthEntriesOK, AuthEntry
    <2>1. CASE j = k
      BY <2>1, <1>3, <1>4, <1>5 DEF GrantedOK
    <2>2. CASE j # k
      BY <2>2, <1>1, <1>6 DEF AuthEntriesOK
    <2> QED
      BY <2>1, <2>2
  <1>8. GrantedOK'
    BY <1>2, <1>5 DEF GrantedOK
  <1>9. CallersOK'
    <2>1. \A c \in Caller : caller[c] # AuthIdle => caller[c].key \in AuthKey
      BY CallerKinds
    <2> QED
      BY <2>1, <1>5, <1>6 DEF CallersOK, Checking, Merging, Served, AuthEntry
  <1>10. ClosedOK'
    BY <1>1, <1>5 DEF ClosedOK, Has, UpdateAtWork, GrantedOK
  <1>11. CacheOK'
    BY <1>1 DEF CacheOK
  <1> QED
    BY <1>1, <1>7, <1>8, <1>9, <1>10, <1>11

LEMMA InvalidateStep ==
    ASSUME CacheOK, AuthInv, now' = now, calls' \in Nat, NEW ds, Drop(ds),
           NEW ks \in SUBSET AuthKey, ks \subseteq ds,
           closed' = closed \cup {k \in ks : ~UpdateAtWork(k)},
           UNCHANGED <<caller, granted>>
    PROVE  /\ CacheOK' /\ AuthInv'
           /\ \A j \in Key : cache'[j] \in {cache[j], None}
  <1> USE Keys DEF AuthInv
  <1>1. /\ cache' = [j \in Key |-> cache'[j]]
        /\ \A j \in Key : cache'[j] \in {cache[j], None}
        /\ \A j \in Key \cap ds : cache'[j] = None
    BY DropEffect
  <1>2. CacheOK'
    BY <1>1 DEF CacheOK
  <1>3. AuthEntriesOK'
    BY <1>1 DEF AuthEntriesOK, AuthEntry
  <1>4. GrantedOK'
    BY DEF GrantedOK
  <1>5. CallersOK'
    BY DEF CallersOK, AuthEntry, Checking, Merging, Served
  <1>6. ClosedOK'
    BY <1>1 DEF ClosedOK, Has, UpdateAtWork, GrantedOK
  <1> QED
    BY <1>1, <1>2, <1>3, <1>4, <1>5, <1>6

LEMMA HasUserDataStep ==
    ASSUME CacheOK, AuthInv, now' = now, calls' \in Nat,
           NEW k \in AuthKey, HasUserData(k)
    PROVE  /\ CacheOK' /\ AuthInv'
           /\ \A j \in Key : cache'[j] \in {cache[j], None}
  <1>1. /\ cache' = [j \in Key |-> cache'[j]]
        /\ \A j \in Key : cache'[j] \in {cache[j], None}
    BY LookEffect, Keys DEF HasUserData, CacheOK
  <1>2. CacheOK'
    BY <1>1 DEF CacheOK
  <1> QED
    BY <1>1, <1>2, AuthKept, Keys DEF HasUserData

LEMMA ReadUserDataStep ==
    ASSUME CacheOK, AuthInv, now' = now, calls' \in Nat, NEW c \in Caller,
           NEW k \in AuthKey, NEW update \in Data \cup {None},
           ReadUserData(c, k, update)
    PROVE  /\ CacheOK' /\ AuthInv'
           /\ \A j \in Key : cache'[j] \in {cache[j], None}
  <1> USE Keys DEF AuthInv
  <1> DEFINE r == IF Peek(k) = None THEN AuthIdle
                  ELSE [pc |-> "check", key |-> k, entry |-> Peek(k), update |-> update]
  <1>1. /\ cache' = [j \in Key |-> cache'[j]]
        /\ \A j \in Key : cache'[j] \in {cache[j], None}
    BY LookEffect DEF ReadUserData, CacheOK
  <1>2. caller' = [caller EXCEPT ![c] = r] /\ UNCHANGED <<granted, closed>>
    BY DEF ReadUserData
  <1>3. Peek(k) # None => /\ cache[k] # None /\ Peek(k) \in AuthEntry
                          /\ Peek(k).expiresAt \in granted[k]
    BY DEF Peek, Has, AuthEntriesOK, AuthEntry
  <1>4. /\ r \in Checking \cup {AuthIdle}
        /\ r # AuthIdle => r.entry.expiresAt \in granted[r.key]
        /\ r.pc # "served"
    BY <1>3 DEF Checking, AuthIdle
  <1>5. r.pc = "check" => r.key = k /\ Has(k)
    BY <1>3 DEF AuthIdle, Has
  <1>6. r.pc # "merge"
    BY DEF AuthIdle
  <1> HIDE DEF r
  <1>7. CallersOK'
    BY <1>2, <1>4, CallersStep
  <1>8. AuthEntriesOK'
    BY <1>1, <1>2 DEF AuthEntriesOK, AuthEntry
  <1>9. GrantedOK'
    BY <1>2 DEF GrantedOK
  <1>10. ClosedOK'
    BY <1>1, <1>2, <1>5, <1>6 DEF ClosedOK, Has, UpdateAtWork, GrantedOK, CallersOK
  <1> QED
    BY <1>1, <1>7, <1>8, <1>9, <1>10 DEF CacheOK

LEMMA CheckUserDataStep ==
    ASSUME CacheOK, AuthInv, now' = now, calls' \in Nat, NEW c \in Caller,
           CheckUserData(c)
    PROVE  /\ CacheOK' /\ AuthInv'
           /\ \A j \in Key : cache'[j] \in {cache[j], None}
  <1> USE Keys DEF AuthInv
  <1>1. caller[c] \in Checking /\ UNCHANGED <<granted, closed>>
    BY CallerKinds DEF CheckUserData
  <1>2. PICK r \in Checking \cup Merging \cup Served \cup {AuthIdle} :
           /\ caller' = [caller EXCEPT ![c] = r]
           /\ r # AuthIdle => /\ r.entry = caller[c].entry /\ r.key = caller[c].key
           /\ r.pc = "served" => r.at <= r.entry.expiresAt
           /\ r.pc # "check"
           /\ r.pc = "merge" => r.update = caller[c].update
           /\ \/ cache' = cache
              \/ Drop({caller[c].key})
    <2>1. CASE Stale(caller[c].entry)
      <3>1. caller' = [caller EXCEPT ![c] = AuthIdle] /\ Drop({caller[c].key})
        BY <2>1 DEF CheckUserData
      <3>2. AuthIdle.pc = "idle"
        BY DEF AuthIdle
      <3> QED
        BY <3>1, <3>2
    <2>2. CASE ~Stale(caller[c].entry)
      <3>1. now <= caller[c].entry.expiresAt
        BY <1>1, <2>2 DEF Stale, CacheOK, Checking, AuthEntry
      <3>2. CASE caller[c].update = None
        <4> DEFINE s == [pc |-> "served", key |-> caller[c].key,
                         entry |-> caller[c].entry, at |-> now]
        <4>1. caller' = [caller EXCEPT ![c] = s] /\ cache' = cache
          BY <2>2, <3>2 DEF CheckUserData
        <4>2. s \in Served
          BY <1>1 DEF Served, Checking, CacheOK
        <4>3. /\ s.at <= s.entry.expiresAt /\ s.pc = "served"
              /\ s.entry = caller[c].entry /\ s.key = caller[c].key
          BY <3>1
        <4> HIDE DEF s
        <4> QED
          BY <4>1, <4>2, <4>3
      <3>3. CASE caller[c].update # None
        <4> DEFINE m == [pc |-> "merge", key |-> caller[c].key,
                         entry |-> caller[c].entry, update |-> caller[c].update]
        <4>1. caller' = [caller EXCEPT ![c] = m] /\ cache' = cache
          BY <2>2, <3>3 DEF CheckUserData
        <4>2. m \in Merging
          BY <1>1, <3>3 DEF Merging, Checking
        <4>3. /\ m.pc = "merge" /\ m.update = caller[c].update
              /\ m.entry = caller[c].entry /\ m.key = caller[c].key
          OBVIOUS
        <4> HIDE DEF m
        <4> QED
          BY <4>1, <4>2, <4>3
      <3> QED
        BY <3>2, <3>3
    <2> QED
      BY <2>1, <2>2
  <1>3. /\ cache' = [j \in Key |-> cache'[j]]
        /\ \A j \in Key : cache'[j] \in {cache[j], None}
    BY <1>2, DropEffect DEF CacheOK
  <1>4. CallersOK'
    <2>1. caller[c] # AuthIdle
      BY <1>1 DEF Checking, AuthIdle
    <2> QED
      BY <1>1, <1>2, <2>1, CallersStep DEF CallersOK
  <1>5. AuthEntriesOK'
    BY <1>1, <1>3 DEF AuthEntriesOK, AuthEntry
  <1>6. GrantedOK'
    BY <1>1 DEF GrantedOK
  <1>7. ClosedOK'
    <2>1. \A k : UpdateAtWork(k)' => UpdateAtWork(k)
      <3> SUFFICES ASSUME NEW k, NEW e \in Caller, caller'[e].pc \in {"check", "merge"},
                          caller'[e].key = k, caller'[e].update # None
                   PROVE  UpdateAtWork(k)
        BY DEF UpdateAtWork
      <3>1. CASE e = c
        <4>1. caller'[c].pc = "merge" /\ caller'[c] # AuthIdle
          BY <1>2, <3>1 DEF CallersOK, AuthIdle
        <4>2. caller[c].pc = "check" /\ caller[c].key = k /\ caller[c].update # None
          BY <1>1, <1>2, <3>1, <4>1 DEF CallersOK, Checking
        <4> QED
          BY <4>2 DEF UpdateAtWork
      <3>2. CASE e # c
        BY <1>2, <3>2 DEF CallersOK, UpdateAtWork
      <3> QED
        BY <3>1, <3>2
    <2> QED
      BY <1>1, <1>3, <2>1 DEF ClosedOK, Has, GrantedOK
  <1> QED
    BY <1>3, <1>4, <1>5, <1>6, <1>7 DEF CacheOK

LEMMA MergeUserDataStep ==
    ASSUME CacheOK, AuthInv, now' = now, calls' \in Nat, NEW c \in Caller,
           MergeUserData(c)
    PROVE  CacheOK' /\ AuthInv' /\ \A j \in Key \ AuthKey : cache'[j] = cache[j]
  <1> USE Keys DEF AuthInv
  <1>1. /\ caller[c] \in Merging /\ UNCHANGED <<granted, closed>>
        /\ caller' = [caller EXCEPT ![c] = AuthIdle]
    BY CallerKinds DEF MergeUserData
  <1>2. PICK k \in AuthKey : k = caller[c].key
    BY <1>1 DEF Merging
  <1>3. PICK entry \in AuthEntry : entry = caller[c].entry
    BY <1>1 DEF Merging
  <1>4. PICK data \in Data : data = caller[c].update
    BY <1>1 DEF Merging
  <1>5. PICK ttl \in Nat : ttl = RemainingTtl(entry)
    BY <1>3, RemainingNat DEF CacheOK
  <1>6. entry.expiresAt \in granted[k] /\ entry.expiresAt \in Nat
    BY <1>1, <1>2, <1>3 DEF CallersOK, Merging, AuthIdle, AuthEntry
  <1> DEFINE v == [data |-> data, expiresAt |-> entry.expiresAt]
  <1>7. v \in AuthEntry /\ v.expiresAt \in granted[k]
    BY <1>6 DEF AuthEntry
  <1>8. Store(k, v, ttl)
    BY <1>2, <1>3, <1>4, <1>5 DEF MergeUserData
  <1> HIDE DEF v
  <1>9. now \in Nat /\ cache = [j \in Key |-> cache[j]] /\ k \in Key
    BY DEF CacheOK
  <1>10. /\ cache' = [j \in Key |-> cache'[j]]
         /\ \A j \in Key : j # k => cache'[j] = cache[j]
         /\ cache'[k] = [value |-> v,
                         expiry |-> IF ttl > 0 THEN now + ttl * Second ELSE None]
         /\ ttl * Second \in Nat
    BY <1>8, <1>9, StoreEffect
  <1>11. cache'[k].value = v /\ cache'[k] \in [value : AuthEntry, expiry : Nat \cup {None}]
    <2>1. PICK n \in Nat : n = now + ttl * Second
      BY <1>9, <1>10
    <2> QED
      BY <1>7, <1>10, <2>1
  <1>12. AuthEntriesOK'
    BY <1>1, <1>7, <1>10, <1>11 DEF AuthEntriesOK, AuthEntry
  <1>13. CallersOK'
    BY <1>1, CallersStep DEF AuthIdle
  <1>14. GrantedOK'
    BY <1>1 DEF GrantedOK
  <1>15. UpdateAtWork(k)
    BY <1>1, <1>2, AuthAssumption DEF UpdateAtWork, Merging
  <1>16. ClosedOK'
    <2>1. \A j : UpdateAtWork(j)' => UpdateAtWork(j)
      BY <1>1 DEF UpdateAtWork, CallersOK, AuthIdle
    <2>2. k \notin closed
      BY <1>15 DEF ClosedOK
    <2> QED
      BY <1>1, <1>10, <2>1, <2>2 DEF ClosedOK, Has, GrantedOK
  <1> QED
    BY <1>9, <1>10, <1>12, <1>13, <1>14, <1>16 DEF CacheOK

LEMMA ReturnStep ==
    ASSUME CacheOK, AuthInv, now' = now, calls' \in Nat, NEW c \in Caller, Return(c)
    PROVE  CacheOK' /\ AuthInv' /\ cache' = cache
  <1> USE DEF AuthInv
  <1>1. /\ UNCHANGED <<cache, granted, closed>>
        /\ caller' = [caller EXCEPT ![c] = AuthIdle]
    BY DEF Return
  <1>2. CallersOK'
    BY <1>1, CallersStep DEF AuthIdle
  <1>3. AuthEntriesOK' /\ GrantedOK'
    BY <1>1 DEF AuthEntriesOK, GrantedOK, AuthEntry
  <1>4. ClosedOK'
    BY <1>1 DEF ClosedOK, Has, UpdateAtWork, CallersOK, AuthIdle
  <1> QED
    BY <1>1, <1>2, <1>3, <1>4 DEF CacheOK

\* AuthCacheService leaves the entries of the others alone, or drops them.
LEMMA AuthAction ==
    ASSUME IInv, AuthCall \/ AuthStep, UNCHANGED viewVars, now' = now,
           calls' \in Nat
    PROVE  IInv'
  <1>0. CacheOK /\ AuthInv /\ ViewInv
    BY DEF IInv
  <1> SUFFICES CacheOK' /\ AuthInv' /\ \A j \in Key \ AuthKey : cache'[j] \in {cache[j], None}
    BY <1>0, ViewKept, Keys DEF IInv
  <1>1. CASE \E k \in AuthKey, data \in Data, ttl \in AuthTtl : SetUserData(k, data, ttl)
    BY <1>0, <1>1, SetUserDataStep
  <1>2. CASE \E ks \in SUBSET AuthKey \ {{}} : InvalidateUsers(ks)
    BY <1>0, <1>2, InvalidateStep DEF InvalidateUsers
  <1>3. CASE \E k \in AuthKey : HasUserData(k)
    BY <1>0, <1>3, HasUserDataStep
  <1>4. CASE \E c \in Caller, k \in AuthKey, update \in Data \cup {None} :
               ReadUserData(c, k, update)
    BY <1>0, <1>4, ReadUserDataStep
  <1>5. CASE \E c \in Caller : CheckUserData(c)
    BY <1>0, <1>5, CheckUserDataStep
  <1>6. CASE \E c \in Caller : MergeUserData(c)
    BY <1>0, <1>6, MergeUserDataStep
  <1>7. CASE \E c \in Caller : Return(c)
    BY <1>0, <1>7, ReturnStep
  <1> QED
    BY <1>1, <1>2, <1>3, <1>4, <1>5, <1>6, <1>7 DEF AuthCall, AuthStep

-----------------------------------------------------------------------------
(* The documents and the requests                                          *)

LEMMA ReaderKinds ==
    ASSUME ReadersOK, NEW h \in Reader
    PROVE  /\ reader[h].pc = "exists" =>
                 reader[h].key \in UserKey
           /\ reader[h].pc = "read" => reader[h].key \in ViewKey
           /\ reader[h].pc = "read" /\ reader[h].key \in RolesKey =>
                 reader[h] \in [pc : {"read"}, key : RolesKey, attempt : {0, 1}]
           /\ reader[h].pc = "fill" => reader[h] \in Filling
  BY Keys, ViewAssumption DEF ReadersOK, Looking, Filling, ReadIdle

\* A request takes one step, to a state of its type.
LEMMA ReadersStep ==
    ASSUME ReadersOK, NEW h \in Reader, UNCHANGED <<now, doc, replacedAt>>,
           NEW r \in Looking \cup Filling \cup {ReadIdle},
           reader' = [reader EXCEPT ![h] = r],
           r.pc = "fill" => /\ r.readAt <= now /\ now <= r.readAt + MaxFill
                            /\ Traced(r.key, r.value, r.readAt)
    PROVE  ReadersOK'
  <1>1. reader' \in [Reader -> Looking \cup Filling \cup {ReadIdle}]
    BY DEF ReadersOK
  <1>2. (Looking \cup Filling \cup {ReadIdle})' = Looking \cup Filling \cup {ReadIdle}
    BY DEF Looking, Filling, ReadIdle
  <1>3. \A k, v, t : Traced(k, v, t)' <=> Traced(k, v, t)
    BY DEF Traced, Shown
  <1>4. ASSUME NEW g \in Reader, reader'[g].pc = "fill"
        PROVE  /\ reader'[g].readAt <= now /\ now <= reader'[g].readAt + MaxFill
               /\ Traced(reader'[g].key, reader'[g].value, reader'[g].readAt)
    BY <1>4 DEF ReadersOK
  <1> QED
    BY <1>1, <1>4 DEF ReadersOK, Traced, Shown, Looking, Filling

\* Requests that take a step and only keep or drop entries.
LEMMA LookingStep ==
    ASSUME ViewInv, NEW h \in Reader, UNCHANGED <<now, doc, replacedAt, pages>>,
           NEW r \in Looking \cup Filling \cup {ReadIdle},
           reader' = [reader EXCEPT ![h] = r],
           r.pc = "fill" => /\ r.readAt <= now /\ now <= r.readAt + MaxFill
                            /\ Traced(r.key, r.value, r.readAt),
           \A k \in UserKey \cup RolesKey : cache'[k] \in {cache[k], None}
    PROVE  ViewInv'
  <1> USE DEF ViewInv
  <1>1. ReadersOK'
    BY ReadersStep
  <1>2. DocsOK'
    BY DEF DocsOK
  <1>3. ViewEntriesOK'
    BY DEF ViewEntriesOK, Fresh, Traced, Shown, Life, Ttl
  <1>4. PagesOK'
    BY DEF PagesOK, Fresh, Traced, Shown, Life, Ttl
  <1> QED
    BY <1>1, <1>2, <1>3, <1>4

LEMMA LookUpStep ==
    ASSUME IInv, NEW h \in Reader, UNCHANGED now,
           \/ \E k \in UserKey : LookUpUser(h, k)
           \/ \E k \in RolesKey : LookUpRoles(h, k)
           \/ \E k \in PageKey : LookUpPage(h, k)
    PROVE  /\ cache' = [j \in Key |-> cache'[j]] /\ ViewInv'
           /\ \A j \in AuthKey : cache'[j] \in {cache[j], None}
  <1>1. PICK r \in Looking \cup {ReadIdle} :
            r.pc # "fill" /\ reader' = [reader EXCEPT ![h] = r]
    BY DEF LookUpUser, LookUpRoles, LookUpPage, Looking, ReadIdle
  <1>2. UNCHANGED <<doc, replacedAt, pages>>
    BY DEF LookUpUser, LookUpRoles, LookUpPage
  <1>3. /\ cache' = [j \in Key |-> cache'[j]]
        /\ \A j \in Key : cache'[j] \in {cache[j], None}
    BY LookEffect, Keys DEF LookUpUser, LookUpRoles, LookUpPage, IInv, CacheOK
  <1> QED
    BY <1>1, <1>2, <1>3, LookingStep, Keys DEF IInv

LEMMA ReadStep ==
    ASSUME IInv, NEW h \in Reader, UNCHANGED now, FindUser(h) \/ FailToRead(h) \/ Read(h)
    PROVE  cache' = cache /\ ViewInv'
  <1> USE Keys DEF IInv, ViewInv
  <1>1. UNCHANGED <<cache, doc, replacedAt, pages>>
    BY DEF FindUser, FailToRead, Read
  <1>2. PICK r \in Looking \cup Filling \cup {ReadIdle} :
            /\ reader' = [reader EXCEPT ![h] = r]
            /\ r.pc = "fill" => /\ r.readAt = now
                                /\ Traced(r.key, r.value, r.readAt)
    <2>1. CASE FindUser(h)
      <3>1. reader[h].key \in UserKey
        BY <2>1, ReaderKinds DEF FindUser
      <3> DEFINE r == IF doc[reader[h].key] = None THEN ReadIdle
                      ELSE [pc |-> "read", key |-> reader[h].key]
      <3>2. reader' = [reader EXCEPT ![h] = r]
        BY <2>1 DEF FindUser
      <3>3. r \in Looking \cup {ReadIdle} /\ r.pc # "fill"
        BY <3>1 DEF Looking, ReadIdle
      <3> HIDE DEF r
      <3> QED
        BY <3>2, <3>3
    <2>2. CASE FailToRead(h)
      <3>1. reader[h] \in [pc : {"read"}, key : RolesKey, attempt : {0, 1}]
        BY <2>2, ReaderKinds DEF FailToRead
      <3>2. CASE reader[h].attempt = 0
        <4> DEFINE r == [reader[h] EXCEPT !.attempt = 1]
        <4>1. reader' = [reader EXCEPT ![h] = r]
          BY <2>2, <3>2 DEF FailToRead
        <4>2. r \in [pc : {"read"}, key : RolesKey, attempt : {0, 1}]
          BY <3>1
        <4> HIDE DEF r
        <4> QED
          BY <4>1, <4>2 DEF Looking
      <3>3. CASE reader[h].attempt # 0
        <4>1. reader' = [reader EXCEPT ![h] = ReadIdle]
          BY <2>2, <3>3 DEF FailToRead
        <4>2. ReadIdle.pc # "fill"
          BY DEF ReadIdle
        <4> QED
          BY <4>1, <4>2
      <3> QED
        BY <3>2, <3>3
    <2>3. CASE Read(h)
      <3>1. reader[h].key \in ViewKey
        BY <2>3, ReaderKinds DEF Read
      <3> DEFINE r == [pc |-> "fill", key |-> reader[h].key,
                       value |-> Shown(reader[h].key), readAt |-> now]
      <3>2. reader' = [reader EXCEPT ![h] = r]
        BY <2>3 DEF Read
      <3>3. Shown(reader[h].key) \in Version \cup {None, NoRoles}
        BY <3>1 DEF Shown, DocsOK
      <3>4. r \in Filling
        BY <3>1, <3>3 DEF Filling, CacheOK
      <3>5. r.readAt = now /\ r.value = Shown(r.key)
        OBVIOUS
      <3> HIDE DEF r
      <3> QED
        BY <3>2, <3>4, <3>5 DEF Traced
    <2> QED
      BY <2>1, <2>2, <2>3
  <1>3. now <= now /\ now <= now + MaxFill
    BY ViewAssumption DEF CacheOK
  <1>4. r.pc = "fill" => /\ r.readAt <= now /\ now <= r.readAt + MaxFill
                         /\ Traced(r.key, r.value, r.readAt)
    BY <1>2, <1>3
  <1> QED
    BY <1>1, <1>2, <1>4, LookingStep

\* What was so when it was read may be stored for a life from now.
LEMMA FilledIsFresh ==
    ASSUME CacheOK, ViewInv, NEW h \in Reader, reader[h].pc = "fill", NEW n \in Nat,
           n = Life(reader[h].key)
    PROVE  /\ now + n \in Nat
           /\ Fresh(reader[h].key, reader[h].value, now + n)
  <1> USE DEF ViewInv
  <1>1. /\ reader[h].readAt \in Nat /\ reader[h].key \in ViewKey
        /\ now <= reader[h].readAt + MaxFill
        /\ Traced(reader[h].key, reader[h].value, reader[h].readAt)
    BY ReaderKinds DEF ReadersOK, Filling
  <1>2. PICK k \in ViewKey : k = reader[h].key
    BY <1>1
  <1>3. PICK t \in Nat : t = reader[h].readAt
    BY <1>1
  <1>4. now \in Nat /\ MaxFill \in Nat
    BY ViewAssumption DEF CacheOK
  <1>5. now + n - MaxFill - n <= t
    BY <1>1, <1>3, <1>4
  <1>6. Traced(k, reader[h].value, now + n - MaxFill - n)
    <2>1. CASE reader[h].value \in {None, Shown(k)}
      BY <2>1 DEF Traced
    <2>2. CASE reader[h].value \notin {None, Shown(k)}
      <3>1. /\ reader[h].value \in Version /\ replacedAt[k][reader[h].value] # None
            /\ t <= replacedAt[k][reader[h].value]
        BY <1>1, <1>2, <1>3, <2>2 DEF Traced
      <3>2. replacedAt[k][reader[h].value] \in Nat
        BY <3>1 DEF DocsOK
      <3> QED
        BY <1>4, <1>5, <3>1, <3>2 DEF Traced
    <2> QED
      BY <2>1, <2>2
  <1> QED
    BY <1>2, <1>4, <1>6 DEF Fresh

LEMMA FillEntryStep ==
    ASSUME IInv, NEW h \in Reader, UNCHANGED now, FillEntry(h)
    PROVE  /\ cache' = [j \in Key |-> cache'[j]] /\ ViewInv'
           /\ \A j \in AuthKey : cache'[j] = cache[j]
  <1> USE Keys DEF IInv, ViewInv
  <1>1. reader[h] \in Filling /\ reader[h].pc = "fill"
    BY ReaderKinds DEF FillEntry
  <1>2. /\ reader' = [reader EXCEPT ![h] = ReadIdle]
        /\ UNCHANGED <<doc, replacedAt>>
    BY DEF FillEntry
  <1>3. ReadersOK'
    BY <1>2, ReadersStep DEF ReadIdle
  <1>4. DocsOK'
    BY <1>2 DEF DocsOK
  <1>5. PICK k \in ViewKey : k = reader[h].key
    BY <1>1 DEF Filling
  <1>6. PICK v \in Version \cup {None, NoRoles} : v = reader[h].value
    BY <1>1 DEF Filling
  <1>7. PICK n \in Nat : n = Life(k)
    BY LifeNat
  <1>8. now + n \in Nat /\ Fresh(k, v, now + n)
    BY <1>1, <1>5, <1>6, <1>7, FilledIsFresh
  <1>9. \A j, w, e : Fresh(j, w, e)' <=> Fresh(j, w, e)
    BY <1>2 DEF Fresh, Traced, Shown, Life, Ttl
  <1>10. CASE k \in PageKey
    <2> DEFINE p == [value |-> v, expiresAt |-> now + n]
    <2>1. pages' = [pages EXCEPT ![k] = p] /\ cache' = cache
      BY <1>5, <1>6, <1>7, <1>10, ViewAssumption DEF FillEntry, Life, Ttl
    <2>2. p \in [value : Version \cup {None, NoRoles}, expiresAt : Nat]
      BY <1>8
    <2>3. p.value = v /\ p.expiresAt = now + n
      OBVIOUS
    <2> HIDE DEF p
    <2>4. PagesOK'
      <3>1. pages' \in [PageKey -> [value : Version \cup {None, NoRoles},
                                    expiresAt : Nat] \cup {None}]
        BY <2>1, <2>2 DEF PagesOK
      <3>2. ASSUME NEW j \in PageKey, pages'[j] # None
            PROVE  Fresh(j, pages'[j].value, pages'[j].expiresAt)
        <4>1. CASE j = k
          BY <1>8, <2>1, <2>3, <4>1 DEF PagesOK
        <4>2. CASE j # k
          BY <2>1, <3>2, <4>2 DEF PagesOK
        <4> QED
          BY <4>1, <4>2
      <3>3. ASSUME NEW j \in PageKey, pages'[j] # None
            PROVE  Fresh(j, pages[j].value, pages[j].expiresAt)'
        BY <1>2, <3>2, <3>3 DEF Fresh, Traced, Shown, Life, Ttl
      <3> QED
        BY <3>1, <3>3 DEF PagesOK, Version
    <2>5. ViewEntriesOK'
      BY <1>2, <2>1 DEF ViewEntriesOK, Fresh, Traced, Shown, Life, Ttl, Version
    <2> QED
      BY <1>3, <1>4, <2>1, <2>4, <2>5 DEF CacheOK
  <1>11. CASE k \notin PageKey
    <2>1. Store(k, v, Ttl(k)) /\ pages' = pages /\ k \in Key \ AuthKey
      BY <1>5, <1>6, <1>11 DEF FillEntry
    <2>2. Ttl(k) \in Nat /\ Ttl(k) > 0
      BY ViewAssumption DEF Ttl
    <2>3. now \in Nat /\ cache = [j \in Key |-> cache[j]]
      BY DEF CacheOK
    <2>4. /\ cache' = [j \in Key |-> cache'[j]]
          /\ \A j \in Key : j # k => cache'[j] = cache[j]
          /\ cache'[k] = [value |-> v, expiry |-> now + n]
      <3>1. /\ cache' = [j \in Key |-> cache'[j]]
            /\ \A j \in Key : j # k => cache'[j] = cache[j]
            /\ cache'[k] = [value |-> v,
                   expiry |-> IF Ttl(k) > 0 THEN now + Ttl(k) * Second ELSE None]
        BY <2>1, <2>2, <2>3, StoreEffect
      <3> QED
        BY <1>7, <2>2, <3>1 DEF Life
    <2>5. ViewEntriesOK'
      <3> SUFFICES ASSUME NEW j \in UserKey \cup RolesKey, cache'[j] # None
                   PROVE  /\ cache'[j] \in [value : Version \cup {None, NoRoles}, expiry : Nat]
                          /\ Fresh(j, cache[j].value, cache[j].expiry)'
        BY DEF ViewEntriesOK, Version
      <3> SUFFICES /\ cache'[j] \in [value : Version \cup {None, NoRoles}, expiry : Nat]
                   /\ Fresh(j, cache'[j].value, cache'[j].expiry)
        BY <1>2 DEF Fresh, Traced, Shown, Life, Ttl
      <3>1. CASE j = k
        BY <1>8, <2>4, <3>1
      <3>2. CASE j # k
        BY <2>4, <3>2 DEF ViewEntriesOK
      <3> QED
        BY <3>1, <3>2
    <2>6. PagesOK'
      BY <1>2, <2>1 DEF PagesOK, Fresh, Traced, Shown, Life, Ttl, Version
    <2> QED
      BY <1>3, <1>4, <2>1, <2>4, <2>5, <2>6
  <1> QED
    BY <1>10, <1>11

LEMMA DocStep ==
    ASSUME IInv, UNCHANGED now, NEW k \in ViewKey, WriteDoc(k) \/ DeleteDoc(k)
    PROVE  cache' = cache /\ ViewInv'
  <1> USE Keys DEF IInv, ViewInv
  <1>1. /\ UNCHANGED <<cache, pages, reader>> /\ doc[k] \in Version
        /\ replacedAt' = [replacedAt EXCEPT ![k][doc[k]] = now]
    BY ViewAssumption DEF WriteDoc, DeleteDoc, DocsOK, Version
  <1>2. PICK d \in Version \cup {None} : doc' = [doc EXCEPT ![k] = d]
    <2>1. CASE WriteDoc(k)
      <3>1. doc[k] + 1 \in Version
        BY <2>1, ViewAssumption DEF WriteDoc, Version
      <3> QED
        BY <2>1, <3>1 DEF WriteDoc
    <2>2. CASE DeleteDoc(k)
      BY <2>2 DEF DeleteDoc
    <2> QED
      BY <2>1, <2>2
  <1>3. now \in Nat
    BY DEF CacheOK
  <1>4. DocsOK'
    <2>1. doc' \in [ViewKey -> Version \cup {None}]
      BY <1>2 DEF DocsOK
    <2>2. replacedAt' \in [ViewKey -> [Version -> Nat \cup {None}]]
      BY <1>1, <1>3 DEF DocsOK
    <2> QED
      BY <2>1, <2>2 DEF DocsOK, Version
  <1>5. ASSUME NEW j \in ViewKey, NEW v, NEW t \in Int, t <= now, Traced(j, v, t)
        PROVE  Traced(j, v, t)'
    <2>1. CASE j # k
      <3>1. doc'[j] = doc[j] /\ replacedAt'[j] = replacedAt[j]
        BY <1>1, <1>2, <2>1 DEF DocsOK
      <3> QED
        BY <1>5, <3>1 DEF Traced, Shown, Version
    <2>2. CASE j = k /\ v = doc[k]
      <3>1. replacedAt'[k][v] = now
        BY <1>1, <2>2 DEF DocsOK
      <3> QED
        BY <1>1, <1>3, <1>5, <2>2, <3>1 DEF Traced, Version
    <2>3. CASE j = k /\ v # doc[k]
      <3>1. Shown(k) = doc[k]
        BY <1>1 DEF Shown
      <3>2. CASE v = None
        BY <3>2 DEF Traced
      <3>3. CASE v # None
        <4>1. v \in Version /\ replacedAt[k][v] # None /\ t <= replacedAt[k][v]
          BY <1>5, <2>3, <3>1, <3>3 DEF Traced
        <4>2. replacedAt'[k][v] = replacedAt[k][v]
          BY <1>1, <2>3, <4>1 DEF DocsOK
        <4> QED
          BY <2>3, <4>1, <4>2 DEF Traced, Version
      <3> QED
        BY <3>2, <3>3
    <2> QED
      BY <2>1, <2>2, <2>3
  <1>6. ASSUME NEW j \in ViewKey, NEW v, NEW e \in Nat, Fresh(j, v, e)
        PROVE  Fresh(j, v, e)'
    <2>1. PICK n \in Nat : n = Life(j)
      BY LifeNat
    <2>2. MaxFill \in Nat
      BY ViewAssumption
    <2>3. e <= now + n /\ e - MaxFill - n \in Int /\ e - MaxFill - n <= now
      BY <1>3, <1>6, <2>1, <2>2 DEF Fresh
    <2>4. Traced(j, v, e - MaxFill - n)'
      BY <1>5, <1>6, <2>1, <2>3 DEF Fresh
    <2>5. Life(j)' = n
      BY <2>1 DEF Life, Ttl
    <2> QED
      BY <2>1, <2>3, <2>4, <2>5 DEF Fresh
  <1>7. ViewEntriesOK'
    BY <1>1, <1>6 DEF ViewEntriesOK, Version
  <1>8. PagesOK'
    BY <1>1, <1>6 DEF PagesOK, Version
  <1>9. ReadersOK'
    <2>1. reader' \in [Reader -> Looking \cup Filling \cup {ReadIdle}]
      BY <1>1 DEF ReadersOK
    <2>2. ASSUME NEW h \in Reader, reader[h].pc = "fill"
          PROVE  /\ reader[h].readAt <= now /\ now <= reader[h].readAt + MaxFill
                 /\ Traced(reader[h].key, reader[h].value, reader[h].readAt)'
      <3>1. reader[h].key \in ViewKey /\ reader[h].readAt \in Nat
        BY <2>2, ReaderKinds DEF Filling
      <3> QED
        BY <1>1, <1>5, <2>2, <3>1 DEF ReadersOK
    <2> QED
      BY <1>1, <2>1, <2>2 DEF ReadersOK, Looking, Filling, Version
  <1> QED
    BY <1>1, <1>4, <1>7, <1>8, <1>9

LEMMA ViewAction ==
    ASSUME IInv, ViewCall \/ ViewStep, UNCHANGED authVars, now' = now, calls' \in Nat
    PROVE  IInv'
  <1> DEFINE Kept == /\ cache' = [j \in Key |-> cache'[j]]
                     /\ \A j \in AuthKey : cache'[j] \in {cache[j], None}
  <1>1. Kept /\ ViewInv'
    <2>1. CASE \E k \in ViewKey : WriteDoc(k) \/ DeleteDoc(k)
      BY <2>1, DocStep DEF IInv, CacheOK
    <2>2. ASSUME NEW h \in Reader,
                 \/ \E k \in UserKey : LookUpUser(h, k)
                 \/ \E k \in RolesKey : LookUpRoles(h, k)
                 \/ \E k \in PageKey : LookUpPage(h, k)
          PROVE  Kept /\ ViewInv'
      BY <2>2, LookUpStep
    <2>3. ASSUME NEW h \in Reader, FindUser(h) \/ FailToRead(h) \/ Read(h)
          PROVE  Kept /\ ViewInv'
      BY <2>3, ReadStep DEF IInv, CacheOK
    <2>4. ASSUME NEW h \in Reader, FillEntry(h)
          PROVE  Kept /\ ViewInv'
      BY <2>4, FillEntryStep
    <2>5. CASE ViewCall
      <3>1. \/ \E k \in ViewKey : WriteDoc(k) \/ DeleteDoc(k)
            \/ \E h \in Reader : \/ \E k \in UserKey : LookUpUser(h, k)
                                 \/ \E k \in RolesKey : LookUpRoles(h, k)
                                 \/ \E k \in PageKey : LookUpPage(h, k)
        BY <2>5 DEF ViewCall
      <3> QED
        BY <2>1, <2>2, <3>1
    <2>6. CASE ViewStep
      <3>1. PICK h \in Reader : FindUser(h) \/ FailToRead(h) \/ Read(h) \/ FillEntry(h)
        BY <2>6 DEF ViewStep
      <3> QED
        BY <2>3, <2>4, <3>1
    <2> QED
      BY <2>5, <2>6
  <1> QED
    BY <1>1, AuthKept DEF IInv, CacheOK

LEMMA ClearStep ==
    ASSUME IInv, Clear, now' = now, calls' \in Nat
    PROVE  IInv'
  <1>1. closed' = closed \cup {k \in AuthKey : ~UpdateAtWork(k)}
    BY DEF Clear
  <1>2. Drop(Key) /\ UNCHANGED <<caller, granted, viewVars>>
    BY DEF Clear
  <1>3. CacheOK' /\ AuthInv' /\ \A j \in Key : cache'[j] \in {cache[j], None}
    BY <1>1, <1>2, InvalidateStep, Keys DEF IInv
  <1> QED
    BY <1>2, <1>3, ViewKept, Keys DEF IInv

LEMMA AdvanceStep ==
    ASSUME IInv, Advance
    PROVE  IInv'
  <1> USE DEF IInv, ViewInv
  <1>1. /\ now' = now + 1 /\ now \in Nat /\ InTime
        /\ UNCHANGED <<cache, authVars, viewVars, calls>>
    BY DEF Advance, Tick, CacheOK
  <1>2. CacheOK'
    BY <1>1 DEF CacheOK
  <1>3. AuthInv'
    BY <1>1, AuthKept
  <1>4. DocsOK'
    BY <1>1 DEF DocsOK, viewVars
  <1>5. ASSUME NEW k, NEW v, NEW e \in Nat, Fresh(k, v, e)
        PROVE  Fresh(k, v, e)'
    <2>1. PICK n \in Nat : n = Life(k)
      BY LifeNat
    <2>2. e <= now + 1 + n
      BY <1>1, <1>5, <2>1 DEF Fresh
    <2>3. Life(k)' = n
      BY <2>1 DEF Life, Ttl
    <2> QED
      BY <1>1, <1>5, <2>1, <2>2, <2>3 DEF Fresh, Traced, Shown, Version, viewVars
  <1>6. ViewEntriesOK'
    BY <1>1, <1>5 DEF ViewEntriesOK, Version, viewVars
  <1>7. PagesOK'
    BY <1>1, <1>5 DEF PagesOK, Version, viewVars
  <1>8. ReadersOK'
    <2>1. ASSUME NEW h \in Reader, reader[h].pc = "fill"
          PROVE  /\ reader[h].readAt <= now + 1 /\ now + 1 <= reader[h].readAt + MaxFill
                 /\ Traced(reader[h].key, reader[h].value, reader[h].readAt)
      <3>1. /\ reader[h].readAt \in Nat /\ reader[h].readAt <= now
            /\ now < reader[h].readAt + MaxFill
        BY <1>1, <2>1, ReaderKinds DEF ReadersOK, Filling, InTime
      <3> QED
        BY <1>1, <2>1, <3>1, ViewAssumption DEF ReadersOK
    <2> QED
      BY <1>1, <2>1 DEF ReadersOK, Looking, Filling, Version, viewVars, Traced, Shown
  <1> QED
    BY <1>2, <1>3, <1>4, <1>6, <1>7, <1>8
-----------------------------------------------------------------------------
(* The theorems                                                            *)

LEMMA InitHolds == Init => IInv
  <1> SUFFICES ASSUME Init PROVE IInv
    OBVIOUS
  <1> USE DEF Init
  <1>1. CacheOK
    BY DEF CacheOK
  <1>2. \A k \in Key : cache[k] = None
    OBVIOUS
  <1>3. AuthInv
    BY <1>2, Keys DEF AuthInv, AuthInit, AuthEntriesOK, GrantedOK, CallersOK, ClosedOK, AuthIdle
  <1>4. DocsOK
    <2>1. 0 \in Version
      BY ViewAssumption DEF Version
    <2> QED
      BY <2>1 DEF DocsOK, ViewInit
  <1>5. ViewEntriesOK
    BY <1>2, Keys DEF ViewEntriesOK
  <1>6. PagesOK /\ ReadersOK
    BY DEF PagesOK, ReadersOK, ViewInit, ReadIdle
  <1> QED
    BY <1>1, <1>3, <1>4, <1>5, <1>6 DEF IInv, ViewInv

LEMMA StepHolds == IInv /\ [Next]_vars => IInv'
  <1> SUFFICES ASSUME IInv, [Next]_vars PROVE IInv'
    OBVIOUS
  <1>1. CASE UNCHANGED vars
    <2>1. CacheOK' /\ AuthInv'
      BY <1>1, AuthKept DEF vars, IInv, CacheOK
    <2>2. ViewInv'
      BY <1>1, ViewKept DEF vars, IInv
    <2> QED
      BY <2>1, <2>2 DEF IInv
  <1>2. CASE Call /\ calls < MaxCalls /\ calls' = calls + 1 /\ UNCHANGED now
    <2>1. calls' \in Nat
      BY <1>2 DEF IInv, CacheOK
    <2> QED
      BY <1>2, <2>1, AuthAction, ViewAction, ClearStep DEF Call
  <1>3. CASE Step /\ UNCHANGED <<now, calls>>
    <2>1. calls' \in Nat
      BY <1>3 DEF IInv, CacheOK
    <2> QED
      BY <1>3, <2>1, AuthAction, ViewAction DEF Step
  <1>4. CASE Advance
    BY <1>4, AdvanceStep
  <1> QED
    BY <1>1, <1>2, <1>3, <1>4 DEF Next

\* In every reachable state each entry of a user ends with a life given to it,
\* and each value cached or about to be is the current one or was so when read.
THEOREM CachesInductiveInvariant == Spec => []IInv
  BY InitHolds, StepHolds, PTL DEF Spec

\* Every variable keeps its type (auth-cache.service l.23-28, cache.services).
THEOREM CachesTypeCorrect == Spec => []TypeOK
  <1>1. IInv => TypeOK
    <2> SUFFICES ASSUME IInv PROVE TypeOK
      OBVIOUS
    <2>1. AuthTypeOK
      BY DEF IInv, AuthInv, AuthTypeOK, AuthEntriesOK, GrantedOK, CallersOK
    <2>2. ViewTypeOK
      BY DEF IInv, ViewInv, ViewTypeOK, DocsOK, ViewEntriesOK, PagesOK, ReadersOK
    <2> QED
      BY <2>1, <2>2 DEF IInv, CacheOK, TypeOK
  <1> QED
    BY <1>1, CachesInductiveInvariant, PTL

\* getUserData serves nothing past the life that setUserData gave it, however
\* many updates follow one another (auth-cache.service l.132, l.321-338).
THEOREM ServedWithinGrantHolds == Spec => []ServedWithinGrant
  <1>1. IInv => ServedWithinGrant
    BY DEF IInv, AuthInv, CallersOK, ServedWithinGrant, AuthIdle
  <1> QED
    BY <1>1, CachesInductiveInvariant, PTL

\* What is invalidated while no update is at work on it stays out of the cache
\* until it is set again (auth-cache.service l.205, l.321-338).
THEOREM InvalidatedStaysOutHolds == Spec => []InvalidatedStaysOut
  <1>1. IInv => InvalidatedStaysOut
    BY DEF IInv, AuthInv, ClosedOK, InvalidatedStaysOut
  <1> QED
    BY <1>1, CachesInductiveInvariant, PTL

\* No cache answers with a value that the database has not held for longer than
\* its time to live and one fill (cache.services l.65-68, jwt.strategy l.209).
THEOREM StaleBoundedHolds == Spec => []StaleBounded
  <1>1. IInv => StaleBounded
    <2> SUFFICES ASSUME IInv, NEW k \in ViewKey, Answer(k) \notin {None, Shown(k)}
                 PROVE  /\ Answer(k) \in Version
                        /\ replacedAt[k][Answer(k)] # None
                        /\ now <= replacedAt[k][Answer(k)] + MaxFill + Ttl(k) * Second
      BY DEF StaleBounded
    <2>1. PICK n \in Nat : n = Ttl(k) * Second /\ n = Life(k)
      BY LifeNat DEF Life
    <2>2. PICK e \in Nat : now <= e /\ Fresh(k, Answer(k), e)
      <3>1. CASE k \in PageKey
        BY <3>1, Keys DEF IInv, ViewInv, PagesOK, Answer, CacheOK
      <3>2. CASE k \notin PageKey
        <4>1. /\ Answer(k) = cache[k].value /\ cache[k] # None
              /\ k \in UserKey \cup RolesKey
          BY <3>2, Keys DEF Answer, Peek, Has
        <4>2. cache[k].expiry \in Nat /\ Fresh(k, Answer(k), cache[k].expiry)
          BY <4>1 DEF IInv, ViewInv, ViewEntriesOK
        <4>3. now <= cache[k].expiry
          BY <3>2, <4>1, <4>2, Keys DEF Answer, Peek, Has, Expired, IInv, CacheOK
        <4> QED
          BY <4>2, <4>3
      <3> QED
        BY <3>1, <3>2
    <2>3. /\ Answer(k) \in Version /\ replacedAt[k][Answer(k)] # None
          /\ e - MaxFill - n <= replacedAt[k][Answer(k)]
      BY <2>1, <2>2 DEF Fresh, Traced
    <2>4. PICK t \in Nat : t = replacedAt[k][Answer(k)]
      BY <2>3 DEF IInv, ViewInv, DocsOK
    <2>5. now <= t + MaxFill + n
      BY <2>2, <2>3, <2>4, ViewAssumption DEF IInv, CacheOK
    <2> QED
      BY <2>1, <2>3, <2>4, <2>5
  <1> QED
    BY <1>1, CachesInductiveInvariant, PTL
=============================================================================
