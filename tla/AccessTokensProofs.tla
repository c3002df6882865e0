-------------------------- MODULE AccessTokensProofs --------------------------
(***************************************************************************)
(* Proofs about AccessTokens for all values of its constants: any number   *)
(* of users, devices, tokens, logins and requests, any clock, and any      *)
(* lifetimes as long as a session is given no less than a token.           *)
(***************************************************************************)
EXTENDS AccessTokens, TLAPS

Issues(l, j) == issuer[l] # Idle /\ issuer[l].jti = j

\* A token under issue is signed, for an hour at most, is nobody else's and has
\* not left the server; a session its handler has found is there for good.
IssuerInv ==
    \A l \in Issuer : issuer[l] # Idle =>
        /\ Signed(issuer[l].jti)
        /\ exp[issuer[l].jti] <= now + TOKEN_TTL
        /\ issuer[l].jti \notin delivered
        /\ \A m \in Issuer : Issues(m, issuer[l].jti) => m = l
        /\ issuer[l].found # None => Exists(issuer[l].found)

\* A token with a session, or with a client, is signed.
SignedInv ==
    /\ \A s \in SessionId : Exists(s) => Signed(sessions[s].jti)
    /\ \A j \in delivered : Signed(j)

\* A request and a refusal in the cache are about a token some client has.
DeliveredInv ==
    /\ \A r \in Request : request[r] # Idle => request[r].jti \in delivered
    /\ \A j \in Jti :
         cache[j] # None /\ ~cache[j].isValid => j \in delivered

\* A token that has once been quiet stays so.
QuietInv ==
    \A j \in Jti : quietSince[j] # Never =>
        Signed(j) /\ ~HasSession(j) /\ ~Held(j)

\* An acceptance in the cache is as old as the last handler that wrote it.
AcceptanceInv ==
    \A j \in Jti : cache[j] # None /\ cache[j].isValid =>
        /\ cache[j].expiry <= now + CACHE_TTL
        /\ quietSince[j] # Never => cache[j].expiry <= quietSince[j] + CACHE_TTL

\* What the steps keep, each of its own accord.
HandlerInv ==
    /\ TypeOK
    /\ IssuerInv
    /\ SignedInv
    /\ SessionOutlivesToken
    /\ DeliveredInv

\* The inductive invariant.
IInv ==
    /\ HandlerInv
    /\ RejectionIsFinal
    /\ QuietInv
    /\ AcceptanceInv

-----------------------------------------------------------------------------
(* What a step may do to the verdicts on a token                           *)

SessionsFair ==
    \A j \in Jti : HasSession(j)' =>
        HasSession(j) \/ (Held(j) /\ j \notin delivered')

HoldersFair ==
    \A j \in Jti : Held(j)' => Held(j) \/ HasSession(j) \/ ~Signed(j)

RefusalsFair == \A j \in Jti : Rejecting(j)' => Rejecting(j) \/ ~HasSession(j)

AcceptancesFair ==
    \A j \in Jti : cache'[j] # None /\ cache'[j].isValid =>
        \/ cache'[j] = cache[j]
        \/ Held(j) /\ cache'[j].expiry = now + CACHE_TTL

SignaturesStay == \A j \in Jti : Signed(j) => Signed(j)'

Fair ==
    /\ SessionsFair
    /\ HoldersFair
    /\ RefusalsFair
    /\ AcceptancesFair
    /\ SignaturesStay
    /\ now' \in {now, now + 1}

\* A refusal is about a token some client has.
LEMMA RejectingDelivered ==
    ASSUME DeliveredInv, NEW j \in Jti, Rejecting(j)
    PROVE  j \in delivered
  BY DEF DeliveredInv, Rejecting, Negative, Cached, Idle

\* A step that is fair to every token keeps refusals final and acceptances
\* bounded, with the history variable that watches it.
LEMMA FairStep ==
    ASSUME IInv, HandlerInv', Fair, Observe
    PROVE  IInv'
  <1>1. RejectionIsFinal'
    <2>1. SUFFICES ASSUME NEW j \in Jti, Rejecting(j)', HasSession(j)'
          PROVE FALSE
      BY DEF RejectionIsFinal
    <2>2. j \in delivered'
      <3>1. ASSUME NEW r \in Request,
                   request'[r].pc \in {"absent", "rejected"},
                   request'[r].jti = j
            PROVE  j \in delivered'
        BY <3>1 DEF HandlerInv, DeliveredInv, Idle
      <3>2. CASE Negative(j)'
        BY <3>2 DEF HandlerInv, DeliveredInv, Negative, Cached
      <3>3. QED
        BY <2>1, <3>1, <3>2 DEF Rejecting
    <2>3. HasSession(j)
      BY <2>1, <2>2 DEF Fair, SessionsFair
    <2>4. QED
      BY <2>1, <2>3 DEF Fair, RefusalsFair, IInv, RejectionIsFinal
  <1>2. \A j \in Jti : quietSince'[j] =
          IF quietSince[j] = Never /\ Signed(j)' /\ ~HasSession(j)' /\ ~Held(j)'
          THEN now ELSE quietSince[j]
    BY DEF Observe
  <1>3. QuietInv'
    BY <1>2 DEF QuietInv, IInv, Fair, SessionsFair, HoldersFair, SignaturesStay
  <1>4. AcceptanceInv'
    <2>1. SUFFICES ASSUME NEW j \in Jti, cache'[j] # None, cache'[j].isValid
          PROVE  /\ cache'[j].expiry <= now' + CACHE_TTL
                 /\ quietSince'[j] # Never =>
                      cache'[j].expiry <= quietSince'[j] + CACHE_TTL
      BY DEF AcceptanceInv
    <2>2. /\ now \in Nat /\ CACHE_TTL \in Nat
          /\ quietSince[j] \in Nat \cup {Never}
      BY CacheAssumption DEF IInv, HandlerInv, TypeOK
    <2>3. now' = now \/ now' = now + 1
      BY DEF Fair
    <2>4. cache'[j].expiry \in Nat
      BY <2>1 DEF HandlerInv, TypeOK, Entry
    <2>5. CASE Held(j) /\ cache'[j].expiry = now + CACHE_TTL
      <3>1. quietSince[j] = Never
        BY <2>5 DEF IInv, QuietInv
      <3>2. quietSince'[j] \in {Never, now}
        BY <1>2, <3>1
      <3>3. cache'[j].expiry = now + CACHE_TTL
        BY <2>5
      <3>4. cache'[j].expiry <= now' + CACHE_TTL
        BY <2>2, <2>3, <3>3
      <3>5. quietSince'[j] # Never =>
              cache'[j].expiry <= quietSince'[j] + CACHE_TTL
        BY <2>2, <3>2, <3>3
      <3>6. QED
        BY <3>4, <3>5
    <2>6. CASE cache'[j] = cache[j]
      <3>1. /\ cache'[j].expiry <= now + CACHE_TTL
            /\ quietSince[j] # Never =>
                 cache'[j].expiry <= quietSince[j] + CACHE_TTL
        BY <2>1, <2>6 DEF IInv, AcceptanceInv
      <3>2. QED
        BY <1>2, <2>2, <2>4, <2>3, <3>1
    <2>7. QED
      BY <2>1, <2>5, <2>6 DEF Fair, AcceptancesFair
  <1>5. QED
    BY <1>1, <1>3, <1>4 DEF IInv

-----------------------------------------------------------------------------
(* The sessions                                                            *)

SessionsTyped == sessions \in [SessionId -> SessionDoc \cup {None}]

\* Closing sessions writes their active flag and nothing else.
LEMMA CloseFacts ==
    ASSUME SessionsTyped, NEW S \in SUBSET {s \in SessionId : Active(s)},
           Close(S)
    PROVE  /\ SessionsTyped'
           /\ \A s \in SessionId :
                /\ Exists(s)' <=> Exists(s)
                /\ Exists(s) => /\ sessions'[s].jti = sessions[s].jti
                                /\ sessions'[s].user = sessions[s].user
                                /\ sessions'[s].expiresAt
                                     = sessions[s].expiresAt
                /\ Active(s)' => Active(s)
  <1>1. ASSUME NEW s \in S
        PROVE  /\ sessions[s] \in SessionDoc
               /\ sessions'[s] = [sessions[s] EXCEPT !.active = FALSE]
    BY DEF SessionsTyped, Close, Active, Exists
  <1>2. ASSUME NEW s \in SessionId, s \notin S
        PROVE  sessions'[s] = sessions[s]
    BY <1>2 DEF Close
  <1>3. ASSUME NEW s \in S
        PROVE  /\ sessions'[s] \in SessionDoc
               /\ sessions'[s] # None
               /\ sessions'[s].jti = sessions[s].jti
               /\ sessions'[s].user = sessions[s].user
               /\ sessions'[s].expiresAt = sessions[s].expiresAt
    <2>1. /\ sessions'[s] \in SessionDoc
          /\ sessions'[s].jti = sessions[s].jti
          /\ sessions'[s].user = sessions[s].user
          /\ sessions'[s].expiresAt = sessions[s].expiresAt
      BY <1>1 DEF SessionDoc
    <2>2. QED
      BY <2>1, NoneAssumption
  <1>4. SessionsTyped'
    <2>1. ASSUME NEW s \in SessionId
          PROVE  sessions'[s] \in SessionDoc \cup {None}
      BY <1>2, <1>3 DEF SessionsTyped
    <2>2. QED
      BY <2>1 DEF SessionsTyped, Close
  <1>5. ASSUME NEW s \in SessionId
        PROVE  /\ Exists(s)' <=> Exists(s)
               /\ Exists(s) => /\ sessions'[s].jti = sessions[s].jti
                               /\ sessions'[s].user = sessions[s].user
                               /\ sessions'[s].expiresAt
                                    = sessions[s].expiresAt
               /\ Active(s)' => Active(s)
    BY <1>1, <1>2, <1>3 DEF Exists, Active
  <1>6. QED
    BY <1>4, <1>5

\* Every logout and the clean-up close sessions that are active.
LEMMA LogoutCloses ==
    ASSUME CloseSessions
    PROVE  \E S \in SUBSET {s \in SessionId : Active(s)} : Close(S)
  BY DEF CloseSessions, LogoutDevice, LogoutOtherDevices, LogoutAllDevices,
     CleanupExpiredSessions, SessionsOf, ActiveOf

\* What saving a session for token j leaves behind: s is its session, open if
\* it is new and as open as it was if it is not, and no other is touched.
Saved(s, j) ==
    /\ SessionsTyped'
    /\ Exists(s)'
    /\ sessions'[s].jti = j
    /\ sessions'[s].expiresAt = now + SESSION_TTL
    /\ Exists(s) => sessions'[s].active = sessions[s].active
    /\ \A x \in SessionId : x # s => sessions'[x] = sessions[x]

LEMMA UpdateFacts ==
    ASSUME SessionsTyped, now \in Nat, NEW s \in SessionId, Exists(s),
           NEW j \in Jti, UpdateSession(s, j)
    PROVE  Saved(s, j)
  <1>1. sessions[s] \in SessionDoc /\ now + SESSION_TTL \in Nat
    BY SessionAssumption DEF SessionsTyped, Exists
  <1>2. sessions' = [sessions EXCEPT ![s] =
            [sessions[s] EXCEPT !.jti = j, !.expiresAt = now + SESSION_TTL]]
    BY DEF UpdateSession
  <1>3. LET new == [sessions[s] EXCEPT !.jti = j,
                                       !.expiresAt = now + SESSION_TTL]
        IN  /\ new \in SessionDoc
            /\ new.jti = j
            /\ new.expiresAt = now + SESSION_TTL
            /\ new.active = sessions[s].active
    BY <1>1 DEF SessionDoc
  <1>4. QED
    BY <1>2, <1>3, NoneAssumption DEF SessionsTyped, Saved, Exists

LEMMA InsertFacts ==
    ASSUME SessionsTyped, now \in Nat, NEW u \in User, NEW d \in Device,
           NEW j \in Jti, InsertSession(u, d, j)
    PROVE  \E s \in SessionId : ~Exists(s) /\ Saved(s, j)
  <1> DEFINE new == [user |-> u, device |-> d, jti |-> j, active |-> TRUE,
                     expiresAt |-> now + SESSION_TTL]
  <1>1. new \in SessionDoc /\ new # None
    <2>1. new \in SessionDoc
      BY SessionAssumption DEF SessionDoc
    <2>2. QED
      BY <2>1, NoneAssumption
  <1>2. PICK s \in SessionId :
               ~Exists(s) /\ sessions' = [sessions EXCEPT ![s] = new]
    BY DEF InsertSession
  <1>3. QED
    BY <1>1, <1>2 DEF SessionsTyped, Saved, Exists

\* A save gives a session to no token but its own.
LEMMA SavedOpens ==
    ASSUME NEW s \in SessionId, NEW k \in Jti, Saved(s, k), now' = now,
           NEW j \in Jti, HasSession(j)'
    PROVE  HasSession(j) \/ j = k
  <1>1. PICK x \in SessionId : Open(x, j)'
    BY DEF HasSession
  <1>2. CASE x = s
    BY <1>1, <1>2 DEF Saved, Open
  <1>3. CASE x # s
    BY <1>1, <1>3 DEF Saved, Open, Active, Exists, HasSession
  <1>4. QED
    BY <1>2, <1>3

\* Whatever only closes sessions, or lets time pass, opens none.
LEMMA NoneOpened ==
    ASSUME NEW j \in Jti, HasSession(j)', now \in Nat, now' \in {now, now + 1},
           SessionsTyped', 
           \A s \in SessionId :
             Active(s)' => /\ Active(s)
                           /\ sessions'[s].jti = sessions[s].jti
                           /\ sessions'[s].expiresAt = sessions[s].expiresAt
    PROVE  HasSession(j)
  <1>1. PICK s \in SessionId : Open(s, j)'
    BY DEF HasSession
  <1>2. sessions'[s].expiresAt \in Nat
    BY <1>1 DEF Open, Active, Exists, SessionsTyped, SessionDoc
  <1>3. QED
    BY <1>1, <1>2 DEF Open, HasSession

-----------------------------------------------------------------------------
(* Shapes and frames                                                       *)

LEMMA IssuerShape ==
    ASSUME TypeOK, NEW l \in Issuer
    PROVE  /\ issuer[l] # Idle => issuer[l] \in Issuing
           /\ issuer[l].pc \in {"signed", "found", "saved", "warmed"} =>
                issuer[l] # Idle
  BY DEF TypeOK, Idle

LEMMA RequestShape ==
    ASSUME TypeOK, NEW r \in Request
    PROVE  /\ request[r] # Idle => request[r] \in Validating
           /\ request[r].pc \in {"presented", "missed", "present", "absent",
                                 "accepted", "rejected"} => request[r] # Idle
  BY DEF TypeOK, Idle

LEMMA ObserveTyped ==
    ASSUME TypeOK, Observe
    PROVE  quietSince' \in [Jti -> Nat \cup {Never}]
  BY DEF TypeOK, Observe

\* With collection and clock as they were, the sessions are the same.
LEMMA SameSessions ==
    ASSUME UNCHANGED <<now, sessions>>
    PROVE  /\ \A j \in Jti : HasSession(j)' <=> HasSession(j)
           /\ SessionsFair
           /\ \A s \in SessionId : Exists(s)' <=> Exists(s)
  BY DEF HasSession, Open, Active, Exists, SessionsFair

\* With cache, requests and clock as they were, the verdicts are the same.
LEMMA SameVerdicts ==
    ASSUME UNCHANGED <<now, cache, request>>
    PROVE  RefusalsFair /\ AcceptancesFair
  BY DEF RefusalsFair, AcceptancesFair, Rejecting, Negative, Cached

\* With issuers and requests as they were, so are the holders.
LEMMA SameHolders ==
    ASSUME UNCHANGED <<issuer, request>>
    PROVE  HoldersFair
  BY DEF HoldersFair, Held

LEMMA SameSignatures == ASSUME exp' = exp PROVE SignaturesStay
  BY DEF SignaturesStay, Signed

-----------------------------------------------------------------------------
(* Issuing                                                                 *)

LEMMA SignStep ==
    ASSUME IInv, NEW l \in Issuer, NEW u \in User, NEW d \in Device,
           NEW b \in BOOLEAN, Sign(l, u, d, b), Observe
    PROVE  HandlerInv' /\ Fair
  <1>0. TypeOK /\ IssuerInv /\ SignedInv /\ SessionOutlivesToken /\ DeliveredInv
    BY DEF IInv, HandlerInv
  <1> DEFINE new(j) == [pc |-> "signed", user |-> u, device |-> d, jti |-> j,
                        registers |-> b, found |-> None]
  <1>1. PICK j \in Jti : /\ ~Signed(j)
                         /\ exp' = [exp EXCEPT ![j] = now + TOKEN_TTL]
                         /\ issuer' = [issuer EXCEPT ![l] = new(j)]
    BY DEF Sign
  <1>2. UNCHANGED <<now, sessions, refreshed, delivered, cache, request>>
    BY DEF Sign
  <1>3. new(j) \in Issuing /\ new(j) # Idle
    BY DEF Issuing, Idle
  <1>4. now + TOKEN_TTL \in Nat
    BY <1>0, SessionAssumption DEF TypeOK
  <1>5. TypeOK'
    BY <1>0, <1>1, <1>2, <1>3, <1>4, ObserveTyped DEF TypeOK
  <1>6. /\ \A i \in Jti : Signed(i)' <=> Signed(i) \/ i = j
        /\ \A i \in Jti : i # j => exp'[i] = exp[i]
        /\ exp'[j] = now + TOKEN_TTL
    BY <1>0, <1>1, <1>4, CacheAssumption DEF TypeOK, Signed
  <1>7. /\ issuer'[l] = new(j)
        /\ \A m \in Issuer : m # l => issuer'[m] = issuer[m]
    BY <1>0, <1>1 DEF TypeOK
  <1>8. IssuerInv'
    <2>1. ASSUME NEW m \in Issuer, m # l, issuer[m] # Idle
          PROVE  issuer[m].jti # j /\ issuer[m].jti \in Jti
      BY <1>0, <1>1, <2>1, IssuerShape DEF IssuerInv, Issuing
    <2>2. ASSUME NEW m \in Issuer, m # l, issuer[m] # Idle
          PROVE  /\ Signed(issuer[m].jti)'
                 /\ exp'[issuer[m].jti] <= now' + TOKEN_TTL
                 /\ issuer[m].jti \notin delivered'
                 /\ \A n \in Issuer : Issues(n, issuer[m].jti)' => n = m
                 /\ issuer[m].found # None => Exists(issuer[m].found)'
      BY <1>0, <1>2, <1>6, <1>7, <2>1, <2>2 DEF IssuerInv, Issues, Exists
    <2>3. /\ Signed(j)'
          /\ exp'[j] <= now' + TOKEN_TTL
          /\ j \notin delivered'
      BY <1>0, <1>1, <1>2, <1>4, <1>6 DEF SignedInv
    <2>4. \A n \in Issuer : Issues(n, j)' => n = l
      BY <1>7, <2>1 DEF Issues
    <2>5. QED
      BY <1>7, <2>2, <2>3, <2>4 DEF IssuerInv
  <1>9. SignedInv'
    BY <1>0, <1>2, <1>6 DEF SignedInv, TypeOK, Exists, SessionDoc
  <1>10. SessionOutlivesToken'
    <2>1. ASSUME NEW s \in SessionId, Exists(s)
          PROVE  sessions[s].jti \in Jti /\ sessions[s].jti # j
      BY <1>0, <1>1, <2>1 DEF SignedInv, TypeOK, Exists, SessionDoc
    <2>2. QED
      BY <1>0, <1>2, <1>6, <2>1 DEF SessionOutlivesToken, Exists
  <1>11. DeliveredInv'
    BY <1>0, <1>2 DEF DeliveredInv
  <1>12. HoldersFair
    BY <1>1, <1>2, <1>7 DEF HoldersFair, Held
  <1>13. SignaturesStay
    BY <1>6 DEF SignaturesStay
  <1>14. QED
    BY <1>2, <1>5, <1>8, <1>9, <1>10, <1>11, <1>12, <1>13, SameSessions,
       SameVerdicts DEF HandlerInv, Fair

\* A step of an issuer that leaves its jti and the tokens alone.
LEMMA AdvanceStep ==
    ASSUME IInv, NEW l \in Issuer, issuer[l] # Idle, Observe,
           NEW i, i \in Issuing, i # Idle, i.jti = issuer[l].jti,
           i.found # None => Exists(i.found),
           i.pc \in {"signed", "found", "saved"} =>
              issuer[l].pc \in {"signed", "found", "saved"},
           issuer' = [issuer EXCEPT ![l] = i],
           UNCHANGED <<now, sessions, exp, refreshed, delivered, request>>,
           cache' \in [Jti -> Entry \cup {None}],
           \A j \in Jti : \/ cache'[j] = cache[j]
                          \/ cache'[j].isValid /\ Held(j)
                             /\ cache'[j].expiry = now + CACHE_TTL
    PROVE  HandlerInv' /\ Fair
  <1>0. TypeOK /\ IssuerInv /\ SignedInv /\ SessionOutlivesToken /\ DeliveredInv
    BY DEF IInv, HandlerInv
  <1>1. /\ issuer'[l] = i
        /\ \A m \in Issuer : m # l => issuer'[m] = issuer[m]
    BY <1>0 DEF TypeOK
  <1>2. TypeOK'
    BY <1>0, ObserveTyped DEF TypeOK
  <1>3. IssuerInv'
    BY <1>0, <1>1 DEF IssuerInv, Issues, Exists, Signed
  <1>4. SignedInv' /\ SessionOutlivesToken'
    BY <1>0 DEF SignedInv, SessionOutlivesToken, Exists, Signed
  <1>5. DeliveredInv'
    BY <1>0 DEF DeliveredInv
  <1>6. HoldersFair
    BY <1>1 DEF HoldersFair, Held
  <1>7. RefusalsFair
    BY DEF RefusalsFair, Rejecting, Negative, Cached
  <1>8. AcceptancesFair
    BY DEF AcceptancesFair
  <1>9. QED
    BY <1>2, <1>3, <1>4, <1>5, <1>6, <1>7, <1>8, SameSessions, SameSignatures
       DEF HandlerInv, Fair

LEMMA FindSessionStep ==
    ASSUME IInv, NEW l \in Issuer, FindSession(l), Observe
    PROVE  HandlerInv' /\ Fair
  <1>1. TypeOK
    BY DEF IInv, HandlerInv
  <1>2. issuer[l] \in Issuing /\ issuer[l] # Idle /\ issuer[l].pc = "signed"
    BY <1>1, IssuerShape DEF FindSession
  <1>3. PICK s \in SessionId \cup {None} :
            /\ s # None => Exists(s)
            /\ issuer' = [issuer EXCEPT ![l].pc = "found", ![l].found = s]
    BY DEF FindSession, SessionsOf, Active
  <1> DEFINE i == [issuer[l] EXCEPT !.pc = "found", !.found = s]
  <1>4. /\ i \in Issuing /\ i # Idle /\ i.jti = issuer[l].jti /\ i.found = s
        /\ i.pc = "found"
    BY <1>2 DEF Issuing, Idle
  <1>5. issuer' = [issuer EXCEPT ![l] = i]
    BY <1>3
  <1>6. UNCHANGED <<now, sessions, exp, refreshed, delivered, cache, request>>
    BY DEF FindSession
  <1>7. cache' \in [Jti -> Entry \cup {None}]
    BY <1>1, <1>6 DEF TypeOK
  <1> HIDE DEF i
  <1>8. QED
    BY <1>2, <1>3, <1>4, <1>5, <1>6, <1>7, AdvanceStep

LEMMA WarmCacheStep ==
    ASSUME IInv, NEW l \in Issuer, WarmCache(l), Observe
    PROVE  HandlerInv' /\ Fair
  <1>1. TypeOK /\ IssuerInv
    BY DEF IInv, HandlerInv
  <1>2. issuer[l] \in Issuing /\ issuer[l] # Idle /\ issuer[l].pc = "saved"
    BY <1>1, IssuerShape DEF WarmCache
  <1> DEFINE i == [issuer[l] EXCEPT !.pc = "warmed"]
  <1>3. /\ i \in Issuing /\ i # Idle /\ i.jti = issuer[l].jti
        /\ i.found = issuer[l].found /\ i.pc = "warmed"
    BY <1>2 DEF Issuing, Idle
  <1>4. issuer' = [issuer EXCEPT ![l] = i]
    BY DEF WarmCache
  <1>5. UNCHANGED <<now, sessions, exp, refreshed, delivered, request>>
    BY DEF WarmCache
  <1> DEFINE e == [isValid |-> TRUE, expiry |-> now + CACHE_TTL]
  <1>6. cache' = [cache EXCEPT ![issuer[l].jti] = e]
    BY DEF WarmCache, Remember
  <1>7. e \in Entry /\ e.isValid /\ e.expiry = now + CACHE_TTL
    BY <1>1, CacheAssumption DEF TypeOK, Entry
  <1>8. Held(issuer[l].jti) /\ issuer[l].jti \in Jti
    BY <1>2 DEF Held, Issuing
  <1>9. /\ cache' \in [Jti -> Entry \cup {None}]
        /\ \A j \in Jti : \/ cache'[j] = cache[j]
                          \/ cache'[j].isValid /\ Held(j)
                             /\ cache'[j].expiry = now + CACHE_TTL
    BY <1>1, <1>6, <1>7, <1>8 DEF TypeOK
  <1>10. i.found # None => Exists(i.found)
    BY <1>1, <1>2, <1>3 DEF IssuerInv
  <1> HIDE DEF i
  <1>11. QED
    BY <1>2, <1>3, <1>4, <1>5, <1>9, <1>10, AdvanceStep

\* What SaveSession writes.
LEMMA SaveSaves ==
    ASSUME IInv, NEW l \in Issuer, SaveSession(l)
    PROVE  /\ issuer[l] \in Issuing /\ issuer[l] # Idle
           /\ issuer[l].pc = "found"
           /\ \E s \in SessionId : Saved(s, issuer[l].jti)
  <1>1. TypeOK /\ IssuerInv /\ SessionsTyped /\ now \in Nat
    BY DEF IInv, HandlerInv, TypeOK, SessionsTyped
  <1>2. issuer[l] \in Issuing /\ issuer[l] # Idle /\ issuer[l].pc = "found"
    BY <1>1, IssuerShape DEF SaveSession
  <1>3. CASE issuer[l].found # None
             /\ UpdateSession(issuer[l].found, issuer[l].jti)
    <2>1. issuer[l].found \in SessionId /\ Exists(issuer[l].found)
          /\ issuer[l].jti \in Jti
      BY <1>1, <1>2, <1>3 DEF IssuerInv, Issuing
    <2>2. QED
      BY <1>1, <1>2, <1>3, <2>1, UpdateFacts
  <1>4. CASE InsertSession(issuer[l].user, issuer[l].device, issuer[l].jti)
    BY <1>1, <1>2, <1>4, InsertFacts DEF Issuing
  <1>5. QED
    BY <1>2, <1>3, <1>4 DEF SaveSession

LEMMA SaveSessionStep ==
    ASSUME IInv, NEW l \in Issuer, SaveSession(l), Observe
    PROVE  HandlerInv' /\ Fair
  <1>0. TypeOK /\ IssuerInv /\ SignedInv /\ SessionOutlivesToken /\ DeliveredInv
    BY DEF IInv, HandlerInv
  <1> DEFINE j == issuer[l].jti
             i == [issuer[l] EXCEPT !.pc = "saved"]
  <1>1. /\ issuer[l] \in Issuing /\ issuer[l] # Idle /\ issuer[l].pc = "found"
        /\ j \in Jti
    BY SaveSaves DEF Issuing
  <1>2. PICK s \in SessionId : Saved(s, j)
    BY SaveSaves
  <1>3. /\ i \in Issuing /\ i # Idle /\ i.jti = j /\ i.found = issuer[l].found
        /\ i.pc = "saved" /\ issuer' = [issuer EXCEPT ![l] = i]
    BY <1>1 DEF Issuing, Idle, SaveSession
  <1>4. UNCHANGED <<now, exp, refreshed, delivered, cache, request>>
    BY DEF SaveSession
  <1>5. Held(j) /\ j \notin delivered /\ Signed(j)
        /\ exp[j] <= now + TOKEN_TTL /\ exp[j] \in Nat
    BY <1>0, <1>1 DEF Held, IssuerInv, Signed, TypeOK
  <1> HIDE DEF i, j
  <1>6. /\ issuer'[l] = i
        /\ \A m \in Issuer : m # l => issuer'[m] = issuer[m]
    BY <1>0, <1>3 DEF TypeOK
  <1>7. \A x \in SessionId : Exists(x) => sessions'[x] # None
    BY <1>2 DEF Saved, Exists
  <1>8. TypeOK'
    BY <1>0, <1>2, <1>3, <1>4, ObserveTyped DEF TypeOK, Saved, SessionsTyped
  <1>9. IssuerInv'
    <2>1. ASSUME NEW m \in Issuer, issuer[m] # Idle, issuer[m].found # None
          PROVE  sessions'[issuer[m].found] # None
      <3>1. issuer[m].found \in SessionId
        BY <1>0, <2>1, IssuerShape DEF Issuing
      <3>2. Exists(issuer[m].found)
        BY <1>0, <2>1 DEF IssuerInv
      <3>3. QED
        BY <1>7, <3>1, <3>2
    <2>2. QED
      BY <1>0, <1>1, <1>3, <1>4, <1>6, <2>1
         DEF IssuerInv, Issues, Signed, Exists, j
  <1>10. SignedInv'
    BY <1>0, <1>2, <1>4, <1>5 DEF SignedInv, Saved, Exists, Signed
  <1>11. SessionOutlivesToken'
    <2>1. now + SESSION_TTL >= exp[j]
      BY <1>0, <1>5, SessionAssumption DEF TypeOK
    <2>2. QED
      BY <1>0, <1>2, <1>4, <2>1 DEF SessionOutlivesToken, Saved, Exists
  <1>12. DeliveredInv'
    BY <1>0, <1>4 DEF DeliveredInv
  <1>13. SessionsFair
    BY <1>1, <1>2, <1>4, <1>5, SavedOpens DEF SessionsFair
  <1>14. HoldersFair
    BY <1>1, <1>3, <1>4, <1>6 DEF HoldersFair, Held, j
  <1>15. QED
    BY <1>4, <1>8, <1>9, <1>10, <1>11, <1>12, <1>13, <1>14, SameVerdicts,
       SameSignatures DEF HandlerInv, Fair

\* An issuer ends, and its token reaches the client or is lost.
LEMMA EndStep ==
    ASSUME IInv, NEW l \in Issuer, issuer[l] # Idle, Observe,
           issuer' = [issuer EXCEPT ![l] = Idle],
           delivered' \in {delivered, delivered \cup {issuer[l].jti}},
           UNCHANGED <<now, sessions, exp, refreshed, cache, request>>
    PROVE  HandlerInv' /\ Fair
  <1>0. TypeOK /\ IssuerInv /\ SignedInv /\ SessionOutlivesToken /\ DeliveredInv
    BY DEF IInv, HandlerInv
  <1>1. issuer[l].jti \in Jti
    BY <1>0, IssuerShape DEF Issuing
  <1>2. /\ issuer'[l] = Idle
        /\ \A m \in Issuer : m # l => issuer'[m] = issuer[m]
    BY <1>0 DEF TypeOK
  <1>3. TypeOK'
    BY <1>0, <1>1, ObserveTyped DEF TypeOK
  <1>4. IssuerInv'
    BY <1>0, <1>2 DEF IssuerInv, Issues, Exists, Signed
  <1>5. SignedInv' /\ SessionOutlivesToken'
    BY <1>0 DEF IssuerInv, SignedInv, SessionOutlivesToken, Exists, Signed
  <1>6. DeliveredInv'
    BY <1>0 DEF DeliveredInv
  <1>7. HoldersFair
    BY <1>2 DEF HoldersFair, Held, Idle
  <1>8. QED
    BY <1>3, <1>4, <1>5, <1>6, <1>7, SameSessions, SameVerdicts, SameSignatures
       DEF HandlerInv, Fair

LEMMA RefreshStep ==
    ASSUME IInv, Refresh, Observe
    PROVE  HandlerInv' /\ Fair
  <1>0. TypeOK /\ IssuerInv /\ SignedInv /\ SessionOutlivesToken /\ DeliveredInv
    BY DEF IInv, HandlerInv
  <1>1. PICK j \in Jti : /\ ~Signed(j)
                         /\ exp' = [exp EXCEPT ![j] = now + TOKEN_TTL]
                         /\ refreshed' = refreshed \cup {j}
                         /\ delivered' = delivered \cup {j}
    BY DEF Refresh
  <1>2. UNCHANGED <<now, sessions, cache, issuer, request>>
    BY DEF Refresh
  <1>3. now + TOKEN_TTL \in Nat
    BY <1>0, SessionAssumption DEF TypeOK
  <1>4. TypeOK'
    BY <1>0, <1>1, <1>2, <1>3, ObserveTyped DEF TypeOK
  <1>5. /\ \A i \in Jti : Signed(i)' <=> Signed(i) \/ i = j
        /\ \A i \in Jti : i # j => exp'[i] = exp[i]
    BY <1>0, <1>1, <1>3, CacheAssumption DEF TypeOK, Signed
  <1>6. IssuerInv'
    <2>1. ASSUME NEW m \in Issuer, issuer[m] # Idle
          PROVE  issuer[m].jti # j /\ issuer[m].jti \in Jti
      BY <1>0, <1>1, <2>1, IssuerShape DEF IssuerInv, Issuing
    <2>2. QED
      BY <1>0, <1>1, <1>2, <1>5, <2>1 DEF IssuerInv, Issues, Exists
  <1>7. SignedInv'
    BY <1>0, <1>1, <1>2, <1>5 DEF SignedInv, TypeOK, Exists, SessionDoc
  <1>8. SessionOutlivesToken'
    <2>1. ASSUME NEW s \in SessionId, Exists(s)
          PROVE  sessions[s].jti \in Jti /\ sessions[s].jti # j
      BY <1>0, <1>1, <2>1 DEF SignedInv, TypeOK, Exists, SessionDoc
    <2>2. QED
      BY <1>0, <1>2, <1>5, <2>1 DEF SessionOutlivesToken, Exists
  <1>9. DeliveredInv'
    BY <1>0, <1>1, <1>2 DEF DeliveredInv
  <1>10. SignaturesStay
    BY <1>5 DEF SignaturesStay
  <1>11. QED
    BY <1>2, <1>4, <1>6, <1>7, <1>8, <1>9, <1>10, SameSessions, SameVerdicts,
       SameHolders DEF HandlerInv, Fair

-----------------------------------------------------------------------------
(* Validating                                                              *)

\* A step of one request, which keeps its token, and its entry in the cache.
LEMMA ValidateStep ==
    ASSUME IInv, NEW r \in Request, NEW q, q \in Validating \cup {Idle}, Observe,
           request' = [request EXCEPT ![r] = q],
           UNCHANGED <<now, sessions, exp, refreshed, delivered, issuer>>,
           cache' \in [Jti -> Entry \cup {None}],
           q # Idle => q.jti \in delivered,
           q.pc = "present" => HasSession(q.jti),
           q.pc \in {"absent", "rejected"} =>
              Rejecting(q.jti) \/ ~HasSession(q.jti),
           \A j \in Jti :
              \/ cache'[j] = cache[j]
              \/ /\ cache'[j].isValid /\ Held(j)
                 /\ cache'[j].expiry = now + CACHE_TTL
              \/ ~cache'[j].isValid /\ Rejecting(j) /\ j \in delivered
    PROVE  HandlerInv' /\ Fair
  <1>0. TypeOK /\ IssuerInv /\ SignedInv /\ SessionOutlivesToken /\ DeliveredInv
    BY DEF IInv, HandlerInv
  <1>1. /\ request'[r] = q
        /\ \A p \in Request : p # r => request'[p] = request[p]
    BY <1>0 DEF TypeOK
  <1>2. TypeOK'
    BY <1>0, ObserveTyped DEF TypeOK
  <1>3. IssuerInv' /\ SignedInv' /\ SessionOutlivesToken'
    BY <1>0 DEF IssuerInv, Issues, SignedInv, SessionOutlivesToken, Exists,
       Signed
  <1>4. DeliveredInv'
    BY <1>0, <1>1 DEF DeliveredInv
  <1>5. HoldersFair
    BY <1>1 DEF HoldersFair, Held
  <1>6. RefusalsFair
    <2>1. SUFFICES ASSUME NEW j \in Jti, Rejecting(j)'
                   PROVE  Rejecting(j) \/ ~HasSession(j)
      BY DEF RefusalsFair
    <2>2. CASE Negative(j)'
      BY <2>2 DEF Negative, Cached, Rejecting
    <2>3. CASE \E p \in Request : request'[p].pc \in {"absent", "rejected"}
                                    /\ request'[p].jti = j
      BY <1>1, <2>3 DEF Rejecting
    <2>4. QED
      BY <2>1, <2>2, <2>3 DEF Rejecting
  <1>7. AcceptancesFair
    BY DEF AcceptancesFair
  <1>8. QED
    BY <1>2, <1>3, <1>4, <1>5, <1>6, <1>7, SameSessions, SameSignatures
       DEF HandlerInv, Fair

LEMMA PresentStep ==
    ASSUME IInv, NEW r \in Request, NEW j \in Jti, Present(r, j), Observe
    PROVE  HandlerInv' /\ Fair
  <1> DEFINE q == [pc |-> "presented", jti |-> j]
  <1>1. q \in Validating /\ q.jti = j /\ q.pc = "presented"
    BY DEF Validating
  <1>2. j \in delivered /\ request' = [request EXCEPT ![r] = q]
        /\ UNCHANGED <<now, sessions, exp, refreshed, delivered, cache, issuer>>
    BY DEF Present
  <1>3. cache' \in [Jti -> Entry \cup {None}]
    BY <1>2 DEF IInv, HandlerInv, TypeOK
  <1> HIDE DEF q
  <1>4. QED
    BY <1>1, <1>2, <1>3, ValidateStep

\* A step that moves a request on and leaves the cache as it is.
LEMMA MoveStep ==
    ASSUME IInv, NEW r \in Request, Observe,
           request[r] # Idle,
           NEW label \in {"missed", "accepted", "rejected", "present", "absent"},
           request' = [request EXCEPT ![r].pc = label],
           UNCHANGED <<now, sessions, exp, refreshed, delivered, cache, issuer>>,
           label = "present" => HasSession(request[r].jti),
           label \in {"absent", "rejected"} =>
              Rejecting(request[r].jti) \/ ~HasSession(request[r].jti)
    PROVE  HandlerInv' /\ Fair
  <1>0. TypeOK /\ DeliveredInv
    BY DEF IInv, HandlerInv
  <1> DEFINE q == [request[r] EXCEPT !.pc = label]
  <1>1. q \in Validating /\ q.jti = request[r].jti /\ q.pc = label
    BY <1>0, RequestShape DEF Validating
  <1>2. request' = [request EXCEPT ![r] = q]
    OBVIOUS
  <1>3. request[r].jti \in delivered
    BY <1>0 DEF DeliveredInv
  <1>4. cache' \in [Jti -> Entry \cup {None}]
    BY <1>0 DEF TypeOK
  <1> HIDE DEF q
  <1>5. QED
    BY <1>1, <1>2, <1>3, <1>4, ValidateStep

LEMMA ReadCacheStep ==
    ASSUME IInv, NEW r \in Request, ReadCache(r), Observe
    PROVE  HandlerInv' /\ Fair
  <1>1. TypeOK
    BY DEF IInv, HandlerInv
  <1>2. request[r] # Idle /\ request[r].jti \in Jti
    BY <1>1, RequestShape DEF ReadCache, Validating
  <1>3. UNCHANGED <<now, sessions, exp, refreshed, delivered, cache, issuer>>
    BY DEF ReadCache
  <1>4. CASE ~Cached(request[r].jti)
    BY <1>2, <1>3, <1>4, MoveStep DEF ReadCache
  <1>5. CASE Cached(request[r].jti) /\ cache[request[r].jti].isValid
    BY <1>2, <1>3, <1>5, MoveStep DEF ReadCache
  <1>6. CASE Cached(request[r].jti) /\ ~cache[request[r].jti].isValid
    <2>1. Rejecting(request[r].jti)
      BY <1>6 DEF Rejecting, Negative
    <2>2. request' = [request EXCEPT ![r].pc = "rejected"]
      BY <1>6 DEF ReadCache
    <2>3. QED
      BY <1>2, <1>3, <2>1, <2>2, MoveStep
  <1>7. QED
    BY <1>4, <1>5, <1>6

LEMMA LookUpSessionStep ==
    ASSUME IInv, NEW r \in Request, LookUpSession(r), Observe
    PROVE  HandlerInv' /\ Fair
  <1>1. TypeOK
    BY DEF IInv, HandlerInv
  <1>2. request[r] # Idle
    BY <1>1, RequestShape DEF LookUpSession
  <1>3. UNCHANGED <<now, sessions, exp, refreshed, delivered, cache, issuer>>
    BY DEF LookUpSession
  <1>4. CASE HasSession(request[r].jti)
    BY <1>2, <1>3, <1>4, MoveStep DEF LookUpSession
  <1>5. CASE ~HasSession(request[r].jti)
    BY <1>2, <1>3, <1>5, MoveStep DEF LookUpSession
  <1>6. QED
    BY <1>4, <1>5

LEMMA CacheVerdictStep ==
    ASSUME IInv, NEW r \in Request, CacheVerdict(r), Observe
    PROVE  HandlerInv' /\ Fair
  <1>0. TypeOK /\ DeliveredInv
    BY DEF IInv, HandlerInv
  <1> DEFINE j == request[r].jti
             valid == request[r].pc = "present"
             e == [isValid |-> valid,
                   expiry |-> now + (IF valid THEN CACHE_TTL ELSE NEGATIVE_TTL)]
             q == [request[r] EXCEPT !.pc =
                     IF valid THEN "accepted" ELSE "rejected"]
  <1>1. /\ request[r] # Idle /\ request[r] \in Validating
        /\ request[r].pc \in {"present", "absent"}
    BY <1>0, RequestShape DEF CacheVerdict
  <1>2. /\ q \in Validating /\ q.jti = j
        /\ q.pc = (IF valid THEN "accepted" ELSE "rejected")
        /\ request' = [request EXCEPT ![r] = q]
        /\ UNCHANGED <<now, sessions, exp, refreshed, delivered, issuer>>
    BY <1>1 DEF Validating, CacheVerdict
  <1>3. j \in Jti /\ j \in delivered
    BY <1>0, <1>1 DEF Validating, DeliveredInv
  <1>4. cache' = [cache EXCEPT ![j] = e]
    BY DEF CacheVerdict, Remember
  <1>5. /\ e \in Entry
        /\ e.isValid <=> valid
        /\ valid => e.expiry = now + CACHE_TTL
    <2>1. now + CACHE_TTL \in Nat /\ now + NEGATIVE_TTL \in Nat
      BY <1>0, CacheAssumption DEF TypeOK
    <2>2. CASE valid
      <3>1. e = [isValid |-> TRUE, expiry |-> now + CACHE_TTL]
        BY <2>2
      <3>2. QED
        BY <2>1, <2>2, <3>1 DEF Entry
    <2>3. CASE ~valid
      <3>1. e = [isValid |-> FALSE, expiry |-> now + NEGATIVE_TTL]
        BY <2>3
      <3>2. QED
        BY <2>1, <2>3, <3>1 DEF Entry
    <2>4. QED
      BY <2>2, <2>3
  <1>6. valid => Held(j)
    BY DEF Held
  <1>7. ~valid => Rejecting(j)
    BY <1>1 DEF Rejecting
  <1>8. cache' \in [Jti -> Entry \cup {None}]
    BY <1>0, <1>4, <1>5 DEF TypeOK
  <1> HIDE DEF j, valid, e, q
  <1>9. \A i \in Jti :
            \/ cache'[i] = cache[i]
            \/ /\ cache'[i].isValid /\ Held(i)
               /\ cache'[i].expiry = now + CACHE_TTL
            \/ ~cache'[i].isValid /\ Rejecting(i) /\ i \in delivered
    BY <1>0, <1>3, <1>4, <1>5, <1>6, <1>7 DEF TypeOK
  <1>10. q.pc # "present" /\ (q.pc \in {"absent", "rejected"} => Rejecting(j))
    BY <1>2, <1>7
  <1>11. QED
    BY <1>2, <1>3, <1>8, <1>9, <1>10, ValidateStep

LEMMA LeaveStep ==
    ASSUME IInv, NEW r \in Request, Leave(r), Observe
    PROVE  HandlerInv' /\ Fair
  <1>1. Idle.pc = "idle"
    BY DEF Idle
  <1>2. /\ request' = [request EXCEPT ![r] = Idle]
        /\ UNCHANGED <<now, sessions, exp, refreshed, delivered, cache, issuer>>
    BY DEF Leave
  <1>3. cache' \in [Jti -> Entry \cup {None}]
    BY <1>2 DEF IInv, HandlerInv, TypeOK
  <1>4. QED
    BY <1>1, <1>2, <1>3, ValidateStep

-----------------------------------------------------------------------------
(* Logouts, the clean-up and the clock                                     *)

\* A step that at most closes sessions or lets time pass.
LEMMA CloseOrTickStep ==
    ASSUME IInv, Observe, SessionsTyped', now' \in {now, now + 1},
           UNCHANGED <<exp, refreshed, delivered, cache, issuer, request>>,
           \A s \in SessionId :
              /\ Exists(s)' <=> Exists(s)
              /\ Exists(s) =>
                   /\ sessions'[s].jti = sessions[s].jti
                   /\ sessions'[s].expiresAt = sessions[s].expiresAt
              /\ Active(s)' => Active(s)
    PROVE  HandlerInv' /\ Fair
  <1>0. TypeOK /\ IssuerInv /\ SignedInv /\ SessionOutlivesToken /\ DeliveredInv
    BY DEF IInv, HandlerInv
  <1>1. now \in Nat /\ now' \in Nat /\ now <= now'
    BY <1>0 DEF TypeOK
  <1>2. TypeOK'
    BY <1>0, <1>1, ObserveTyped DEF TypeOK, SessionsTyped
  <1>3. IssuerInv'
    <2>1. ASSUME NEW m \in Issuer, issuer[m] # Idle
          PROVE  /\ issuer[m].found \in SessionId \cup {None}
                 /\ issuer[m].jti \in Jti
      BY <1>0, <2>1, IssuerShape DEF Issuing
    <2>2. ASSUME NEW m \in Issuer, issuer[m] # Idle
          PROVE  exp[issuer[m].jti] <= now' + TOKEN_TTL
      <3>1. /\ exp[issuer[m].jti] <= now + TOKEN_TTL
            /\ exp[issuer[m].jti] \in Nat
        BY <1>0, <2>1, <2>2 DEF IssuerInv, TypeOK, Signed
      <3>2. QED
        BY <1>1, <3>1, SessionAssumption
    <2>3. ASSUME NEW m \in Issuer, issuer[m] # Idle, issuer[m].found # None
          PROVE  Exists(issuer[m].found)'
      <3>1. issuer[m].found \in SessionId /\ Exists(issuer[m].found)
        BY <1>0, <2>1, <2>3 DEF IssuerInv
      <3>2. QED
        BY <3>1
    <2>4. QED
      BY <1>0, <2>2, <2>3 DEF IssuerInv, Issues, Signed
  <1>4. SignedInv' /\ SessionOutlivesToken'
    BY <1>0 DEF SignedInv, SessionOutlivesToken, Signed
  <1>5. DeliveredInv'
    BY <1>0 DEF DeliveredInv
  <1>6. SessionsFair
    <2>1. \A s \in SessionId : Active(s) => Exists(s)
      BY DEF Active
    <2>2. QED
      BY <1>1, <2>1, NoneOpened DEF SessionsFair
  <1>7. RefusalsFair
    <2>1. \A j \in Jti : Negative(j)' => Negative(j)
      <3>1. ASSUME NEW j \in Jti, Negative(j)'
            PROVE  Negative(j)
        <4>1. cache[j] \in Entry
          BY <1>0, <3>1 DEF TypeOK, Negative, Cached
        <4>2. cache[j].expiry \in Nat
          BY <4>1 DEF Entry
        <4>3. QED
          BY <1>1, <3>1, <4>2 DEF Negative, Cached
      <3>2. QED
        BY <3>1
    <2>2. QED
      BY <2>1 DEF RefusalsFair, Rejecting
  <1>8. AcceptancesFair
    BY DEF AcceptancesFair
  <1>9. QED
    BY <1>2, <1>3, <1>4, <1>5, <1>6, <1>7, <1>8, SameHolders, SameSignatures
       DEF HandlerInv, Fair

LEMMA CloseSessionsStep ==
    ASSUME IInv, CloseSessions, Observe
    PROVE  HandlerInv' /\ Fair
  <1>1. SessionsTyped
    BY DEF IInv, HandlerInv, TypeOK, SessionsTyped
  <1>2. PICK S \in SUBSET {s \in SessionId : Active(s)} : Close(S)
    BY LogoutCloses
  <1>3. UNCHANGED <<now, exp, refreshed, delivered, cache, issuer, request>>
    BY DEF CloseSessions
  <1>4. QED
    BY <1>1, <1>2, <1>3, CloseFacts, CloseOrTickStep

LEMMA TickStep ==
    ASSUME IInv, Tick, Observe
    PROVE  HandlerInv' /\ Fair
  <1>1. SessionsTyped'
    BY DEF IInv, HandlerInv, TypeOK, SessionsTyped, Tick
  <1>2. \A s \in SessionId : (Exists(s)' <=> Exists(s))
                             /\ (Active(s)' <=> Active(s))
    BY DEF Tick, Exists, Active
  <1>3. QED
    BY <1>1, <1>2, CloseOrTickStep DEF Tick

-----------------------------------------------------------------------------
(* The invariant                                                           *)

LEMMA InitIInv == Init => IInv
  <1> SUFFICES ASSUME Init PROVE IInv
    OBVIOUS
  <1>1. TypeOK
    BY DEF Init, TypeOK
  <1>2. IssuerInv /\ SignedInv /\ SessionOutlivesToken /\ DeliveredInv
    BY DEF Init, IssuerInv, SignedInv, SessionOutlivesToken, DeliveredInv,
       Exists
  <1>3. RejectionIsFinal
    BY DEF Init, RejectionIsFinal, Rejecting, Negative, Cached, Idle
  <1>4. QuietInv /\ AcceptanceInv
    BY DEF Init, QuietInv, AcceptanceInv
  <1>5. QED
    BY <1>1, <1>2, <1>3, <1>4 DEF IInv, HandlerInv

LEMMA StutterIInv == IInv /\ UNCHANGED vars => IInv'
  <1> SUFFICES ASSUME IInv, UNCHANGED vars PROVE IInv'
    OBVIOUS
  <1>1. HandlerInv'
    BY DEF vars, IInv, HandlerInv, TypeOK, IssuerInv, Issues, SignedInv,
       SessionOutlivesToken, DeliveredInv, Exists, Signed
  <1>2. \A j \in Jti : /\ HasSession(j)' <=> HasSession(j)
                       /\ Held(j)' <=> Held(j)
                       /\ Rejecting(j)' <=> Rejecting(j)
                       /\ Signed(j)' <=> Signed(j)
    BY DEF vars, HasSession, Open, Active, Exists, Held, Rejecting, Negative,
       Cached, Signed
  <1>3. RejectionIsFinal' /\ QuietInv' /\ AcceptanceInv'
    BY <1>2 DEF vars, IInv, RejectionIsFinal, QuietInv, AcceptanceInv
  <1>4. QED
    BY <1>1, <1>3 DEF IInv

LEMMA NextIInv == IInv /\ [Next]_vars => IInv'
  <1> SUFFICES ASSUME IInv, [Next]_vars PROVE IInv'
    OBVIOUS
  <1>1. ASSUME NEW l \in Issuer, NEW u \in User, NEW d \in Device,
               NEW b \in BOOLEAN, Sign(l, u, d, b), Observe
        PROVE  IInv'
    BY <1>1, SignStep, FairStep
  <1>2. ASSUME NEW l \in Issuer, FindSession(l), Observe
        PROVE  IInv'
    BY <1>2, FindSessionStep, FairStep
  <1>3. ASSUME NEW l \in Issuer, SaveSession(l), Observe
        PROVE  IInv'
    BY <1>3, SaveSessionStep, FairStep
  <1>4. ASSUME NEW l \in Issuer, WarmCache(l), Observe
        PROVE  IInv'
    BY <1>4, WarmCacheStep, FairStep
  <1>5. ASSUME NEW l \in Issuer, Deliver(l), Observe
        PROVE  IInv'
    <2>1. issuer[l] # Idle
      BY <1>5, IssuerShape DEF Deliver, IInv, HandlerInv
    <2>2. QED
      BY <1>5, <2>1, EndStep, FairStep DEF Deliver
  <1>6. ASSUME NEW l \in Issuer, FailToIssue(l), Observe
        PROVE  IInv'
    BY <1>6, EndStep, FairStep DEF FailToIssue
  <1>7. CASE Refresh /\ Observe
    BY <1>7, RefreshStep, FairStep
  <1>8. ASSUME NEW r \in Request, NEW j \in Jti, Present(r, j), Observe
        PROVE  IInv'
    BY <1>8, PresentStep, FairStep
  <1>9. ASSUME NEW r \in Request, ReadCache(r), Observe
        PROVE  IInv'
    BY <1>9, ReadCacheStep, FairStep
  <1>10. ASSUME NEW r \in Request, LookUpSession(r), Observe
         PROVE  IInv'
    BY <1>10, LookUpSessionStep, FairStep
  <1>11. ASSUME NEW r \in Request, CacheVerdict(r), Observe
         PROVE  IInv'
    BY <1>11, CacheVerdictStep, FairStep
  <1>12. ASSUME NEW r \in Request, Leave(r), Observe
         PROVE  IInv'
    BY <1>12, LeaveStep, FairStep
  <1>13. CASE CloseSessions /\ Observe
    BY <1>13, CloseSessionsStep, FairStep
  <1>14. CASE Tick /\ Observe
    BY <1>14, TickStep, FairStep
  <1>15. CASE UNCHANGED vars
    BY <1>15, StutterIInv
  <1>16. QED
    BY <1>1, <1>2, <1>3, <1>4, <1>5, <1>6, <1>7, <1>8, <1>9, <1>10, <1>11,
       <1>12, <1>13, <1>14, <1>15 DEF Next

\* IInv holds in every reachable state.
THEOREM InductiveInvariant == Spec => []IInv
  BY InitIInv, NextIInv, PTL DEF Spec

\* Every variable keeps its type.
THEOREM TypeCorrect == Spec => []TypeOK
  <1>1. IInv => TypeOK
    BY DEF IInv, HandlerInv
  <1>2. QED
    BY <1>1, InductiveInvariant, PTL

\* No session ends before the token it was saved for.
THEOREM SessionOutlivesTokenHolds == Spec => []SessionOutlivesToken
  <1>1. IInv => SessionOutlivesToken
    BY DEF IInv, HandlerInv
  <1>2. QED
    BY <1>1, InductiveInvariant, PTL

\* A cached refusal, and one about to be cached, is never overtaken by the
\* creation of the session.
THEOREM RejectionIsFinalHolds == Spec => []RejectionIsFinal
  <1>1. IInv => RejectionIsFinal
    BY DEF IInv
  <1>2. QED
    BY <1>1, InductiveInvariant, PTL

\* Once its session is closed and no handler takes it for open, a token is let
\* in for no longer than the life of a cache entry.
THEOREM StaleAcceptanceBoundedHolds == Spec => []StaleAcceptanceBounded
  <1>1. IInv => StaleAcceptanceBounded
    BY DEF IInv, AcceptanceInv, StaleAcceptanceBounded, Positive, Cached
  <1>2. QED
    BY <1>1, InductiveInvariant, PTL

\* A closed session is never opened again.
THEOREM ClosedStaysClosedHolds == Spec => ClosedStaysClosed
  <1>1. IInv /\ [Next]_vars =>
          [\A s \in SessionId : Exists(s) /\ ~Active(s) => ~Active(s)']_vars
    <2> SUFFICES ASSUME IInv, [Next]_vars, NEW s \in SessionId,
                        Exists(s), ~Active(s)
                 PROVE  ~Active(s)'
      OBVIOUS
    <2>1. CASE sessions' = sessions
      BY <2>1 DEF Active, Exists
    <2>2. ASSUME NEW l \in Issuer, SaveSession(l)
          PROVE  ~Active(s)'
      BY <2>2, SaveSaves DEF Saved, Active, Exists
    <2>3. CASE CloseSessions
      <3>1. SessionsTyped
        BY DEF IInv, HandlerInv, TypeOK, SessionsTyped
      <3>2. PICK S \in SUBSET {x \in SessionId : Active(x)} : Close(S)
        BY <2>3, LogoutCloses
      <3>3. QED
        BY <3>1, <3>2, CloseFacts
    <2>4. QED
      BY <2>1, <2>2, <2>3
         DEF Next, vars, Sign, FindSession, WarmCache, Deliver, FailToIssue,
             Refresh, Present, ReadCache, LookUpSession, CacheVerdict, Leave,
             Tick
  <1>2. QED
    BY <1>1, InductiveInvariant, PTL DEF Spec, ClosedStaysClosed

-----------------------------------------------------------------------------
(* The refinement of SessionGate                                           *)

\* A login that has yet to save its session: its token has none.
NoSessionYet == \A j \in Jti : Pending(j) => ~HasSession(j)

\* An issuer keeps its token, or begins with one that is signed only then.
IssuersCourse ==
    \A l \in Issuer : issuer'[l] # Idle =>
        \/ /\ issuer[l] # Idle
           /\ issuer'[l].jti = issuer[l].jti
           /\ issuer'[l].pc \in {"signed", "found"} =>
                issuer[l].pc \in {"signed", "found"}
        \/ issuer'[l].pc = "signed" /\ ~Signed(issuer'[l].jti)

\* A request is about a token that some client had before.
RequestsCourse ==
    \A r \in Request : request'[r] # Idle => request'[r].jti \in delivered

\* Only the session of a token that is pending opens, and then it no longer is.
SessionsCourse ==
    \A j \in Jti : HasSession(j)' =>
        HasSession(j) \/ (Pending(j) /\ ~Pending(j)')

LEMMA IssuersMove ==
    ASSUME IInv, Next
    PROVE  IssuersCourse
  <1>1. TypeOK
    BY DEF IInv, HandlerInv
  <1>2. ASSUME issuer' = issuer
        PROVE  IssuersCourse
    BY <1>2 DEF IssuersCourse
  <1>3. ASSUME NEW l \in Issuer, NEW u \in User, NEW d \in Device,
               NEW b \in BOOLEAN, Sign(l, u, d, b)
        PROVE  IssuersCourse
    <2>1. PICK j \in Jti :
             /\ ~Signed(j)
             /\ issuer' = [issuer EXCEPT ![l] =
                     [pc |-> "signed", user |-> u, device |-> d, jti |-> j,
                      registers |-> b, found |-> None]]
      BY <1>3 DEF Sign
    <2>2. QED
      BY <1>1, <2>1 DEF TypeOK, IssuersCourse
  <1>4. ASSUME NEW l \in Issuer, FindSession(l)
        PROVE  IssuersCourse
    <2>1. issuer[l] \in Issuing /\ issuer[l] # Idle
      BY <1>1, <1>4, IssuerShape DEF FindSession
    <2>2. PICK s : issuer' = [issuer EXCEPT ![l].pc = "found", ![l].found = s]
      BY <1>4 DEF FindSession
    <2>3. QED
      BY <1>1, <1>4, <2>1, <2>2
         DEF TypeOK, IssuersCourse, FindSession, Issuing
  <1>5. ASSUME NEW l \in Issuer, SaveSession(l) \/ WarmCache(l)
        PROVE  IssuersCourse
    <2>1. issuer[l] \in Issuing /\ issuer[l] # Idle
      BY <1>1, <1>5, IssuerShape DEF SaveSession, WarmCache
    <2>2. PICK pc \in {"saved", "warmed"} :
             issuer' = [issuer EXCEPT ![l].pc = pc]
      BY <1>5 DEF SaveSession, WarmCache
    <2>3. QED
      BY <1>1, <2>1, <2>2 DEF TypeOK, IssuersCourse, Issuing
  <1>6. ASSUME NEW l \in Issuer, Deliver(l) \/ FailToIssue(l)
        PROVE  IssuersCourse
    BY <1>1, <1>6 DEF TypeOK, IssuersCourse, Deliver, FailToIssue
  <1>7. QED
    BY <1>2, <1>3, <1>4, <1>5, <1>6
       DEF Next, Refresh, Present, ReadCache, LookUpSession, CacheVerdict,
           Leave, CloseSessions, Tick

LEMMA RequestsMove ==
    ASSUME IInv, Next
    PROVE  RequestsCourse
  <1>1. TypeOK /\ DeliveredInv
    BY DEF IInv, HandlerInv
  <1>2. ASSUME request' = request
        PROVE  RequestsCourse
    BY <1>1, <1>2 DEF RequestsCourse, DeliveredInv
  <1>3. ASSUME NEW r \in Request, NEW j \in Jti, Present(r, j)
        PROVE  RequestsCourse
    BY <1>1, <1>3 DEF RequestsCourse, DeliveredInv, Present, TypeOK
  <1>4. ASSUME NEW r \in Request,
               ReadCache(r) \/ LookUpSession(r) \/ CacheVerdict(r)
        PROVE  RequestsCourse
    <2>1. request[r] # Idle /\ request[r] \in Validating
      BY <1>1, <1>4, RequestShape DEF ReadCache, LookUpSession, CacheVerdict
    <2>2. \E pc : request' = [request EXCEPT ![r].pc = pc]
      BY <1>4 DEF ReadCache, LookUpSession, CacheVerdict
    <2>3. QED
      BY <1>1, <2>1, <2>2 DEF RequestsCourse, DeliveredInv, TypeOK, Validating
  <1>5. ASSUME NEW r \in Request, Leave(r)
        PROVE  RequestsCourse
    BY <1>1, <1>5 DEF RequestsCourse, DeliveredInv, TypeOK, Leave
  <1>6. QED
    BY <1>2, <1>3, <1>4, <1>5
       DEF Next, Sign, FindSession, SaveSession, WarmCache, Deliver,
           FailToIssue, Refresh, CloseSessions, Tick

LEMMA SessionsMove ==
    ASSUME IInv, Next
    PROVE  SessionsCourse
  <1>1. TypeOK /\ IssuerInv /\ SessionsTyped
    BY DEF IInv, HandlerInv, TypeOK, SessionsTyped
  <1>2. ASSUME UNCHANGED <<now, sessions>>
        PROVE  SessionsCourse
    BY <1>2, SameSessions DEF SessionsCourse
  <1>3. ASSUME NEW l \in Issuer, SaveSession(l)
        PROVE  SessionsCourse
    <2>1. /\ issuer[l] \in Issuing /\ issuer[l] # Idle
          /\ issuer[l].pc = "found"
          /\ \E s \in SessionId : Saved(s, issuer[l].jti)
      BY <1>3, SaveSaves
    <2>2. PICK k \in Jti : k = issuer[l].jti
      BY <2>1 DEF Issuing
    <2>0. now' = now
      BY <1>3 DEF SaveSession
    <2>3. /\ issuer'[l] # Idle => issuer'[l].pc = "saved"
          /\ \A m \in Issuer : m # l => issuer'[m] = issuer[m]
      BY <1>1, <1>3, <2>1 DEF SaveSession, TypeOK, Issuing
    <2>4. Pending(k) /\ ~Pending(k)'
      <3>1. Pending(k)
        BY <2>1, <2>2 DEF Pending
      <3>2. ASSUME NEW m \in Issuer, issuer'[m].pc \in {"signed", "found"},
                   issuer'[m].jti = k
            PROVE  FALSE
        <4>1. m # l
          BY <2>3, <3>2 DEF Idle
        <4>2. Issues(m, issuer[l].jti)
          BY <2>2, <2>3, <3>2, <4>1 DEF Issues, Idle
        <4>3. QED
          BY <1>1, <2>1, <4>1, <4>2 DEF IssuerInv
      <3>3. QED
        BY <3>1, <3>2 DEF Pending
    <2>5. ASSUME NEW j \in Jti, HasSession(j)'
          PROVE  HasSession(j) \/ j = k
      BY <2>0, <2>1, <2>2, <2>5, SavedOpens
    <2>6. QED
      BY <2>4, <2>5 DEF SessionsCourse
  <1>4. ASSUME CloseSessions
        PROVE  SessionsCourse
    <2>1. PICK S \in SUBSET {s \in SessionId : Active(s)} : Close(S)
      BY <1>4, LogoutCloses
    <2>2. \A s \in SessionId : Active(s) => Exists(s)
      BY DEF Active
    <2>3. QED
      BY <1>1, <1>4, <2>1, <2>2, CloseFacts, NoneOpened
         DEF SessionsCourse, CloseSessions, TypeOK
  <1>5. ASSUME Tick
        PROVE  SessionsCourse
    BY <1>1, <1>5, NoneOpened
       DEF SessionsCourse, Tick, SessionsTyped, Active, Exists, TypeOK
  <1>6. QED
    BY <1>2, <1>3, <1>4, <1>5
       DEF Next, Sign, FindSession, WarmCache, Deliver, FailToIssue, Refresh,
           Present, ReadCache, LookUpSession, CacheVerdict, Leave

\* No step takes a signature back, and each one observes.
LEMMA SignaturesMove ==
    ASSUME IInv, Next
    PROVE  SignaturesStay /\ Observe
  <1>1. TypeOK
    BY DEF IInv, HandlerInv
  <1>2. Observe
    BY DEF Next
  <1>3. exp' = exp \/ \E j \in Jti : ~Signed(j) /\
                         exp' = [exp EXCEPT ![j] = now + TOKEN_TTL]
    BY DEF Next, Sign, FindSession, SaveSession, WarmCache, Deliver,
       FailToIssue, Refresh, Present, ReadCache, LookUpSession, CacheVerdict,
       Leave, CloseSessions, Tick
  <1>4. QED
    BY <1>1, <1>2, <1>3 DEF SignaturesStay, Signed, TypeOK

\* A token is pending from its signature on, until its login saves a session.
LEMMA PendingFacts ==
    ASSUME IInv, IInv', IssuersCourse, RequestsCourse, NEW j \in Jti
    PROVE  /\ Pending(j) => Signed(j) /\ Held(j) /\ j \notin delivered
           /\ Pending(j)' => Pending(j) \/ ~Signed(j)
           /\ Held(j)' /\ ~Signed(j) => Pending(j)'
  <1>1. TypeOK /\ IssuerInv /\ SignedInv
    BY DEF IInv, HandlerInv
  <1>2. Pending(j) => Signed(j) /\ Held(j) /\ j \notin delivered
    BY <1>1, IssuerShape DEF Pending, Held, IssuerInv
  <1>3. \A l \in Issuer : issuer'[l].pc \in {"signed", "found", "saved"} =>
           issuer'[l] # Idle
    BY DEF Idle
  <1>4. Pending(j)' => Pending(j) \/ ~Signed(j)
    BY <1>3 DEF Pending, IssuersCourse
  <1>5. ASSUME Held(j)', ~Signed(j)
        PROVE  Pending(j)'
    <2>1. ASSUME NEW l \in Issuer, issuer'[l].jti = j,
                 issuer'[l].pc \in {"signed", "found", "saved"}
          PROVE  Pending(j)'
      <3>1. CASE issuer[l] # Idle /\ issuer'[l].jti = issuer[l].jti
        BY <1>1, <1>5, <2>1, <3>1 DEF IssuerInv
      <3>2. CASE issuer'[l].pc = "signed"
        BY <2>1, <3>2 DEF Pending
      <3>3. QED
        BY <1>3, <2>1, <3>1, <3>2 DEF IssuersCourse
    <2>2. ASSUME NEW r \in Request, request'[r].pc = "present",
                 request'[r].jti = j
          PROVE  FALSE
      <3>1. j \in delivered
        BY <2>2 DEF RequestsCourse, Idle
      <3>2. QED
        BY <1>1, <1>5, <3>1 DEF SignedInv
    <2>3. QED
      BY <1>5, <2>1, <2>2 DEF Held
  <1>6. QED
    BY <1>2, <1>4, <1>5

\* What the stage of a token says of it.
LEMMA StageFacts ==
    ASSUME IInv, NoSessionYet, NEW j \in Jti
    PROVE  /\ StageOf(j) = "unsigned" <=> ~Signed(j)
           /\ StageOf(j) = "open" <=> HasSession(j)
           /\ StageOf(j) = "closed" <=> quietSince[j] # Never
           /\ StageOf(j) = "pending" <=> Pending(j)
           /\ StageOf(j) \in {"unsigned", "pending", "open", "closing",
                              "closed"}
           /\ j \in delivered => StageOf(j) \in {"open", "closing", "closed"}
           /\ Held(j) => StageOf(j) # "closed"
  <1>1. HasSession(j) => Signed(j)
    BY DEF HasSession, Open, Active, IInv, HandlerInv, SignedInv
  <1>2. quietSince[j] # Never => Signed(j) /\ ~HasSession(j) /\ ~Held(j)
    BY DEF IInv, QuietInv
  <1>3. Pending(j) => Signed(j) /\ j \notin delivered /\ Held(j)
    BY IssuerShape DEF Pending, Held, IInv, HandlerInv, IssuerInv
  <1>4. j \in delivered => Signed(j)
    BY DEF IInv, HandlerInv, SignedInv
  <1>5. QED
    BY <1>1, <1>2, <1>3, <1>4 DEF StageOf, NoSessionYet

LEMMA NextStageFacts ==
    (IInv /\ NoSessionYet)' =>
        (\A j \in Jti :
           /\ StageOf(j) = "unsigned" <=> ~Signed(j)
           /\ StageOf(j) = "open" <=> HasSession(j)
           /\ StageOf(j) = "closed" <=> quietSince[j] # Never
           /\ StageOf(j) = "pending" <=> Pending(j)
           /\ StageOf(j) \in {"unsigned", "pending", "open", "closing",
                              "closed"})'
  <1>1. IInv /\ NoSessionYet =>
          \A j \in Jti :
             /\ StageOf(j) = "unsigned" <=> ~Signed(j)
             /\ StageOf(j) = "open" <=> HasSession(j)
             /\ StageOf(j) = "closed" <=> quietSince[j] # Never
             /\ StageOf(j) = "pending" <=> Pending(j)
             /\ StageOf(j) \in {"unsigned", "pending", "open", "closing",
                                "closed"}
    BY StageFacts
  <1>2. QED
    BY <1>1, PTL

LEMMA NoSessionYetKept ==
    ASSUME IInv, IInv', NoSessionYet, IssuersCourse, RequestsCourse,
           SessionsCourse
    PROVE  NoSessionYet'
  <1> SUFFICES ASSUME NEW j \in Jti, Pending(j)', HasSession(j)'
               PROVE  FALSE
    BY DEF NoSessionYet
  <1>1. HasSession(j)
    BY DEF SessionsCourse
  <1>2. Signed(j)
    BY <1>1, StageFacts
  <1>3. Pending(j)
    BY <1>2, PendingFacts
  <1>4. QED
    BY <1>1, <1>3 DEF NoSessionYet

LEMMA CourseAdvances ==
    ASSUME IInv, IInv', NoSessionYet, IssuersCourse, RequestsCourse,
           SessionsCourse, SignaturesStay, Observe
    PROVE  Gate!Advance
  <1>1. NoSessionYet'
    BY NoSessionYetKept
  <1>2. ASSUME NEW j \in Jti
        PROVE  /\ StageOf(j)' \in {"unsigned", "pending", "open", "closing",
                                   "closed"}
               /\ StageOf(j)' = "closed" <=> quietSince'[j] # Never
               /\ StageOf(j)' = "unsigned" <=> ~Signed(j)'
               /\ StageOf(j)' = "open" <=> HasSession(j)'
               /\ StageOf(j)' = "pending" <=> Pending(j)'
    BY <1>1, NextStageFacts
  <1>3. \A j \in Jti : quietSince'[j] =
          IF quietSince[j] = Never /\ Signed(j)' /\ ~HasSession(j)' /\ ~Held(j)'
          THEN now ELSE quietSince[j]
    BY DEF Observe
  <1>4. ASSUME NEW j \in Jti
        PROVE  StageOf(j)' \in Gate!Course[StageOf(j)]
    <2>1. CASE StageOf(j) = "unsigned"
      <3>1. ~Signed(j) /\ ~HasSession(j) /\ ~Pending(j)
        BY <2>1, StageFacts
      <3>2. ~HasSession(j)' /\ (Held(j)' => Pending(j)')
        BY <3>1, PendingFacts DEF SessionsCourse
      <3>3. now # Never
        BY CacheAssumption DEF IInv, HandlerInv, TypeOK
      <3>4. Signed(j)' /\ ~Pending(j)' => quietSince'[j] # Never
        BY <1>3, <3>2, <3>3
      <3>5. QED
        BY <1>2, <2>1, <3>2, <3>4 DEF Gate!Course
    <2>2. CASE StageOf(j) = "pending"
      BY <1>2, <2>2, StageFacts DEF Gate!Course, SignaturesStay
    <2>3. CASE StageOf(j) = "open"
      BY <1>2, <2>3, StageFacts, PendingFacts
         DEF Gate!Course, SignaturesStay, NoSessionYet
    <2>4. CASE StageOf(j) = "closing"
      BY <1>2, <2>4, StageFacts, PendingFacts
         DEF Gate!Course, SignaturesStay, SessionsCourse, StageOf
    <2>5. CASE StageOf(j) = "closed"
      BY <1>2, <1>3, <2>5, StageFacts DEF Gate!Course
    <2>6. QED
      BY <2>1, <2>2, <2>3, <2>4, <2>5, StageFacts
  <1>5. quietSince' = [j \in Jti |-> IF StageOf(j) # "closed"
                                        /\ StageOf(j)' = "closed"
                                     THEN now ELSE quietSince[j]]
    <2>1. ASSUME NEW j \in Jti
          PROVE  quietSince'[j] = IF StageOf(j) # "closed"
                                     /\ StageOf(j)' = "closed"
                                  THEN now ELSE quietSince[j]
      BY <1>2, <1>3, StageFacts
    <2>2. QED
      BY <2>1 DEF Observe
  <1>6. \A j \in Jti : Stages[j] = StageOf(j) /\ Stages'[j] = StageOf(j)'
    BY DEF Stages
  <1>7. Stages' \in [Jti -> DOMAIN Gate!Course]
    <2>1. DOMAIN Gate!Course = {"unsigned", "pending", "open", "closing",
                                "closed"}
      BY DEF Gate!Course
    <2>2. QED
      BY <1>2, <2>1 DEF Stages
  <1>8. quietSince' = [j \in Jti |-> IF Stages[j] # "closed"
                                        /\ Stages'[j] = "closed"
                                     THEN now ELSE quietSince[j]]
    BY <1>5, <1>6
  <1>9. QED
    BY <1>4, <1>6, <1>7, <1>8 DEF Gate!Advance

\* A request is judged by what was known of its token when the step began.
LEMMA ReadCacheJudges ==
    ASSUME IInv, NoSessionYet, NEW r \in Request, ReadCache(r)
    PROVE  \/ UNCHANGED Verdicts
           \/ \E j \in Jti : Gate!Admit(r, j) \/ Gate!Refuse(r, j)
  <1> DEFINE j == request[r].jti
  <1>1. TypeOK /\ request[r] # Idle /\ request[r] \in Validating /\ j \in Jti
    BY RequestShape DEF ReadCache, IInv, HandlerInv, Validating
  <1>2. j \in delivered
    BY <1>1 DEF IInv, HandlerInv, DeliveredInv
  <1>3. StageOf(j) \in {"open", "closing", "closed"} /\ Stages[j] = StageOf(j)
    BY <1>1, <1>2, StageFacts DEF Stages
  <1>4. PICK pc \in {"missed", "accepted", "rejected"} :
           /\ request' = [request EXCEPT ![r].pc = pc]
           /\ pc = "accepted" => Positive(j)
           /\ pc = "rejected" => Negative(j)
    BY DEF ReadCache, Positive, Negative
  <1>5. /\ request'[r].pc = pc /\ request'[r].jti = j
        /\ \A p \in Request : p # r => request'[p] = request[p]
    BY <1>1, <1>4 DEF TypeOK, Validating
  <1>6. Verdicts[r] = None
    BY DEF Verdicts, VerdictOn, ReadCache
  <1>7. CASE pc = "missed"
    BY <1>5, <1>6, <1>7 DEF Verdicts, VerdictOn
  <1>8. CASE pc = "accepted"
    <2>1. Verdicts' = [Verdicts EXCEPT ![r] = [token |-> j, admitted |-> TRUE]]
      BY <1>5, <1>8 DEF Verdicts, VerdictOn
    <2>2. StageOf(j) = "closed" => now <= quietSince[j] + CACHE_TTL
      <3>1. /\ cache[j] # None /\ cache[j].isValid /\ cache[j].expiry >= now
            /\ cache[j].expiry \in Nat /\ now \in Nat
            /\ quietSince[j] \in Nat \cup {Never}
        BY <1>1, <1>4, <1>8 DEF Positive, Cached, TypeOK, Entry
      <3>2. quietSince[j] # Never =>
              cache[j].expiry <= quietSince[j] + CACHE_TTL
        BY <1>1, <3>1 DEF IInv, AcceptanceInv
      <3>3. QED
        BY <1>1, <3>1, <3>2, StageFacts, CacheAssumption
    <2>3. QED
      BY <1>1, <1>3, <1>6, <2>1, <2>2 DEF Gate!Admit
  <1>9. CASE pc = "rejected"
    <2>1. Verdicts' = [Verdicts EXCEPT ![r] = [token |-> j, admitted |-> FALSE]]
      BY <1>5, <1>9 DEF Verdicts, VerdictOn
    <2>2. ~HasSession(j)
      BY <1>1, <1>4, <1>9 DEF IInv, RejectionIsFinal, Rejecting
    <2>3. Stages[j] \in {"closing", "closed"}
      BY <1>1, <1>3, <2>2, StageFacts
    <2>4. QED
      BY <1>1, <1>6, <2>1, <2>3 DEF Gate!Refuse
  <1>10. QED
    BY <1>4, <1>7, <1>8, <1>9

LEMMA CacheVerdictJudges ==
    ASSUME IInv, NoSessionYet, NEW r \in Request, CacheVerdict(r)
    PROVE  \E j \in Jti : Gate!Admit(r, j) \/ Gate!Refuse(r, j)
  <1> DEFINE j == request[r].jti
  <1>1. TypeOK /\ request[r] # Idle /\ request[r] \in Validating /\ j \in Jti
    BY RequestShape DEF CacheVerdict, IInv, HandlerInv, Validating
  <1>2. j \in delivered
    BY <1>1 DEF IInv, HandlerInv, DeliveredInv
  <1>3. StageOf(j) \in {"open", "closing", "closed"} /\ Stages[j] = StageOf(j)
    BY <1>1, <1>2, StageFacts DEF Stages
  <1>4. Verdicts[r] = None
    BY DEF Verdicts, VerdictOn, CacheVerdict
  <1>5. CASE request[r].pc = "present"
    <2>1. request' = [request EXCEPT ![r].pc = "accepted"]
      BY <1>5 DEF CacheVerdict
    <2>2. /\ request'[r].pc = "accepted" /\ request'[r].jti = j
          /\ \A p \in Request : p # r => request'[p] = request[p]
      BY <1>1, <2>1 DEF TypeOK, Validating
    <2>3. Verdicts' = [Verdicts EXCEPT ![r] = [token |-> j, admitted |-> TRUE]]
      BY <2>2 DEF Verdicts, VerdictOn
    <2>4. Held(j)
      BY <1>5 DEF Held
    <2>5. Stages[j] \in {"open", "closing"}
      BY <1>1, <1>3, <2>4, StageFacts
    <2>6. QED
      BY <1>1, <1>4, <2>3, <2>5 DEF Gate!Admit
  <1>6. CASE request[r].pc = "absent"
    <2>1. request' = [request EXCEPT ![r].pc = "rejected"]
      BY <1>6 DEF CacheVerdict
    <2>2. /\ request'[r].pc = "rejected" /\ request'[r].jti = j
          /\ \A p \in Request : p # r => request'[p] = request[p]
      BY <1>1, <2>1 DEF TypeOK, Validating
    <2>3. Verdicts' = [Verdicts EXCEPT ![r] = [token |-> j, admitted |-> FALSE]]
      BY <2>2 DEF Verdicts, VerdictOn
    <2>4. ~HasSession(j)
      BY <1>1, <1>6 DEF IInv, RejectionIsFinal, Rejecting
    <2>5. Stages[j] \in {"closing", "closed"}
      BY <1>1, <1>3, <2>4, StageFacts
    <2>6. QED
      BY <1>1, <1>4, <2>3, <2>5 DEF Gate!Refuse
  <1>7. QED
    BY <1>5, <1>6 DEF CacheVerdict

\* Between its arrival and its verdict, a request has none.
LEMMA VerdictsMove ==
    ASSUME IInv, NoSessionYet, Next
    PROVE  \/ now' = now /\ \E r \in Request, j \in Jti :
                               Gate!Admit(r, j) \/ Gate!Refuse(r, j)
           \/ now' = now /\ \E r \in Request : Gate!Leave(r)
           \/ now' \in {now, now + 1} /\ UNCHANGED Verdicts
  <1>1. TypeOK
    BY DEF IInv, HandlerInv
  <1>2. ASSUME request' = request, now' \in {now, now + 1}
        PROVE  UNCHANGED Verdicts
    BY <1>2 DEF Verdicts, VerdictOn
  <1>3. ASSUME NEW r \in Request, NEW j \in Jti, Present(r, j)
        PROVE  now' = now /\ UNCHANGED Verdicts
    BY <1>1, <1>3 DEF Verdicts, VerdictOn, Present, TypeOK, Idle
  <1>4. ASSUME NEW r \in Request, LookUpSession(r)
        PROVE  now' = now /\ UNCHANGED Verdicts
    <2>1. \E pc \in {"present", "absent"} :
             request' = [request EXCEPT ![r].pc = pc]
      BY <1>4 DEF LookUpSession
    <2>2. request[r] \in Validating
      BY <1>1, <1>4, RequestShape DEF LookUpSession
    <2>3. request'[r].pc \in {"present", "absent"}
          /\ \A p \in Request : p # r => request'[p] = request[p]
      BY <1>1, <2>1, <2>2 DEF TypeOK, Validating
    <2>4. QED
      BY <1>4, <2>3 DEF Verdicts, VerdictOn, LookUpSession
  <1>5. ASSUME NEW r \in Request, Leave(r)
        PROVE  now' = now /\ Gate!Leave(r)
    <2>1. /\ request'[r] = Idle
          /\ \A p \in Request : p # r => request'[p] = request[p]
      BY <1>1, <1>5 DEF Leave, TypeOK
    <2>2. \A p \in Request :
             VerdictOn(p)' = IF p = r THEN None ELSE VerdictOn(p)
      BY <2>1 DEF VerdictOn, Idle
    <2>4. Verdicts' = [Verdicts EXCEPT ![r] = None]
      BY <2>2 DEF Verdicts
    <2>3. QED
      BY <1>5, <2>4 DEF Gate!Leave, Leave
  <1>6. ASSUME NEW r \in Request, ReadCache(r)
        PROVE  /\ now' = now
               /\ \/ UNCHANGED Verdicts
                  \/ \E j \in Jti : Gate!Admit(r, j) \/ Gate!Refuse(r, j)
    BY <1>6, ReadCacheJudges DEF ReadCache
  <1>7. ASSUME NEW r \in Request, CacheVerdict(r)
        PROVE  /\ now' = now
               /\ \E j \in Jti : Gate!Admit(r, j) \/ Gate!Refuse(r, j)
    BY <1>7, CacheVerdictJudges DEF CacheVerdict
  <1>8. \/ request' = request /\ now' \in {now, now + 1}
        \/ \E r \in Request, j \in Jti : Present(r, j)
        \/ \E r \in Request : \/ ReadCache(r) \/ LookUpSession(r)
                              \/ CacheVerdict(r) \/ Leave(r)
    BY DEF Next, Sign, FindSession, SaveSession, WarmCache, Deliver,
       FailToIssue, Refresh, CloseSessions, Tick
  <1>9. QED
    BY <1>2, <1>3, <1>4, <1>5, <1>6, <1>7, <1>8

LEMMA InitImplements == Init => Gate!Init /\ NoSessionYet
  BY DEF Init, Gate!Init, Stages, StageOf, Signed, Verdicts, VerdictOn, Idle,
     NoSessionYet, Pending

LEMMA NextImplements ==
    IInv /\ IInv' /\ NoSessionYet /\ [Next]_vars =>
        [Gate!Next]_(Gate!vars) /\ NoSessionYet'
  <1> SUFFICES ASSUME IInv, IInv', NoSessionYet, [Next]_vars
               PROVE  [Gate!Next]_(Gate!vars) /\ NoSessionYet'
    OBVIOUS
  <1>1. CASE Next
    <2>1. IssuersCourse /\ RequestsCourse /\ SessionsCourse
      BY <1>1, IssuersMove, RequestsMove, SessionsMove
    <2>2. NoSessionYet' /\ Gate!Advance
      BY <1>1, <2>1, NoSessionYetKept, CourseAdvances, SignaturesMove
    <2>3. QED
      BY <1>1, <2>2, VerdictsMove DEF Gate!Next
  <1>2. CASE UNCHANGED vars
    <2>1. \A j \in Jti : /\ HasSession(j)' <=> HasSession(j)
                         /\ Pending(j)' <=> Pending(j)
                         /\ Signed(j)' <=> Signed(j)
      BY <1>2 DEF vars, HasSession, Open, Active, Exists, Pending, Signed
    <2>2. Stages' = Stages
      BY <1>2, <2>1 DEF vars, Stages, StageOf
    <2>3. Verdicts' = Verdicts
      BY <1>2 DEF vars, Verdicts, VerdictOn
    <2>4. QED
      BY <1>2, <2>1, <2>2, <2>3 DEF vars, Gate!vars, NoSessionYet
  <1>3. QED
    BY <1>1, <1>2

\* Logins, logouts, lookups and the cache, in any number and any order, judge
\* requests as the abstract gate does.
THEOREM GateImplemented == Spec => ImplementsGate
  <1>1. QED
    BY InductiveInvariant, InitImplements, NextImplements, PTL
       DEF Spec, ImplementsGate, Gate!Spec

=============================================================================
