------------------------- MODULE RefreshTokensProofs -------------------------
(***************************************************************************)
(* Proofs about RefreshTokens for all values of its constants: any number  *)
(* of tokens, requests, users and devices, any limits and any clock.       *)
(***************************************************************************)
EXTENDS RefreshTokens, TLAPS

Active == {"validating", "marked", "created", "retired"}
Accepted == {"marked", "created", "retired"}

\* What the document a request has read still says of the document stored.
ReadIsCurrent(r) ==
    LET old == req[r].doc  cur == store[req[r].token]
    IN  /\ Issued(req[r].token)
        /\ old.user = cur.user
        /\ old.device = cur.device
        /\ old.ip = cur.ip
        /\ old.expiresAt = cur.expiresAt
        /\ old.firstIssuedAt = cur.firstIssuedAt
        /\ old.refreshCount = (IF Used(old) THEN 1 ELSE 0)

RequestInv ==
    \A r \in Request :
        /\ pc[r] \in Active => req[r] \in Local /\ ReadIsCurrent(r)
        /\ pc[r] \in Accepted =>
             /\ Used(store[req[r].token])
             /\ ~DeviceMismatch(req[r].doc, req[r].device)
             /\ ~IpSuspicious(req[r].doc.ip, req[r].ip)
        /\ pc[r] \in {"created", "retired"} => req[r].next \in TokenId

\* The inductive invariant.
IInv ==
    /\ TypeOK
    /\ RequestInv
    /\ CountedOnce
    /\ SessionPreserved
    /\ BindingKept
    /\ UsedInTime

-----------------------------------------------------------------------------
(* Facts about the operators                                               *)

\* A whole-hour difference of at most n hours is less than n+1 hours of ticks.
LEMMA HoursBound ==
    ASSUME NEW a \in Int, NEW n \in Nat, a \div TicksPerHour <= n
    PROVE  a < (n + 1) * TicksPerHour
  <1>1. TicksPerHour \in Nat \ {0}
    BY ConstantsAssumption
  <1>2. a = TicksPerHour * (a \div TicksPerHour) + (a % TicksPerHour)
        /\ a % TicksPerHour < TicksPerHour /\ a \div TicksPerHour \in Int
    BY <1>1
  <1>3. TicksPerHour * (a \div TicksPerHour) <= TicksPerHour * n
    BY <1>1, <1>2
  <1>4. QED
    BY <1>1, <1>2, <1>3

\* A revocation writes nothing but the reason of tokens it finds live.
LEMMA RevokeFacts ==
    ASSUME TypeOK, NEW T, NEW why \in Reason
    PROVE  /\ Revoke(T, why) \in [TokenId -> Document \cup {NoToken}]
           /\ \A t \in TokenId : ~Issued(t) => Revoke(T, why)[t] = NoToken
           /\ \A t \in TokenId : Issued(t) =>
                LET new == Revoke(T, why)[t]
                IN  /\ new # NoToken
                    /\ new.user = store[t].user
                    /\ new.device = store[t].device
                    /\ new.ip = store[t].ip
                    /\ new.expiresAt = store[t].expiresAt
                    /\ new.firstIssuedAt = store[t].firstIssuedAt
                    /\ new.refreshCount = store[t].refreshCount
                    /\ new.lastUsedAt = store[t].lastUsedAt
                    /\ new.revoked \in {why, store[t].revoked}
                    /\ ~Live(t) => new = store[t]
  <1>1. ASSUME NEW t \in TokenId, Issued(t)
        PROVE  store[t] \in Document
    BY <1>1 DEF TypeOK, Issued
  <1>2. NoToken \notin Document
    BY NullAssumption
  <1>3. Revoke(T, why) \in [TokenId -> Document \cup {NoToken}]
    BY <1>1 DEF Revoke, Live, Issued, Document, Reason
  <1>4. ASSUME NEW t \in TokenId, ~Issued(t)
        PROVE  Revoke(T, why)[t] = NoToken
    BY <1>4 DEF Revoke, Live, Issued
  <1>5. ASSUME NEW t \in TokenId, Issued(t), Revoke(T, why)[t] = store[t]
        PROVE  Revoke(T, why)[t].revoked \in {why, store[t].revoked}
    BY <1>5
  <1>6. ASSUME NEW t \in TokenId, Live(t),
               Revoke(T, why)[t] = [store[t] EXCEPT !.revoked = why]
        PROVE  LET new == Revoke(T, why)[t]
               IN  /\ new # NoToken
                   /\ new.user = store[t].user
                   /\ new.device = store[t].device
                   /\ new.ip = store[t].ip
                   /\ new.expiresAt = store[t].expiresAt
                   /\ new.firstIssuedAt = store[t].firstIssuedAt
                   /\ new.refreshCount = store[t].refreshCount
                   /\ new.lastUsedAt = store[t].lastUsedAt
                   /\ new.revoked = why
    BY <1>1, <1>2, <1>6 DEF Live, Document, Reason
  <1>7. QED
    BY <1>3, <1>4, <1>5, <1>6 DEF Revoke, Live, Issued

\* The fields that identify a document and bound its use are written once, and
\* a use is never unwritten.
Keeps ==
    \A t \in TokenId : Issued(t) =>
        /\ Issued(t)'
        /\ store'[t].user = store[t].user
        /\ store'[t].device = store[t].device
        /\ store'[t].ip = store[t].ip
        /\ store'[t].expiresAt = store[t].expiresAt
        /\ store'[t].firstIssuedAt = store[t].firstIssuedAt
        /\ Used(store[t]) => Used(store'[t])

\* What RequestInv says of one request.
RequestOK(r) ==
    /\ pc[r] \in Active => req[r] \in Local /\ ReadIsCurrent(r)
    /\ pc[r] \in Accepted =>
         /\ Used(store[req[r].token])
         /\ ~DeviceMismatch(req[r].doc, req[r].device)
         /\ ~IpSuspicious(req[r].doc.ip, req[r].ip)
    /\ pc[r] \in {"created", "retired"} => req[r].next \in TokenId

\* A request that takes no step keeps what it knows.
LEMMA BystanderOK ==
    ASSUME TypeOK, Keeps, NEW r \in Request, RequestOK(r),
           pc'[r] = pc[r], req'[r] = req[r]
    PROVE  RequestOK(r)'
  <1>1. CASE pc[r] \notin Active
    BY <1>1 DEF RequestOK, Active, Accepted
  <1>2. CASE pc[r] \in Active
    <2>1. req[r].token \in TokenId /\ Issued(req[r].token)
      BY <1>2 DEF RequestOK, ReadIsCurrent, Local
    <2>2. ReadIsCurrent(r)'
      BY <1>2, <2>1 DEF RequestOK, ReadIsCurrent, Keeps, Used, Issued
    <2>3. QED
      BY <1>2, <2>1, <2>2 DEF RequestOK, Keeps, Active, Accepted, Used,
         DeviceMismatch, IpSuspicious
  <1>3. QED
    BY <1>1, <1>2

\* Revocations keep documents, counts and times of use.
LEMMA RevokeKeeps ==
    ASSUME TypeOK, NEW T, NEW why \in Reason, store' = Revoke(T, why)
    PROVE  /\ store' \in [TokenId -> Document \cup {NoToken}]
           /\ Keeps
           /\ \A t \in TokenId :
                /\ Issued(t) <=> Issued(t)'
                /\ Issued(t) =>
                     /\ store'[t].refreshCount = store[t].refreshCount
                     /\ store'[t].lastUsedAt = store[t].lastUsedAt
                     /\ store'[t].revoked \in {why, store[t].revoked}
                     /\ ~Live(t) => store'[t] = store[t]
  <1>1. \A t \in TokenId : Issued(t)' <=> store'[t] # NoToken
    BY DEF Issued
  <1>2. QED
    BY <1>1, RevokeFacts DEF Keeps, Used

\* So they keep everything said of documents.
LEMMA RevokeInv ==
    ASSUME IInv, NEW T, NEW why \in Reason \ {"rate_limit"},
           store' = Revoke(T, why), parent' = parent
    PROVE  CountedOnce' /\ SessionPreserved' /\ BindingKept' /\ UsedInTime'
  <1> USE DEF IInv
  <1>1. /\ Keeps
        /\ \A t \in TokenId :
             /\ Issued(t) <=> Issued(t)'
             /\ Issued(t) =>
                  /\ store'[t].refreshCount = store[t].refreshCount
                  /\ store'[t].lastUsedAt = store[t].lastUsedAt
                  /\ store'[t].revoked \in {why, store[t].revoked}
    BY RevokeKeeps
  <1>2. CountedOnce'
    BY <1>1 DEF CountedOnce, Used
  <1>3. SessionPreserved'
    BY <1>1 DEF SessionPreserved, Keeps, TypeOK
  <1>4. BindingKept'
    BY <1>1 DEF BindingKept, SessionPreserved, Keeps, TypeOK, IpSuspicious
  <1>5. UsedInTime'
    BY <1>1 DEF UsedInTime, Keeps, Used
  <1>6. QED
    BY <1>2, <1>3, <1>4, <1>5

\* A new document fills an id nobody has and touches no other.
LEMMA NewDocumentFacts ==
    ASSUME TypeOK, NEW t \in TokenId, ~Issued(t), NEW u \in User,
           NEW d \in Device \cup {NoDevice}, NEW i \in Ip, NEW f \in Nat,
           store' = [store EXCEPT ![t] = NewDocument(u, d, i, f)]
    PROVE  /\ store' \in [TokenId -> Document \cup {NoToken}]
           /\ Keeps
           /\ store'[t] = NewDocument(u, d, i, f)
           /\ Issued(t)'
           /\ \A s \in TokenId : s # t => store'[s] = store[s]
  <1>1. now + REFRESH_TOKEN_EXPIRATION_HOURS * TicksPerHour \in Nat
    BY ConstantsAssumption DEF TypeOK
  <1>2. NewDocument(u, d, i, f) \in Document
    BY <1>1 DEF NewDocument, Document
  <1>3. NewDocument(u, d, i, f) # NoToken
    BY <1>2, NullAssumption
  <1>4. QED
    BY <1>2, <1>3 DEF TypeOK, Keeps, Issued, Used

-----------------------------------------------------------------------------
(* The inductive invariant                                                 *)

LEMMA InitIInv == Init => IInv
  <1> SUFFICES ASSUME Init PROVE IInv
    OBVIOUS
  <1> USE ConstantsAssumption DEF Init
  <1>1. TypeOK
    BY DEF TypeOK, Label
  <1>2. RequestInv
    BY DEF RequestInv, Active, Accepted
  <1>3. \A t \in TokenId : ~Issued(t) /\ parent[t] = NoToken
    BY DEF Issued
  <1>4. QED
    BY <1>1, <1>2, <1>3 DEF IInv, CountedOnce, SessionPreserved, BindingKept,
       UsedInTime

\* Steps of the environment that write no document.
LEMMA QuietStep ==
    ASSUME IInv, TypeOK', Keeps, store' = store, parent' = parent,
           \A r \in Request : RequestOK(r)'
    PROVE  IInv'
  BY DEF IInv, RequestInv, RequestOK, CountedOnce, SessionPreserved,
     BindingKept, UsedInTime, Issued, Used, IpSuspicious, ReadIsCurrent

LEMMA LoginStep ==
    ASSUME IInv, NEW u \in User, NEW d \in Device \cup {NoDevice},
           NEW i \in Ip, Login(u, d, i)
    PROVE  IInv'
  <1> USE DEF IInv
  <1>1. PICK t \in TokenId :
          /\ ~Issued(t)
          /\ store' = [store EXCEPT ![t] = NewDocument(u, d, i, now)]
          /\ delivered' = delivered \cup {t}
    BY DEF Login
  <1>2. now \in Nat
    BY DEF TypeOK
  <1>3. /\ store' \in [TokenId -> Document \cup {NoToken}]
        /\ Keeps
        /\ store'[t] = NewDocument(u, d, i, now)
        /\ Issued(t)'
        /\ \A s \in TokenId : s # t => store'[s] = store[s]
    BY <1>1, <1>2, NewDocumentFacts
  <1>4. TypeOK'
    BY <1>1, <1>3 DEF TypeOK, Login
  <1>5. RequestInv'
    <2>1. \A r \in Request : RequestOK(r)
      BY DEF RequestInv, RequestOK
    <2>2. \A r \in Request : RequestOK(r)'
      BY <1>3, <2>1, BystanderOK DEF Login
    <2>3. QED
      BY <2>2 DEF RequestInv, RequestOK
  <1>6. CountedOnce'
    BY <1>3 DEF CountedOnce, Issued, Used, NewDocument
  <1>7. \A s \in TokenId : parent'[s] = parent[s]
                           /\ (parent[s] # NoToken => s # t /\ parent[s] # t
                                                      /\ parent[s] \in TokenId)
    BY <1>1 DEF Login, SessionPreserved, TypeOK
  <1>8. SessionPreserved'
    BY <1>3, <1>7 DEF SessionPreserved, Issued, Used
  <1>9. BindingKept'
    BY <1>3, <1>7 DEF BindingKept, IpSuspicious
  <1>10. UsedInTime'
    BY <1>3 DEF UsedInTime, Issued, Used, NewDocument
  <1>11. QED
    BY <1>4, <1>5, <1>6, <1>8, <1>9, <1>10

\* The requests other than r, after a step of r alone.
LEMMA OthersOK ==
    ASSUME IInv, Keeps, NEW r \in Request, RequestOK(r)',
           \A q \in Request \ {r} : pc'[q] = pc[q] /\ req'[q] = req[q]
    PROVE  RequestInv'
  <1>1. \A q \in Request : RequestOK(q)
    BY DEF IInv, RequestInv, RequestOK
  <1>2. \A q \in Request \ {r} : RequestOK(q)'
    BY <1>1, BystanderOK DEF IInv
  <1>3. \A q \in Request : RequestOK(q)'
    BY <1>2
  <1>4. QED
    BY <1>3 DEF RequestInv, RequestOK

LEMMA FindTokenStep ==
    ASSUME IInv, NEW r \in Request, NEW t \in TokenId,
           NEW d \in Device \cup {NoDevice}, NEW i \in Ip,
           FindToken(r, t, d, i)
    PROVE  IInv'
  <1> USE DEF IInv
  <1>1. Keeps
    BY DEF Keeps, FindToken, Issued
  <1>2. CASE Live(t)
    <2>1. /\ req' = [req EXCEPT ![r] = [token |-> t, doc |-> store[t],
                            device |-> d, ip |-> i, next |-> NoToken]]
          /\ pc' = [pc EXCEPT ![r] = "validating"]
      BY <1>2 DEF FindToken, Goto
    <2>2. store[t] \in Document
      BY <1>2 DEF Live, Issued, TypeOK
    <2>3. req'[r] \in Local /\ req'[r].token = t /\ req'[r].doc = store[t]
          /\ pc'[r] = "validating"
      BY <2>1, <2>2 DEF Local, TypeOK
    <2>4. TypeOK'
      BY <2>1, <2>3 DEF TypeOK, FindToken, Label
    <2>5. RequestOK(r)'
      BY <1>2, <2>3 DEF RequestOK, ReadIsCurrent, FindToken, Live, Issued,
         Accepted, CountedOnce
    <2>6. RequestInv'
      BY <1>1, <2>1, <2>5, OthersOK DEF TypeOK
    <2>7. QED
      BY <1>1, <2>4, <2>6, QuietStep DEF FindToken, RequestInv, RequestOK
  <1>3. CASE ~Live(t)
    <2>1. /\ req' = [req EXCEPT ![r] = [token |-> t]]
          /\ pc' = [pc EXCEPT ![r] = "rejected"]
      BY <1>3 DEF FindToken, Goto
    <2>2. TypeOK'
      BY <2>1 DEF TypeOK, FindToken, Label, Rejected
    <2>3. RequestOK(r)'
      BY <2>1 DEF RequestOK, Active, Accepted, TypeOK
    <2>4. RequestInv'
      BY <1>1, <2>1, <2>3, OthersOK DEF TypeOK
    <2>5. QED
      BY <1>1, <2>2, <2>4, QuietStep DEF FindToken, RequestInv, RequestOK
  <1>4. QED
    BY <1>2, <1>3

LEMMA RefuseTokenStep ==
    ASSUME IInv, NEW r \in Request, RefuseToken(r)
    PROVE  IInv'
  <1> DEFINE T == IF RefusalOf(r) = "token_reuse_detected"
                  THEN TokensOf(req[r].doc.user) ELSE {req[r].token}
             why == RefusalOf(r)
  <1> USE DEF IInv
  <1>1. req[r] \in Local /\ ReadIsCurrent(r)
    BY DEF RefuseToken, RequestInv, Active
  <1>2. req[r].doc.refreshCount \in {0, 1}
    BY <1>1 DEF ReadIsCurrent
  <1>3. ~RateLimited(req[r].doc)
    BY <1>2, ConstantsAssumption DEF RateLimited
  <1>4. why \in Reason \ {"rate_limit"}
    BY <1>3 DEF RefuseToken, RefusalOf, Refusal, Reason
  <1>5. store' = Revoke(T, why)
    BY DEF RefuseToken
  <1>6. /\ req' = [req EXCEPT ![r] = [token |-> req[r].token]]
        /\ pc' = [pc EXCEPT ![r] = "rejected"]
    BY DEF RefuseToken, Goto
  <1> HIDE DEF T, why
  <1>7. Keeps /\ store' \in [TokenId -> Document \cup {NoToken}]
    BY <1>4, <1>5, RevokeKeeps
  <1>8. TypeOK'
    <2>1. [token |-> req[r].token] \in Rejected
      BY <1>1 DEF Rejected, Local
    <2>2. UNCHANGED <<now, delivered, failures, parent>>
      BY DEF RefuseToken
    <2>3. QED
      BY <1>6, <1>7, <2>1, <2>2 DEF TypeOK, Label
  <1>9. RequestOK(r)'
    BY <1>6 DEF RequestOK, Active, Accepted, TypeOK
  <1>10. RequestInv'
    BY <1>6, <1>7, <1>9, OthersOK DEF TypeOK
  <1>11. parent' = parent
    BY DEF RefuseToken
  <1>12. CountedOnce' /\ SessionPreserved' /\ BindingKept' /\ UsedInTime'
    BY <1>4, <1>5, <1>11, RevokeInv
  <1>13. QED
    BY <1>8, <1>10, <1>12

LEMMA RetireTokenStep ==
    ASSUME IInv, NEW r \in Request, RetireToken(r)
    PROVE  IInv'
  <1> USE DEF IInv
  <1>1. RequestOK(r) /\ pc[r] = "created"
    BY DEF RetireToken, RequestInv, RequestOK
  <1>2. "rotated" \in Reason \ {"rate_limit"}
    BY DEF Reason
  <1>3. store' = Revoke({req[r].token}, "rotated") /\ parent' = parent
    BY DEF RetireToken
  <1>4. Keeps /\ store' \in [TokenId -> Document \cup {NoToken}]
    BY <1>2, <1>3, RevokeKeeps
  <1>5. pc' = [pc EXCEPT ![r] = "retired"] /\ req' = req
    BY DEF RetireToken, Goto
  <1>6. TypeOK'
    BY <1>4, <1>5 DEF TypeOK, RetireToken, Label
  <1>7. RequestOK(r)'
    <2>1. req[r].token \in TokenId
      BY <1>1 DEF RequestOK, Active, Local
    <2>2. ReadIsCurrent(r)'
      BY <1>1, <1>4, <1>5, <2>1 DEF RequestOK, ReadIsCurrent, Keeps, Active,
         Issued
    <2>3. QED
      BY <1>1, <1>4, <1>5, <2>1, <2>2 DEF RequestOK, Keeps, Active, Accepted,
         ReadIsCurrent, Used, TypeOK, DeviceMismatch, IpSuspicious
  <1>8. RequestInv'
    BY <1>4, <1>5, <1>7, OthersOK DEF TypeOK
  <1>9. CountedOnce' /\ SessionPreserved' /\ BindingKept' /\ UsedInTime'
    BY <1>2, <1>3, RevokeInv
  <1>10. QED
    BY <1>6, <1>8, <1>9

\* What the checks of an accepted request leave true of the document it read.
LEMMA AcceptedFacts ==
    ASSUME NEW r \in Request, RefusalOf(r) = "no"
    PROVE  /\ ~Expired(req[r].doc)
           /\ ~MaxLifetimeReached(req[r].doc)
           /\ ~Used(req[r].doc)
           /\ ~DeviceMismatch(req[r].doc, req[r].device)
           /\ ~IpSuspicious(req[r].doc.ip, req[r].ip)
  BY DEF RefusalOf, Refusal, Reused

LEMMA MarkUsedStep ==
    ASSUME IInv, NEW r \in Request, MarkUsed(r)
    PROVE  IInv'
  <1> DEFINE tok == req[r].token
             old == store[tok]
             new == store'[tok]
  <1> USE DEF IInv
  <1>1. RequestOK(r) /\ pc[r] = "validating" /\ RefusalOf(r) = "no"
    BY DEF MarkUsed, RequestInv, RequestOK
  <1>2. /\ req[r] \in Local /\ ReadIsCurrent(r)
        /\ tok \in TokenId /\ Issued(tok) /\ old \in Document
    BY <1>1 DEF RequestOK, Active, Local, ReadIsCurrent, Issued, TypeOK
  <1>3. req[r].doc.refreshCount = 0
    BY <1>1, <1>2, AcceptedFacts DEF ReadIsCurrent
  <1>4. store' = [store EXCEPT ![tok].lastUsedAt = now, ![tok].refreshCount = 1]
    BY <1>3 DEF MarkUsed
  <1>5. now \in Nat
    BY DEF TypeOK
  <1>6. /\ new \in Document
        /\ new.user = old.user /\ new.device = old.device /\ new.ip = old.ip
        /\ new.expiresAt = old.expiresAt
        /\ new.firstIssuedAt = old.firstIssuedAt
        /\ new.revoked = old.revoked
        /\ new.refreshCount = 1 /\ new.lastUsedAt = now
    BY <1>2, <1>4, <1>5 DEF Document, TypeOK
  <1>7. \A t \in TokenId : t # tok => store'[t] = store[t]
    BY <1>4 DEF TypeOK
  <1>8. new # NoToken /\ Used(new)
    BY <1>5, <1>6, NullAssumption, ConstantsAssumption DEF Used
  <1>9. store' \in [TokenId -> Document \cup {NoToken}]
    BY <1>2, <1>4, <1>6, <1>7 DEF TypeOK
  <1>10. /\ pc' = [pc EXCEPT ![r] = "marked"]
         /\ UNCHANGED <<now, delivered, req, failures, parent>>
    BY DEF MarkUsed, Goto
  <1>11. Keeps
    BY <1>6, <1>7, <1>8 DEF Keeps, Issued
  <1>12. \A t \in TokenId : Issued(t)' <=> Issued(t)
    BY <1>2, <1>7, <1>8 DEF Issued
  <1> HIDE DEF tok, old, new
  <1>13. TypeOK'
    BY <1>9, <1>10 DEF TypeOK, Label
  <1>14. RequestOK(r)'
    <2>1. ReadIsCurrent(r)'
      BY <1>2, <1>6, <1>8, <1>10 DEF ReadIsCurrent, Issued, tok, old, new
    <2>2. QED
      BY <1>1, <1>2, <1>8, <1>10, <2>1, AcceptedFacts DEF RequestOK, Active,
         Accepted, TypeOK, DeviceMismatch, IpSuspicious, tok, new
  <1>15. RequestInv'
    BY <1>10, <1>11, <1>14, OthersOK DEF TypeOK
  <1>16. CountedOnce'
    BY <1>6, <1>7, <1>8, <1>12, <1>2 DEF CountedOnce, Used, old, new
  <1>17. SessionPreserved'
    BY <1>10, <1>11 DEF SessionPreserved, Keeps, TypeOK
  <1>18. BindingKept'
    BY <1>10, <1>11 DEF BindingKept, SessionPreserved, Keeps, TypeOK,
       IpSuspicious
  <1>19. UsedInTime'
    <2>1. new.lastUsedAt <= new.expiresAt
      BY <1>1, <1>2, <1>5, <1>6, AcceptedFacts DEF Expired, ReadIsCurrent,
         Document, old, tok
    <2>2. new.lastUsedAt - new.firstIssuedAt <
            (MAX_SESSION_LIFETIME_HOURS + 1) * TicksPerHour
      <3>1. /\ old.firstIssuedAt \in Nat
            /\ ~(HoursSince(old.firstIssuedAt) > MAX_SESSION_LIFETIME_HOURS)
        BY <1>1, <1>2, AcceptedFacts DEF MaxLifetimeReached, ReadIsCurrent,
           Document, old, tok
      <3>2. now - old.firstIssuedAt \in Int
        BY <1>5, <3>1
      <3>3. (now - old.firstIssuedAt) \div TicksPerHour
              <= MAX_SESSION_LIFETIME_HOURS
        BY <3>1, <3>2, ConstantsAssumption DEF HoursSince
      <3>4. QED
        BY <1>6, <3>2, <3>3, HoursBound, ConstantsAssumption
    <2>3. QED
      BY <1>7, <1>12, <2>1, <2>2 DEF UsedInTime, Used, new
  <1>20. QED
    BY <1>13, <1>15, <1>16, <1>17, <1>18, <1>19

LEMMA CreateSuccessorStep ==
    ASSUME IInv, NEW r \in Request, CreateSuccessor(r)
    PROVE  IInv'
  <1> DEFINE tok == req[r].token
             f == req[r].doc.firstIssuedAt
             doc(t) == NewDocument(req[r].doc.user, req[r].device, req[r].ip, f)
  <1> USE DEF IInv
  <1>1. RequestOK(r) /\ pc[r] = "marked"
    BY DEF CreateSuccessor, RequestInv, RequestOK
  <1>2. /\ req[r] \in Local /\ ReadIsCurrent(r)
        /\ tok \in TokenId /\ Issued(tok) /\ Used(store[tok])
        /\ req[r].doc.user \in User /\ f \in Nat
        /\ req[r].device \in Device \cup {NoDevice} /\ req[r].ip \in Ip
    BY <1>1 DEF RequestOK, Active, Accepted, Local, ReadIsCurrent, Document
  <1>3. PICK t \in TokenId :
          /\ ~Issued(t)
          /\ store' = [store EXCEPT ![t] = doc(t)]
          /\ req' = [req EXCEPT ![r].next = t]
          /\ parent' = [parent EXCEPT ![t] = tok]
    BY DEF CreateSuccessor
  <1>4. /\ store' \in [TokenId -> Document \cup {NoToken}]
        /\ Keeps
        /\ store'[t] = doc(t)
        /\ Issued(t)'
        /\ \A s \in TokenId : s # t => store'[s] = store[s]
    BY <1>2, <1>3, NewDocumentFacts
  <1>5. req'[r] = [req[r] EXCEPT !.next = t]
    BY <1>2, <1>3 DEF TypeOK
  <1>6. /\ req'[r] \in Local
        /\ req'[r].token = tok /\ req'[r].doc = req[r].doc
        /\ req'[r].device = req[r].device /\ req'[r].ip = req[r].ip
        /\ req'[r].next = t
    BY <1>2, <1>5 DEF Local
  <1>7. /\ pc' = [pc EXCEPT ![r] = "created"]
        /\ UNCHANGED <<now, delivered, failures>>
    BY DEF CreateSuccessor, Goto
  <1>8. \A q \in Request \ {r} : pc'[q] = pc[q] /\ req'[q] = req[q]
    BY <1>3, <1>7 DEF TypeOK
  <1>9. req' \in [Request -> Local \cup Rejected \cup {NoToken}]
    BY <1>3, <1>6, <1>8 DEF TypeOK
  <1>10. tok # t
    BY <1>2, <1>3
  <1>11. TypeOK'
    BY <1>2, <1>3, <1>4, <1>7, <1>9 DEF TypeOK, Label
  <1>12. RequestOK(r)'
    <2>1. ReadIsCurrent(r)'
      BY <1>2, <1>4, <1>6, <1>10 DEF ReadIsCurrent, Issued
    <2>2. QED
      BY <1>1, <1>2, <1>3, <1>4, <1>6, <1>7, <1>10, <2>1 DEF RequestOK, Active,
         Accepted, TypeOK, DeviceMismatch, IpSuspicious
  <1>13. RequestInv'
    BY <1>4, <1>8, <1>12, OthersOK
  <1>14. CountedOnce'
    BY <1>4 DEF CountedOnce, Issued, Used, NewDocument
  <1>15. \A s \in TokenId : s # t =>
           parent'[s] = parent[s]
           /\ (parent[s] # NoToken => parent[s] # t /\ parent[s] \in TokenId)
    BY <1>3 DEF SessionPreserved, TypeOK
  <1>16. parent'[t] = tok
    BY <1>3 DEF TypeOK
  <1>17. SessionPreserved'
    BY <1>2, <1>4, <1>10, <1>15, <1>16 DEF SessionPreserved, Issued, Used,
       NewDocument, ReadIsCurrent
  <1>18. BindingKept'
    <2>1. /\ NoDevice \in {store'[t].device, store'[tok].device}
               \/ store'[t].device = store'[tok].device
          /\ ~IpSuspicious(store'[tok].ip, store'[t].ip)
      BY <1>1, <1>2, <1>4, <1>10 DEF RequestOK, Accepted, ReadIsCurrent,
         NewDocument, DeviceMismatch, IpSuspicious
    <2>2. QED
      BY <1>4, <1>15, <1>16, <2>1 DEF BindingKept, IpSuspicious
  <1>19. UsedInTime'
    BY <1>4 DEF UsedInTime, Issued, Used, NewDocument
  <1>20. QED
    BY <1>11, <1>13, <1>14, <1>17, <1>18, <1>19

\* Deliver, Reject and Fail end a request and write no document.
LEMMA FinishStep ==
    ASSUME IInv, NEW r \in Request, Deliver(r) \/ Reject(r) \/ Fail(r)
    PROVE  IInv'
  <1> USE DEF IInv
  <1>1. /\ pc' = [pc EXCEPT ![r] = "idle"]
        /\ req' = [req EXCEPT ![r] = NoToken]
        /\ UNCHANGED <<now, store, parent>>
    BY DEF Deliver, Reject, Fail, Finish, Goto
  <1>2. delivered' \subseteq TokenId
    BY DEF Deliver, Reject, Fail, TypeOK, RequestInv
  <1>3. failures' \in Nat
    BY DEF Deliver, Reject, Fail, TypeOK
  <1>4. TypeOK'
    BY <1>1, <1>2, <1>3 DEF TypeOK, Label
  <1>5. Keeps
    BY <1>1 DEF Keeps, Issued
  <1>6. RequestOK(r)'
    BY <1>1 DEF RequestOK, Active, Accepted, TypeOK
  <1>7. RequestInv'
    BY <1>1, <1>5, <1>6, OthersOK DEF TypeOK
  <1>8. QED
    BY <1>1, <1>4, <1>5, <1>7, QuietStep DEF RequestInv, RequestOK

\* The public revocations touch no request.
LEMMA PublicRevokeStep ==
    ASSUME IInv, NEW T, store' = Revoke(T, "revoked"),
           UNCHANGED <<now, delivered, pc, req, failures, parent>>
    PROVE  IInv'
  <1> USE DEF IInv
  <1>1. "revoked" \in Reason \ {"rate_limit"}
    BY DEF Reason
  <1>2. Keeps /\ store' \in [TokenId -> Document \cup {NoToken}]
    BY <1>1, RevokeKeeps
  <1>3. TypeOK'
    BY <1>2 DEF TypeOK
  <1>4. \A r \in Request : RequestOK(r)
    BY DEF RequestInv, RequestOK
  <1>5. \A r \in Request : RequestOK(r)'
    BY <1>2, <1>4, BystanderOK
  <1>6. RequestInv'
    BY <1>5 DEF RequestInv, RequestOK
  <1>7. CountedOnce' /\ SessionPreserved' /\ BindingKept' /\ UsedInTime'
    BY <1>1, RevokeInv
  <1>8. QED
    BY <1>3, <1>6, <1>7

LEMMA NextIInv == IInv /\ [Next]_vars => IInv'
  <1> SUFFICES ASSUME IInv, [Next]_vars PROVE IInv'
    OBVIOUS
  <1>1. ASSUME NEW u \in User, NEW d \in Device \cup {NoDevice}, NEW i \in Ip,
               Login(u, d, i)
        PROVE  IInv'
    BY <1>1, LoginStep
  <1>2. ASSUME NEW r \in Request, NEW t \in TokenId,
               NEW d \in Device \cup {NoDevice}, NEW i \in Ip,
               FindToken(r, t, d, i)
        PROVE  IInv'
    BY <1>2, FindTokenStep
  <1>3. ASSUME NEW r \in Request,
               RefuseToken(r) \/ MarkUsed(r) \/ CreateSuccessor(r)
               \/ RetireToken(r) \/ Deliver(r) \/ Reject(r) \/ Fail(r)
        PROVE  IInv'
    BY <1>3, RefuseTokenStep, MarkUsedStep, CreateSuccessorStep,
       RetireTokenStep, FinishStep
  <1>4. ASSUME NEW t \in TokenId, RevokeRefreshToken(t)
        PROVE  IInv'
    BY <1>4, PublicRevokeStep DEF RevokeRefreshToken
  <1>5. ASSUME NEW u \in User, RevokeAllUserTokens(u)
        PROVE  IInv'
    BY <1>5, PublicRevokeStep DEF RevokeAllUserTokens
  <1>6. CASE Tick
    <2>1. UNCHANGED <<store, delivered, pc, req, failures, parent>>
          /\ now' = now + 1
      BY <1>6 DEF Tick
    <2>2. TypeOK' /\ Keeps
      BY <2>1 DEF IInv, TypeOK, Keeps, Issued
    <2>3. \A r \in Request : RequestOK(r)'
      BY <2>1, <2>2, BystanderOK DEF IInv, RequestInv, RequestOK
    <2>4. QED
      BY <2>1, <2>2, <2>3, QuietStep
  <1>7. CASE UNCHANGED vars
    <2>1. UNCHANGED <<now, store, delivered, pc, req, failures, parent>>
      BY <1>7 DEF vars
    <2>2. TypeOK' /\ Keeps
      BY <2>1 DEF IInv, TypeOK, Keeps, Issued
    <2>3. \A r \in Request : RequestOK(r)'
      BY <2>1, <2>2, BystanderOK DEF IInv, RequestInv, RequestOK
    <2>4. QED
      BY <2>1, <2>2, <2>3, QuietStep
  <1>8. QED
    BY <1>1, <1>2, <1>3, <1>4, <1>5, <1>6, <1>7 DEF Next

-----------------------------------------------------------------------------
(* The theorems                                                            *)

\* The conjunction of all that follows holds in every reachable state.
THEOREM InductiveInvariant == Spec => []IInv
  BY InitIInv, NextIInv, PTL DEF Spec

\* Types: what the service stores always fits the schema of the collection.
THEOREM TypeCorrect == Spec => []TypeOK
  <1>1. IInv => TypeOK
    BY DEF IInv
  <1>2. QED
    BY <1>1, InductiveInvariant, PTL

\* refreshCount never passes 1 and the daily limit never refuses a token.
THEOREM CountedOnceHolds == Spec => []CountedOnce
  <1>1. IInv => CountedOnce
    BY DEF IInv
  <1>2. QED
    BY <1>1, InductiveInvariant, PTL

\* Rotation keeps the owner and the start of the session.
THEOREM SessionPreservedHolds == Spec => []SessionPreserved
  <1>1. IInv => SessionPreserved
    BY DEF IInv
  <1>2. QED
    BY <1>1, InductiveInvariant, PTL

\* One rotation changes neither a known device nor the family of the address.
THEOREM BindingKeptHolds == Spec => []BindingKept
  <1>1. IInv => BindingKept
    BY DEF IInv
  <1>2. QED
    BY <1>1, InductiveInvariant, PTL

\* No token is used after its expiry or an hour past the maximum lifetime.
THEOREM UsedInTimeHolds == Spec => []UsedInTime
  <1>1. IInv => UsedInTime
    BY DEF IInv
  <1>2. QED
    BY <1>1, InductiveInvariant, PTL

-----------------------------------------------------------------------------
(* The abstract life of a token                                            *)

\* Marking a use changes nothing the abstract specification sees.
LEMMA MarkUsedHidden ==
    ASSUME IInv, NEW r \in Request, MarkUsed(r)
    PROVE  \A t \in TokenId :
             /\ Issued(t)' <=> Issued(t)
             /\ Issued(t) => /\ store'[t].revoked = store[t].revoked
                             /\ store'[t].user = store[t].user
                             /\ store'[t].firstIssuedAt = store[t].firstIssuedAt
  <1> DEFINE tok == req[r].token
             n == req[r].doc.refreshCount + 1
  <1>1. tok \in TokenId /\ store[tok] \in Document /\ store[tok] # NoToken
    BY DEF IInv, RequestInv, Active, ReadIsCurrent, Issued, Local, MarkUsed,
       TypeOK
  <1>2. store' = [store EXCEPT ![tok].lastUsedAt = now, ![tok].refreshCount = n]
    BY DEF MarkUsed
  <1>3. n \in Nat /\ now \in Nat
    BY DEF IInv, RequestInv, TypeOK, Active, Local, Document, MarkUsed
  <1> HIDE DEF tok, n
  <1>4. /\ store'[tok] \in Document
        /\ store'[tok].revoked = store[tok].revoked
        /\ store'[tok].user = store[tok].user
        /\ store'[tok].firstIssuedAt = store[tok].firstIssuedAt
    BY <1>1, <1>2, <1>3 DEF Document, IInv, TypeOK
  <1>5. \A t \in TokenId : t # tok => store'[t] = store[t]
    BY <1>1, <1>2 DEF IInv, TypeOK
  <1>6. QED
    BY <1>1, <1>4, <1>5, NullAssumption DEF Issued

\* The ways of writing the collection that the abstract specification sees.
Revokes == \E T, why : why \in Reason /\ store' = Revoke(T, why) /\ now' = now

Opens ==
    \E t \in TokenId, u \in User, d \in Device \cup {NoDevice}, i \in Ip :
       /\ ~Issued(t)
       /\ store' = [store EXCEPT ![t] = NewDocument(u, d, i, now)]
       /\ now' = now

WritesNothing == store' = store /\ now' \in {now, now + 1}

\* Every step writes the collection in one of four ways.
LEMMA StepShape ==
    ASSUME IInv, Next
    PROVE  \/ Revokes \/ Opens \/ WritesNothing
           \/ \E r \in Request : MarkUsed(r) \/ CreateSuccessor(r)
  <1>1. ASSUME NEW u \in User, NEW d \in Device \cup {NoDevice}, NEW i \in Ip,
               Login(u, d, i)
        PROVE  Opens
    BY <1>1 DEF Login, Opens
  <1>2. ASSUME NEW r \in Request, NEW t \in TokenId,
               NEW d \in Device \cup {NoDevice}, NEW i \in Ip,
               FindToken(r, t, d, i)
        PROVE  WritesNothing
    BY <1>2 DEF FindToken, WritesNothing
  <1>3. ASSUME NEW r \in Request, RefuseToken(r)
        PROVE  Revokes
    <2>1. RefusalOf(r) \in Reason
      BY <1>3 DEF RefuseToken, RefusalOf, Refusal, Reason
    <2>2. QED
      BY <1>3, <2>1 DEF RefuseToken, Revokes
  <1>4. ASSUME NEW r \in Request, RetireToken(r)
        PROVE  Revokes
    BY <1>4 DEF RetireToken, Reason, Revokes
  <1>5. ASSUME NEW r \in Request, Deliver(r) \/ Reject(r) \/ Fail(r)
        PROVE  WritesNothing
    BY <1>5 DEF Deliver, Reject, Fail, WritesNothing
  <1>6. ASSUME NEW t \in TokenId, RevokeRefreshToken(t)
        PROVE  Revokes
    BY <1>6 DEF RevokeRefreshToken, Reason, Revokes
  <1>7. ASSUME NEW u \in User, RevokeAllUserTokens(u)
        PROVE  Revokes
    BY <1>7 DEF RevokeAllUserTokens, Reason, Revokes
  <1>8. ASSUME Tick PROVE WritesNothing
    BY <1>8 DEF Tick, WritesNothing
  <1>9. QED
    BY <1>1, <1>2, <1>3, <1>4, <1>5, <1>6, <1>7, <1>8 DEF Next

\* CreateSuccessor, as the abstract specification sees it.
LEMMA CreateSuccessorShape ==
    ASSUME IInv, NEW r \in Request, CreateSuccessor(r)
    PROVE  \E old, t \in TokenId :
             /\ Issued(old) /\ ~Issued(t) /\ now' = now
             /\ Issued(t)' /\ store'[t].revoked = "no"
             /\ store'[t].user = store[old].user
             /\ store'[t].firstIssuedAt = store[old].firstIssuedAt
             /\ \A s \in TokenId : s # t => store'[s] = store[s]
  <1>1. /\ req[r] \in Local /\ ReadIsCurrent(r) /\ req[r].token \in TokenId
        /\ req[r].doc \in Document
    BY DEF IInv, RequestInv, CreateSuccessor, Active, Local
  <1>2. PICK t \in TokenId :
          /\ ~Issued(t)
          /\ store' = [store EXCEPT ![t] =
                         NewDocument(req[r].doc.user, req[r].device, req[r].ip,
                                     req[r].doc.firstIssuedAt)]
    BY DEF CreateSuccessor
  <1>3. /\ req[r].doc.user \in User /\ req[r].doc.firstIssuedAt \in Nat
        /\ req[r].device \in Device \cup {NoDevice} /\ req[r].ip \in Ip
    BY <1>1 DEF Document, Local
  <1>4. /\ store'[t] = NewDocument(req[r].doc.user, req[r].device, req[r].ip,
                                   req[r].doc.firstIssuedAt)
        /\ Issued(t)'
        /\ \A s \in TokenId : s # t => store'[s] = store[s]
    BY <1>2, <1>3, NewDocumentFacts DEF IInv
  <1>5. now' = now
    BY DEF CreateSuccessor
  <1>6. QED
    BY <1>1, <1>2, <1>4, <1>5 DEF NewDocument, ReadIsCurrent

\* A revoked token keeps the reason it was first revoked for.
LEMMA RevocationStep ==
    ASSUME IInv, [Next]_vars, NEW t \in TokenId, Issued(t), ~Live(t)
    PROVE  store'[t].revoked = store[t].revoked
  <1>1. ASSUME NEW T, NEW why \in Reason, store' = Revoke(T, why)
        PROVE  store'[t].revoked = store[t].revoked
    BY <1>1, RevokeFacts DEF IInv
  <1>2. ASSUME NEW r \in Request, MarkUsed(r)
        PROVE  store'[t].revoked = store[t].revoked
    BY <1>2, MarkUsedHidden
  <1>3. ASSUME NEW r \in Request, CreateSuccessor(r)
        PROVE  store'[t].revoked = store[t].revoked
    BY <1>3, CreateSuccessorShape
  <1>4. ASSUME NEW s \in TokenId, NEW doc, ~Issued(s),
               store' = [store EXCEPT ![s] = doc]
        PROVE  store'[t].revoked = store[t].revoked
    BY <1>4 DEF IInv, TypeOK
  <1>5. CASE Next
    BY <1>1, <1>2, <1>3, <1>4, <1>5, StepShape
       DEF Revokes, Opens, WritesNothing
  <1>6. CASE UNCHANGED vars
    BY <1>6 DEF vars
  <1>7. QED
    BY <1>5, <1>6

\* Revocation is final, and its reason too.
THEOREM RevocationFinal == Spec => FirstRevocationStays
  <1>1. IInv /\ [Next]_vars =>
          [\A t \in TokenId : Issued(t) /\ ~Live(t) =>
              store'[t].revoked = store[t].revoked]_vars
    BY RevocationStep
  <1>2. QED
    BY <1>1, InductiveInvariant, PTL DEF Spec, FirstRevocationStays

\* The refinement mapping, as functions of the state.
Status == [t \in TokenId |-> IF ~Issued(t) THEN "fresh"
                             ELSE IF Live(t) THEN "live" ELSE "dead"]
Owner == [t \in TokenId |-> IF Issued(t) THEN store[t].user ELSE NoToken]
Start == [t \in TokenId |-> IF Issued(t) THEN store[t].firstIssuedAt ELSE NoToken]

\* A fresh token comes into use.
LEMMA BringStep ==
    ASSUME TypeOK, NEW t \in TokenId, ~Issued(t), Issued(t)',
           store'[t].revoked = "no", now' = now,
           \A s \in TokenId : s # t => store'[s] = store[s]
    PROVE  Lifecycle!Bring(t, store'[t].user, store'[t].firstIssuedAt)
  <1>1. \A s \in TokenId : s # t => (Issued(s)' <=> Issued(s))
                                    /\ (Live(s)' <=> Live(s))
    BY DEF Issued, Live
  <1>2. Live(t)'
    BY DEF Live
  <1>3. Status[t] = "fresh"
    BY DEF Status
  <1>4. Status' = [Status EXCEPT ![t] = "live"]
    BY <1>1, <1>2 DEF Status
  <1>5. Owner' = [Owner EXCEPT ![t] = store'[t].user]
    BY <1>1 DEF Owner
  <1>6. Start' = [Start EXCEPT ![t] = store'[t].firstIssuedAt]
    BY <1>1 DEF Start
  <1>7. QED
    BY <1>3, <1>4, <1>5, <1>6 DEF Lifecycle!Bring, Status, Owner, Start

\* Revocations take live tokens out of use.
LEMMA CloseStep ==
    ASSUME TypeOK, NEW T, NEW why \in Reason, store' = Revoke(T, why), now' = now
    PROVE  Lifecycle!Close({t \in TokenId : t \in T /\ Live(t)})
  <1> DEFINE C == {t \in TokenId : t \in T /\ Live(t)}
  <1>1. \A t \in TokenId : Issued(t)' <=> Issued(t)
    BY RevokeKeeps
  <1>2. why # "no"
    BY DEF Reason
  <1>3. \A t \in TokenId : Live(t)' <=> Live(t) /\ t \notin C
    <2>1. ASSUME NEW t \in C PROVE ~Live(t)'
      <3>1. store[t] \in Document
        BY DEF TypeOK, Live, Issued
      <3>2. store'[t] = [store[t] EXCEPT !.revoked = why]
        BY DEF Revoke
      <3>3. QED
        BY <1>2, <3>1, <3>2 DEF Live, Document
    <2>2. ASSUME NEW t \in TokenId, t \notin C PROVE Live(t)' <=> Live(t)
      BY <2>2 DEF Revoke, Live, Issued
    <2>3. QED
      BY <2>1, <2>2
  <1>4. \A t \in C : Status[t] = "live"
    BY DEF Status, Live
  <1>5. Status' = [t \in TokenId |-> IF t \in C THEN "dead" ELSE Status[t]]
    BY <1>1, <1>3 DEF Status, Live
  <1>6. Owner' = Owner /\ Start' = Start
    BY <1>1, RevokeFacts DEF Owner, Start
  <1>7. QED
    BY <1>4, <1>5, <1>6 DEF Lifecycle!Close, Status, Owner, Start

\* A step that changes nothing of what the mapping reads.
LEMMA StutterStep ==
    ASSUME \A t \in TokenId :
             /\ Issued(t)' <=> Issued(t)
             /\ Issued(t) => /\ store'[t].revoked = store[t].revoked
                             /\ store'[t].user = store[t].user
                             /\ store'[t].firstIssuedAt = store[t].firstIssuedAt
    PROVE  Status' = Status /\ Owner' = Owner /\ Start' = Start
  <1>1. \A t \in TokenId : Live(t)' <=> Live(t)
    BY DEF Live
  <1>2. QED
    BY <1>1 DEF Status, Owner, Start

LEMMA RefinementStep ==
    ASSUME IInv, [Next]_vars
    PROVE  [Lifecycle!Next]_(Lifecycle!vars)
  <1> USE DEF IInv
  <1>1. CASE Revokes
    <2>1. PICK T, why : why \in Reason /\ store' = Revoke(T, why) /\ now' = now
      BY <1>1 DEF Revokes
    <2>2. Lifecycle!Close({t \in TokenId : t \in T /\ Live(t)})
      BY <2>1, CloseStep
    <2>3. QED
      BY <2>2 DEF Lifecycle!Next
  <1>2. CASE Opens
    <2>1. PICK t \in TokenId, u \in User, d \in Device \cup {NoDevice}, i \in Ip :
            /\ ~Issued(t)
            /\ store' = [store EXCEPT ![t] = NewDocument(u, d, i, now)]
            /\ now' = now
      BY <1>2 DEF Opens
    <2>2. now \in Nat
      BY DEF TypeOK
    <2>3. Issued(t)' /\ store'[t] = NewDocument(u, d, i, now)
          /\ \A s \in TokenId : s # t => store'[s] = store[s]
      BY <2>1, <2>2, NewDocumentFacts
    <2>4. /\ store'[t].user = u /\ store'[t].firstIssuedAt = now
          /\ store'[t].revoked = "no"
      BY <2>3 DEF NewDocument
    <2>5. Lifecycle!Bring(t, store'[t].user, store'[t].firstIssuedAt)
      BY <2>1, <2>3, <2>4, BringStep
    <2>6. Lifecycle!Open(t, u)
      BY <2>1, <2>4, <2>5 DEF Lifecycle!Open, Lifecycle!Bring
    <2>7. QED
      BY <2>6 DEF Lifecycle!Next
  <1>3. ASSUME NEW r \in Request, CreateSuccessor(r)
        PROVE  Lifecycle!Next
    <2>1. PICK old \in TokenId, t \in TokenId :
            /\ Issued(old) /\ ~Issued(t) /\ now' = now
            /\ Issued(t)' /\ store'[t].revoked = "no"
            /\ store'[t].user = store[old].user
            /\ store'[t].firstIssuedAt = store[old].firstIssuedAt
            /\ \A s \in TokenId : s # t => store'[s] = store[s]
      BY <1>3, CreateSuccessorShape
    <2>2. Lifecycle!Bring(t, store'[t].user, store'[t].firstIssuedAt)
      BY <2>1, BringStep
    <2>3. Lifecycle!Renew(old, t)
      <3>1. /\ Status[old] # "fresh"
            /\ Owner[old] = store'[t].user
            /\ Start[old] = store'[t].firstIssuedAt
        BY <2>1 DEF Status, Owner, Start
      <3>2. QED
        BY <2>2, <3>1 DEF Lifecycle!Renew, Lifecycle!Bring, Status, Owner, Start
    <2>4. QED
      BY <2>3 DEF Lifecycle!Next
  <1>4. ASSUME NEW r \in Request, MarkUsed(r)
        PROVE  UNCHANGED Lifecycle!vars
    <2>1. Status' = Status /\ Owner' = Owner /\ Start' = Start
      BY <1>4, MarkUsedHidden, StutterStep
    <2>2. now' = now
      BY <1>4 DEF MarkUsed
    <2>3. QED
      BY <2>1, <2>2 DEF Lifecycle!vars, Status, Owner, Start
  <1>5. ASSUME store' = store
        PROVE  Status' = Status /\ Owner' = Owner /\ Start' = Start
    <2>1. \A t \in TokenId : Issued(t)' <=> Issued(t)
      BY <1>5 DEF Issued
    <2>2. QED
      BY <1>5, <2>1, StutterStep
  <1>6. CASE WritesNothing
    <2>1. Status' = Status /\ Owner' = Owner /\ Start' = Start
      BY <1>5, <1>6 DEF WritesNothing
    <2>2. CASE now' = now
      BY <2>1, <2>2 DEF Lifecycle!vars, Status, Owner, Start
    <2>3. CASE now' = now + 1
      BY <2>1, <2>3 DEF Lifecycle!Next, Lifecycle!Pass, Status, Owner, Start
    <2>4. QED
      BY <1>6, <2>2, <2>3 DEF WritesNothing
  <1>7. CASE UNCHANGED vars
    <2>1. Status' = Status /\ Owner' = Owner /\ Start' = Start /\ now' = now
      BY <1>5, <1>7 DEF vars
    <2>2. QED
      BY <2>1 DEF Lifecycle!vars, Status, Owner, Start
  <1>8. QED
    BY <1>1, <1>2, <1>3, <1>4, <1>6, <1>7, StepShape

\* Every behaviour of the service is one of the abstract life of a token.
THEOREM Refinement == Spec => ImplementsLifecycle
  <1>1. Init => Lifecycle!Init
    BY DEF Init, Lifecycle!Init, Issued
  <1>2. IInv /\ [Next]_vars => [Lifecycle!Next]_(Lifecycle!vars)
    BY RefinementStep
  <1>3. QED
    BY <1>1, <1>2, InductiveInvariant, PTL DEF Spec, Lifecycle!Spec,
       ImplementsLifecycle

-----------------------------------------------------------------------------
(* Who closes the window of a rotation                                     *)

\* The request that will revoke a used token, and the one that will hand out a
\* token nobody has yet.
Retiring(r, t) == pc[r] \in {"marked", "created"} /\ req[r].token = t
Handing(r, t) == pc[r] \in {"created", "retired"} /\ req[r].next = t

\* While no handler has failed, a token that has been used and passes for a live
\* one has a request at work that will revoke it, and a live token that no
\* client has a request that will deliver it (l.94-150).
NothingLeftBehind ==
    failures = 0 =>
        \A t \in TokenId : Live(t) =>
            /\ Used(store[t]) => \E r \in Request : Retiring(r, t)
            /\ t \notin delivered => \E r \in Request : Handing(r, t)

\* A step after which every live token was so, with its use, and every request
\* that had to do with one still has.
LEMMA StillHandled ==
    ASSUME IInv, NothingLeftBehind, failures' = 0 => failures = 0,
           delivered \subseteq delivered',
           \A t \in TokenId : Live(t)' =>
              Live(t) /\ (Used(store'[t]) => Used(store[t])),
           \A r \in Request, t \in TokenId : Live(t)' =>
              /\ Retiring(r, t) => Retiring(r, t)'
              /\ Handing(r, t) => Handing(r, t)' \/ t \in delivered'
    PROVE  NothingLeftBehind'
  <1>1. SUFFICES ASSUME failures = 0, NEW t \in TokenId, Live(t)'
                 PROVE  /\ Used(store'[t]) => \E r \in Request : Retiring(r, t)'
                        /\ t \notin delivered' => \E r \in Request : Handing(r, t)'
    BY DEF NothingLeftBehind
  <1>2. Live(t) /\ (Used(store'[t]) => Used(store[t])) /\ (t \notin delivered' => t \notin delivered)
    BY <1>1
  <1>3. CASE Used(store'[t])
    <2>1. PICK r \in Request : Retiring(r, t)
      BY <1>1, <1>2, <1>3 DEF NothingLeftBehind
    <2>2. Retiring(r, t)'
      BY <1>1, <2>1
    <2>3. t \notin delivered' => \E q \in Request : Handing(q, t)'
      BY <1>1, <1>2 DEF NothingLeftBehind
    <2>4. QED
      BY <2>2, <2>3
  <1>4. CASE ~Used(store'[t])
    BY <1>1, <1>2, <1>4 DEF NothingLeftBehind
  <1>5. QED
    BY <1>3, <1>4

\* Only one request moves, and it had to do with no live token.
LEMMA OneMoves ==
    ASSUME NEW r \in Request,
           \A q \in Request : q # r => pc'[q] = pc[q] /\ req'[q] = req[q],
           \A t \in TokenId : ~Retiring(r, t) /\ (Handing(r, t) => t \in delivered')
    PROVE  \A q \in Request, t \in TokenId :
              /\ Retiring(q, t) => Retiring(q, t)'
              /\ Handing(q, t) => Handing(q, t)' \/ t \in delivered'
  BY DEF Retiring, Handing

\* A revocation makes no token live, and leaves those it does not reach.
LEMMA RevokedOrSame ==
    ASSUME IInv, NEW T, NEW why \in Reason, store' = Revoke(T, why)
    PROVE  \A t \in TokenId : Live(t)' => Live(t) /\ t \notin T /\ store'[t] = store[t]
  <1>1. SUFFICES ASSUME NEW t \in TokenId, Live(t)'
                 PROVE  Live(t) /\ t \notin T /\ store'[t] = store[t]
    OBVIOUS
  <1>2. Issued(t)
    BY <1>1, RevokeKeeps DEF IInv, Live
  <1>3. CASE t \in T /\ Live(t)
    <2>1. store[t] \in Document /\ why # "no"
      BY <1>2 DEF IInv, TypeOK, Issued, Reason
    <2>2. store'[t] = [store[t] EXCEPT !.revoked = why]
      BY <1>3 DEF Revoke
    <2>3. QED
      BY <1>1, <2>1, <2>2 DEF Live, Document
  <1>4. CASE ~(t \in T /\ Live(t))
    <2>1. store'[t] = store[t]
      BY <1>4 DEF Revoke
    <2>2. QED
      BY <1>1, <1>4, <2>1 DEF Live, Issued
  <1>5. QED
    BY <1>3, <1>4

LEMMA RefuseTokenHandled ==
    ASSUME IInv, NothingLeftBehind, NEW r \in Request, RefuseToken(r)
    PROVE  NothingLeftBehind'
  <1>1. PICK T, why : why \in Reason /\ store' = Revoke(T, why)
    BY DEF RefuseToken, RefusalOf, Refusal, Reason
  <1>2. \A t \in TokenId : Live(t)' => Live(t) /\ store'[t] = store[t]
    BY <1>1, RevokedOrSame
  <1>3. /\ pc' = [pc EXCEPT ![r] = "rejected"]
        /\ req' = [req EXCEPT ![r] = [token |-> req[r].token]]
        /\ pc[r] = "validating" /\ UNCHANGED <<failures, delivered>>
    BY DEF RefuseToken, Goto
  <1>4. \A t \in TokenId : ~Retiring(r, t) /\ ~Handing(r, t)
    BY <1>3 DEF Retiring, Handing
  <1>5. \A q \in Request : q # r => pc'[q] = pc[q] /\ req'[q] = req[q]
    BY <1>3 DEF IInv, TypeOK
  <1>6. \A q \in Request, t \in TokenId :
           /\ Retiring(q, t) => Retiring(q, t)'
           /\ Handing(q, t) => Handing(q, t)' \/ t \in delivered'
    BY <1>4, <1>5, OneMoves
  <1>7. QED
    BY <1>2, <1>3, <1>6, StillHandled

LEMMA MarkUsedHandled ==
    ASSUME IInv, NothingLeftBehind, NEW r \in Request, MarkUsed(r)
    PROVE  NothingLeftBehind'
  <1>1. /\ pc' = [pc EXCEPT ![r] = "marked"] /\ pc[r] = "validating"
        /\ UNCHANGED <<failures, delivered, req>>
    BY DEF MarkUsed, Goto
  <1>2. \A q \in Request : q # r => pc'[q] = pc[q]
    BY <1>1 DEF IInv, TypeOK
  <1>3. \A t \in TokenId : Live(t)' => Live(t)
    BY MarkUsedHidden DEF Live
  <1>4. \A t \in TokenId : t # req[r].token => store'[t] = store[t]
    BY DEF MarkUsed, IInv, TypeOK
  <1>5. \A t \in TokenId : t = req[r].token => Retiring(r, t)'
    BY <1>1 DEF IInv, TypeOK, Retiring
  <1>6. \A q \in Request, t \in TokenId :
           /\ Retiring(q, t) => Retiring(q, t)'
           /\ Handing(q, t) => Handing(q, t)'
    BY <1>1, <1>2 DEF Retiring, Handing
  <1>7. SUFFICES ASSUME failures = 0, NEW t \in TokenId, Live(t)'
                 PROVE  /\ Used(store'[t]) => \E q \in Request : Retiring(q, t)'
                        /\ t \notin delivered' => \E q \in Request : Handing(q, t)'
    BY <1>1 DEF NothingLeftBehind
  <1>8. ASSUME t \notin delivered' PROVE \E q \in Request : Handing(q, t)'
    <2>1. PICK q \in Request : Handing(q, t)
      BY <1>1, <1>3, <1>7, <1>8 DEF NothingLeftBehind
    <2>2. Handing(q, t)'
      BY <1>6, <2>1
    <2>3. QED
      BY <2>2
  <1>9. CASE t = req[r].token
    BY <1>5, <1>8, <1>9
  <1>10. CASE t # req[r].token
    <2>1. ASSUME Used(store'[t]) PROVE \E q \in Request : Retiring(q, t)'
      <3>1. PICK q \in Request : Retiring(q, t)
        BY <1>3, <1>4, <1>7, <1>10, <2>1 DEF NothingLeftBehind
      <3>2. Retiring(q, t)'
        BY <1>6, <3>1
      <3>3. QED
        BY <3>2
    <2>2. QED
      BY <1>8, <2>1
  <1>11. QED
    BY <1>9, <1>10

LEMMA CreateSuccessorHandled ==
    ASSUME IInv, NothingLeftBehind, NEW r \in Request, CreateSuccessor(r)
    PROVE  NothingLeftBehind'
  <1>1. req[r] \in Local /\ pc[r] = "marked"
    BY DEF IInv, RequestInv, CreateSuccessor, Active
  <1>2. PICK t \in TokenId :
          /\ ~Issued(t)
          /\ store' = [store EXCEPT ![t] =
                         NewDocument(req[r].doc.user, req[r].device, req[r].ip,
                                     req[r].doc.firstIssuedAt)]
          /\ req' = [req EXCEPT ![r].next = t]
    BY DEF CreateSuccessor
  <1>3. pc' = [pc EXCEPT ![r] = "created"] /\ UNCHANGED <<failures, delivered>>
    BY DEF CreateSuccessor, Goto
  <1>4. /\ pc'[r] = "created" /\ req'[r].token = req[r].token /\ req'[r].next = t
        /\ \A q \in Request : q # r => pc'[q] = pc[q] /\ req'[q] = req[q]
    BY <1>1, <1>2, <1>3 DEF IInv, TypeOK, Local
  <1>5. /\ ~Used(store'[t])
        /\ \A s \in TokenId : s # t => store'[s] = store[s]
    BY <1>2 DEF IInv, TypeOK, NewDocument, Used
  <1>6. \A q \in Request, s \in TokenId :
           /\ Retiring(q, s) => Retiring(q, s)'
           /\ Handing(q, s) => Handing(q, s)'
    BY <1>1, <1>4 DEF Retiring, Handing
  <1>7. Handing(r, t)'
    BY <1>4 DEF Handing
  <1>8. SUFFICES ASSUME failures = 0, NEW s \in TokenId, Live(s)'
                 PROVE  /\ Used(store'[s]) => \E q \in Request : Retiring(q, s)'
                        /\ s \notin delivered' => \E q \in Request : Handing(q, s)'
    BY <1>3 DEF NothingLeftBehind
  <1>9. CASE s = t
    BY <1>5, <1>7, <1>9
  <1>10. CASE s # t
    <2>1. Live(s) /\ store'[s] = store[s]
      BY <1>5, <1>8, <1>10 DEF Live, Issued
    <2>2. /\ Used(store[s]) => \E q \in Request : Retiring(q, s)
          /\ s \notin delivered => \E q \in Request : Handing(q, s)
      BY <1>8, <2>1 DEF NothingLeftBehind
    <2>3. /\ (\E q \in Request : Retiring(q, s)) => \E q \in Request : Retiring(q, s)'
          /\ (\E q \in Request : Handing(q, s)) => \E q \in Request : Handing(q, s)'
      BY <1>6
    <2>4. QED
      BY <1>3, <2>1, <2>2, <2>3
  <1>11. QED
    BY <1>9, <1>10

LEMMA RetireTokenHandled ==
    ASSUME IInv, NothingLeftBehind, NEW r \in Request, RetireToken(r)
    PROVE  NothingLeftBehind'
  <1>1. /\ store' = Revoke({req[r].token}, "rotated") /\ "rotated" \in Reason
        /\ pc' = [pc EXCEPT ![r] = "retired"] /\ pc[r] = "created"
        /\ UNCHANGED <<failures, delivered, req>>
    BY DEF RetireToken, Goto, Reason
  <1>2. \A t \in TokenId : Live(t)' => Live(t) /\ t # req[r].token /\ store'[t] = store[t]
    BY <1>1, RevokedOrSame
  <1>3. pc'[r] = "retired" /\ \A q \in Request : q # r => pc'[q] = pc[q]
    BY <1>1 DEF IInv, TypeOK
  <1>4. \A q \in Request, t \in TokenId : Live(t)' =>
           /\ Retiring(q, t) => Retiring(q, t)'
           /\ Handing(q, t) => Handing(q, t)'
    BY <1>1, <1>2, <1>3 DEF Retiring, Handing
  <1>5. QED
    BY <1>1, <1>2, <1>4, StillHandled

LEMMA DeliverHandled ==
    ASSUME IInv, NothingLeftBehind, NEW r \in Request, Deliver(r)
    PROVE  NothingLeftBehind'
  <1>1. /\ delivered' = delivered \cup {req[r].next} /\ pc[r] = "retired"
        /\ pc' = [pc EXCEPT ![r] = "idle"] /\ req' = [req EXCEPT ![r] = NoToken]
        /\ UNCHANGED <<failures, store>>
    BY DEF Deliver, Finish, Goto
  <1>2. \A t \in TokenId : ~Retiring(r, t) /\ (Handing(r, t) => t \in delivered')
    BY <1>1 DEF Retiring, Handing
  <1>3. \A q \in Request : q # r => pc'[q] = pc[q] /\ req'[q] = req[q]
    BY <1>1 DEF IInv, TypeOK
  <1>4. \A q \in Request, t \in TokenId :
           /\ Retiring(q, t) => Retiring(q, t)'
           /\ Handing(q, t) => Handing(q, t)' \/ t \in delivered'
    BY <1>2, <1>3, OneMoves
  <1>5. \A t \in TokenId : Live(t)' => Live(t)
    BY <1>1 DEF Live, Issued
  <1>6. QED
    BY <1>1, <1>4, <1>5, StillHandled

\* A request comes, or hears its 401.
LEMMA FindTokenHandled ==
    ASSUME IInv, NothingLeftBehind, NEW r \in Request, NEW local, NEW label,
           pc[r] \in {"idle", "rejected"}, pc' = [pc EXCEPT ![r] = label],
           req' = [req EXCEPT ![r] = local], UNCHANGED <<store, delivered, failures>>
    PROVE  NothingLeftBehind'
  <1>1. \A t \in TokenId : ~Retiring(r, t) /\ ~Handing(r, t)
    BY DEF Retiring, Handing
  <1>2. \A q \in Request : q # r => pc'[q] = pc[q] /\ req'[q] = req[q]
    BY DEF IInv, TypeOK
  <1>3. \A q \in Request, t \in TokenId :
           /\ Retiring(q, t) => Retiring(q, t)'
           /\ Handing(q, t) => Handing(q, t)' \/ t \in delivered'
    BY <1>1, <1>2, OneMoves
  <1>4. \A t \in TokenId : Live(t)' => Live(t)
    BY DEF Live, Issued
  <1>5. QED
    BY <1>3, <1>4, StillHandled

\* A login, whose token is delivered at once.
LEMMA LoginHandled ==
    ASSUME IInv, NothingLeftBehind, NEW u \in User, NEW d \in Device \cup {NoDevice},
           NEW i \in Ip, Login(u, d, i)
    PROVE  NothingLeftBehind'
  <1>1. PICK t \in TokenId :
          /\ ~Issued(t)
          /\ store' = [store EXCEPT ![t] = NewDocument(u, d, i, now)]
          /\ delivered' = delivered \cup {t}
    BY DEF Login
  <1>2. UNCHANGED <<pc, req, failures>>
    BY DEF Login
  <1>3. \A s \in TokenId : s # t => store'[s] = store[s]
    BY <1>1 DEF IInv, TypeOK
  <1>4. ~Used(store'[t]) /\ t \in delivered'
    BY <1>1 DEF IInv, TypeOK, NewDocument, Used
  <1>5. SUFFICES ASSUME failures = 0, NEW s \in TokenId, Live(s)'
                 PROVE  /\ Used(store'[s]) => \E q \in Request : Retiring(q, s)'
                        /\ s \notin delivered' => \E q \in Request : Handing(q, s)'
    BY <1>2 DEF NothingLeftBehind
  <1>6. CASE s = t
    BY <1>4, <1>6
  <1>7. CASE s # t
    <2>1. Live(s) /\ store'[s] = store[s] /\ (s \notin delivered' => s \notin delivered)
      BY <1>1, <1>3, <1>5, <1>7 DEF Live, Issued
    <2>2. \A q \in Request : Retiring(q, s)' = Retiring(q, s) /\ Handing(q, s)' = Handing(q, s)
      BY <1>2 DEF Retiring, Handing
    <2>3. QED
      BY <1>5, <2>1, <2>2 DEF NothingLeftBehind
  <1>8. QED
    BY <1>6, <1>7

\* Revocations from outside, and steps that concern no token.
LEMMA OutsideHandled ==
    ASSUME IInv, NothingLeftBehind, UNCHANGED <<delivered, pc, req, failures>>,
           store' = store \/ \E T, why : why \in Reason /\ store' = Revoke(T, why)
    PROVE  NothingLeftBehind'
  <1>1. \A t \in TokenId : Live(t)' => Live(t) /\ store'[t] = store[t]
    BY RevokedOrSame DEF Live, Issued
  <1>2. \A q \in Request, t \in TokenId : Retiring(q, t)' = Retiring(q, t)
                                        /\ Handing(q, t)' = Handing(q, t)
    BY DEF Retiring, Handing
  <1>3. QED
    BY <1>1, <1>2, StillHandled

\* Nothing is left behind but by a handler that fails: from there UsedTokenDies
\* only asks that the request at work goes on.
THEOREM NothingLeftBehindHolds == Spec => []NothingLeftBehind
  <1>1. Init => NothingLeftBehind
    BY DEF Init, NothingLeftBehind, Live, Issued
  <1>2. IInv /\ NothingLeftBehind /\ [Next]_vars => NothingLeftBehind'
    <2> SUFFICES ASSUME IInv, NothingLeftBehind, [Next]_vars PROVE NothingLeftBehind'
      OBVIOUS
    <2>1. ASSUME NEW r \in Request, NEW t \in TokenId,
                 NEW d \in Device \cup {NoDevice}, NEW i \in Ip, FindToken(r, t, d, i)
          PROVE  NothingLeftBehind'
      BY <2>1, FindTokenHandled DEF FindToken, Goto
    <2>2. ASSUME NEW r \in Request, Reject(r) PROVE NothingLeftBehind'
      BY <2>2, FindTokenHandled DEF Reject, Finish, Goto
    <2>3. ASSUME NEW r \in Request, Fail(r) PROVE NothingLeftBehind'
      BY <2>3 DEF Fail, NothingLeftBehind, IInv, TypeOK
    <2>4. ASSUME NEW t \in TokenId, RevokeRefreshToken(t) PROVE NothingLeftBehind'
      <3>1. store' = Revoke({t}, "revoked") /\ "revoked" \in Reason
        BY <2>4 DEF RevokeRefreshToken, Reason
      <3>2. QED
        BY <2>4, <3>1, OutsideHandled DEF RevokeRefreshToken
    <2>5. ASSUME NEW u \in User, RevokeAllUserTokens(u) PROVE NothingLeftBehind'
      <3>1. store' = Revoke(TokensOf(u), "revoked") /\ "revoked" \in Reason
        BY <2>5 DEF RevokeAllUserTokens, Reason
      <3>2. QED
        BY <2>5, <3>1, OutsideHandled DEF RevokeAllUserTokens
    <2>6. CASE Tick \/ UNCHANGED vars
      BY <2>6, OutsideHandled DEF Tick, vars
    <2>7. QED
      BY <2>1, <2>2, <2>3, <2>4, <2>5, <2>6, LoginHandled, RefuseTokenHandled,
         MarkUsedHandled, CreateSuccessorHandled, RetireTokenHandled, DeliverHandled
         DEF Next
  <1>3. QED
    BY <1>1, <1>2, InductiveInvariant, PTL DEF Spec
=============================================================================
