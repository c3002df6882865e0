---------------------------- MODULE RefreshTokens ----------------------------
(***************************************************************************)
(* The refresh-token collection of RefreshTokenService and the concurrent  *)
(* requests of POST /auth/refresh-token that read and write it.            *)
(*                                                                         *)
(* Every awaited database call is a step of its own: other requests, a     *)
(* failure of the handler and the clock may come between any two of them.  *)
(* The checks between two awaits run to completion (one JavaScript turn),  *)
(* so they belong to the step that follows them.                           *)
(*                                                                         *)
(* The operators whose names end in _Bug are plausible mistakes in the     *)
(* definition that follows them; only the mutation runs use them.          *)
(***************************************************************************)
EXTENDS Integers, FiniteSets

CONSTANTS
    TokenId,        \* the uuids the server may draw
    Request,        \* refresh requests in flight at the same time
    User, Device,
    Ip,             \* the classes of address validateIpAddress tells apart
    NoToken, NoDevice, Never,       \* null values
    TicksPerHour, TicksPerDay,      \* the grain of the clock
    REFRESH_TOKEN_EXPIRATION_HOURS,
    MAX_SESSION_LIFETIME_HOURS,
    REFRESH_TOKEN_INACTIVITY_HOURS,
    MAX_REFRESH_ATTEMPTS_PER_DAY,
    MaxTime,        \* bound on the clock
    MaxFailures     \* bound on the number of handlers that fail half way

ASSUME ConstantsAssumption ==
    /\ NoToken \notin TokenId
    /\ NoDevice \notin Device
    /\ Never \notin Nat
    /\ Ip \subseteq {"private", "ipv4", "ipv6"}
    /\ TicksPerHour \in Nat \ {0}
    /\ TicksPerDay \in Nat \ {0}
    /\ REFRESH_TOKEN_EXPIRATION_HOURS \in Nat \ {0}
    /\ MAX_SESSION_LIFETIME_HOURS \in Nat
    /\ REFRESH_TOKEN_INACTIVITY_HOURS \in Nat
    /\ MAX_REFRESH_ATTEMPTS_PER_DAY \in Nat
    /\ MAX_REFRESH_ATTEMPTS_PER_DAY > 1
    /\ MaxTime \in Nat
    /\ MaxFailures \in Nat

VARIABLES
    now,        \* the server's clock, in ticks
    store,      \* the collection: a document, or NoToken, for each id
    delivered,  \* the tokens some client has received
    pc,         \* where each request stands
    req,        \* its local variables, NoToken when it has none
    failures,   \* handlers that have failed so far
    parent      \* history: the token each token was rotated from

vars == <<now, store, delivered, pc, req, failures, parent>>

-----------------------------------------------------------------------------
(* Documents                                                               *)

Reason == {"expired", "max_lifetime_reached", "inactivity", "rate_limit",
           "token_reuse_detected", "device_mismatch", "suspicious_ip_change",
           "rotated", "revoked"}

\* isRevoked, revokedAt and revokedReason are always written together, and so
\* are lastUsedAt and lastRefreshAt: one field stands for each group.
Document ==
    [user : User, device : Device \cup {NoDevice}, ip : Ip,
     expiresAt : Nat, firstIssuedAt : Nat,
     refreshCount : Nat, lastUsedAt : Nat \cup {Never},
     revoked : Reason \cup {"no"}]

\* The locals of a request under way, and of one that awaits its 401.
Local == [token : TokenId, doc : Document,
          device : Device \cup {NoDevice}, ip : Ip,
          next : TokenId \cup {NoToken}]

Rejected == [token : TokenId]

ASSUME NullAssumption == NoToken \notin Document \cup Local \cup Rejected

Used(doc) == doc.lastUsedAt # Never
Issued(t) == store[t] # NoToken
Live(t)   == Issued(t) /\ store[t].revoked = "no"

NewDocument(u, d, i, first) ==
    [user |-> u, device |-> d, ip |-> i,
     expiresAt |-> now + REFRESH_TOKEN_EXPIRATION_HOURS * TicksPerHour,
     firstIssuedAt |-> first,
     refreshCount |-> 0, lastUsedAt |-> Never, revoked |-> "no"]

\* mutant: the update's filter has lost isRevoked: false
Revoke_Bug(T, why) ==
    [t \in TokenId |-> IF t \in T /\ Issued(t)
                       THEN [store[t] EXCEPT !.revoked = why] ELSE store[t]]

\* updateMany({..., isRevoked: false}, {isRevoked: true, revokedReason: why})
Revoke(T, why) ==
    [t \in TokenId |-> IF t \in T /\ Live(t)
                       THEN [store[t] EXCEPT !.revoked = why] ELSE store[t]]

TokensOf(u) == {t \in TokenId : Issued(t) /\ store[t].user = u}

-----------------------------------------------------------------------------
(* The checks of validateRefreshToken, on the document the request has     *)
(* read.  dayjs().diff(x, 'hour') truncates to whole hours.                *)

HoursSince(x) == (now - x) \div TicksPerHour

\* mutant: the expiry is not looked at
Expired_Bug(doc) == FALSE
Expired(doc) == doc.expiresAt < now

MaxLifetimeReached(doc) ==
    HoursSince(doc.firstIssuedAt) > MAX_SESSION_LIFETIME_HOURS

Inactive(doc) ==
    /\ Used(doc)
    /\ HoursSince(doc.lastUsedAt) > REFRESH_TOKEN_INACTIVITY_HOURS

RateLimited(doc) ==
    /\ Used(doc)
    /\ doc.lastUsedAt \div TicksPerDay = now \div TicksPerDay
    /\ doc.refreshCount >= MAX_REFRESH_ATTEMPTS_PER_DAY

\* mutant: the reuse check is switched off
Reused_Bug(doc) == FALSE
Reused(doc) == Used(doc)

\* mutant: the binding is compared only when both sides agree already
DeviceMismatch_Bug(doc, d) == FALSE
DeviceMismatch(doc, d) ==
    /\ d # NoDevice
    /\ doc.device # NoDevice
    /\ d # doc.device

\* mutant: a private address is taken for every other as well
IpSuspicious_Bug(original, current) == original # current /\ current = "private"

\* validateIpAddress: a private address on either side is waved through, and
\* of the others only a change between IPv4 and IPv6 is refused.
IpSuspicious(original, current) ==
    /\ "private" \notin {original, current}
    /\ original # current

\* Why the token is refused: the first check that fails, in the code's order.
Refusal(doc, d, i) ==
    IF Expired(doc) THEN "expired"
    ELSE IF MaxLifetimeReached(doc) THEN "max_lifetime_reached"
    ELSE IF Inactive(doc) THEN "inactivity"
    ELSE IF RateLimited(doc) THEN "rate_limit"
    ELSE IF Reused(doc) THEN "token_reuse_detected"
    ELSE IF DeviceMismatch(doc, d) THEN "device_mismatch"
    ELSE IF IpSuspicious(doc.ip, i) THEN "suspicious_ip_change"
    ELSE "no"

RefusalOf(r) == Refusal(req[r].doc, req[r].device, req[r].ip)

-----------------------------------------------------------------------------
(* Steps                                                                   *)

Init ==
    /\ now = 0
    /\ store = [t \in TokenId |-> NoToken]
    /\ delivered = {}
    /\ pc = [r \in Request |-> "idle"]
    /\ req = [r \in Request |-> NoToken]
    /\ failures = 0
    /\ parent = [t \in TokenId |-> NoToken]

\* Bound: a fresh uuid is set aside for every request that may still need one.
RoomForOneMore ==
    Cardinality({t \in TokenId : ~Issued(t)})
        > Cardinality({r \in Request : pc[r] \in {"validating", "marked"}})

Goto(r, label) == pc' = [pc EXCEPT ![r] = label]

\* A login of user u: createRefreshToken without firstIssuedAt.
Login(u, d, i) ==
    /\ RoomForOneMore
    /\ \E t \in TokenId :
         /\ ~Issued(t)
         /\ store' = [store EXCEPT ![t] = NewDocument(u, d, i, now)]
         /\ delivered' = delivered \cup {t}
    /\ UNCHANGED <<now, pc, req, failures, parent>>

\* A request presents token t; findOne({tokenId, isRevoked: false}).
FindToken(r, t, d, i) ==
    /\ pc[r] = "idle"
    /\ t \in delivered
    /\ Live(t) => RoomForOneMore
    /\ \/ /\ Live(t)
          /\ req' = [req EXCEPT ![r] = [token |-> t, doc |-> store[t],
                                        device |-> d, ip |-> i,
                                        next |-> NoToken]]
          /\ Goto(r, "validating")
       \/ /\ ~Live(t)
          /\ req' = [req EXCEPT ![r] = [token |-> t]]
          /\ Goto(r, "rejected")
    /\ UNCHANGED <<now, store, delivered, failures, parent>>

\* The checks fail: the token, or on a reuse every token of its user, is
\* revoked and the request answered with 401.
RefuseToken(r) ==
    /\ pc[r] = "validating"
    /\ RefusalOf(r) # "no"
    /\ store' = Revoke(IF RefusalOf(r) = "token_reuse_detected"
                       THEN TokensOf(req[r].doc.user) ELSE {req[r].token},
                       RefusalOf(r))
    /\ req' = [req EXCEPT ![r] = [token |-> req[r].token]]
    /\ Goto(r, "rejected")
    /\ UNCHANGED <<now, delivered, failures, parent>>

\* mutant: the document read is saved whole, over what others have written
MarkUsed_Bug(r) ==
    /\ pc[r] = "validating"
    /\ RefusalOf(r) = "no"
    /\ store' = [store EXCEPT ![req[r].token] =
                    [req[r].doc EXCEPT !.lastUsedAt = now,
                                       !.refreshCount = @ + 1]]
    /\ Goto(r, "marked")
    /\ UNCHANGED <<now, delivered, req, failures, parent>>

\* mutant: the count goes down, as if it were of the attempts left
MarkUsed_CountDown(r) ==
    /\ pc[r] = "validating"
    /\ RefusalOf(r) = "no"
    /\ store' = [store EXCEPT
                   ![req[r].token].lastUsedAt = now,
                   ![req[r].token].refreshCount = req[r].doc.refreshCount - 1]
    /\ Goto(r, "marked")
    /\ UNCHANGED <<now, delivered, req, failures, parent>>

\* The checks pass: findByIdAndUpdate writes the use of the token, with the
\* count of the document read and not of the document stored.
MarkUsed(r) ==
    /\ pc[r] = "validating"
    /\ RefusalOf(r) = "no"
    /\ store' = [store EXCEPT
                   ![req[r].token].lastUsedAt = now,
                   ![req[r].token].refreshCount = req[r].doc.refreshCount + 1]
    /\ Goto(r, "marked")
    /\ UNCHANGED <<now, delivered, req, failures, parent>>

\* mutant: the new token starts a session of its own
CreateSuccessor_Bug(r) ==
    /\ pc[r] = "marked"
    /\ \E t \in TokenId :
         /\ ~Issued(t)
         /\ store' = [store EXCEPT ![t] =
                        NewDocument(req[r].doc.user, req[r].device, req[r].ip,
                                    now)]
         /\ req' = [req EXCEPT ![r].next = t]
         /\ parent' = [parent EXCEPT ![t] = req[r].token]
    /\ Goto(r, "created")
    /\ UNCHANGED <<now, delivered, failures>>

\* createRefreshToken with the device and address of this request and the
\* firstIssuedAt of the token presented.
CreateSuccessor(r) ==
    /\ pc[r] = "marked"
    /\ \E t \in TokenId :
         /\ ~Issued(t)
         /\ store' = [store EXCEPT ![t] =
                        NewDocument(req[r].doc.user, req[r].device, req[r].ip,
                                    req[r].doc.firstIssuedAt)]
         /\ req' = [req EXCEPT ![r].next = t]
         /\ parent' = [parent EXCEPT ![t] = req[r].token]
    /\ Goto(r, "created")
    /\ UNCHANGED <<now, delivered, failures>>

\* mutant: the token presented is left as it is
RetireToken_Bug(r) ==
    /\ pc[r] = "created"
    /\ Goto(r, "retired")
    /\ UNCHANGED <<now, store, delivered, req, failures, parent>>

\* revokeRefreshToken(old, 'rotated')
RetireToken(r) ==
    /\ pc[r] = "created"
    /\ store' = Revoke({req[r].token}, "rotated")
    /\ Goto(r, "retired")
    /\ UNCHANGED <<now, delivered, req, failures, parent>>

Finish(r) ==
    /\ Goto(r, "idle")
    /\ req' = [req EXCEPT ![r] = NoToken]

\* The controller has its access token too and answers.
Deliver(r) ==
    /\ pc[r] = "retired"
    /\ delivered' = delivered \cup {req[r].next}
    /\ Finish(r)
    /\ UNCHANGED <<now, store, failures, parent>>

\* The client has its 401.
Reject(r) ==
    /\ pc[r] = "rejected"
    /\ Finish(r)
    /\ UNCHANGED <<now, store, delivered, failures, parent>>

\* A database call throws, the process dies or the answer is lost: what has
\* been written stays written, and the client learns nothing.
Fail(r) ==
    /\ pc[r] \in {"validating", "marked", "created", "retired"}
    /\ failures < MaxFailures
    /\ failures' = failures + 1
    /\ Finish(r)
    /\ UNCHANGED <<now, store, delivered, parent>>

\* The public operations of the service.
RevokeRefreshToken(t) ==
    /\ Live(t)
    /\ store' = Revoke({t}, "revoked")
    /\ UNCHANGED <<now, delivered, pc, req, failures, parent>>

RevokeAllUserTokens(u) ==
    /\ \E t \in TokensOf(u) : Live(t)
    /\ store' = Revoke(TokensOf(u), "revoked")
    /\ UNCHANGED <<now, delivered, pc, req, failures, parent>>

Tick ==
    /\ now < MaxTime
    /\ now' = now + 1
    /\ UNCHANGED <<store, delivered, pc, req, failures, parent>>

-----------------------------------------------------------------------------
Step(r) == \/ RefuseToken(r) \/ MarkUsed(r) \/ CreateSuccessor(r)
           \/ RetireToken(r) \/ Deliver(r) \/ Reject(r)

Next ==
    \/ \E u \in User, d \in Device \cup {NoDevice}, i \in Ip : Login(u, d, i)
    \/ \E r \in Request, t \in TokenId, d \in Device \cup {NoDevice}, i \in Ip :
         FindToken(r, t, d, i)
    \/ \E r \in Request : RefuseToken(r)
    \/ \E r \in Request : MarkUsed(r)
    \/ \E r \in Request : CreateSuccessor(r)
    \/ \E r \in Request : RetireToken(r)
    \/ \E r \in Request : Deliver(r)
    \/ \E r \in Request : Reject(r)
    \/ \E r \in Request : Fail(r)
    \/ \E t \in TokenId : RevokeRefreshToken(t)
    \/ \E u \in User : RevokeAllUserTokens(u)
    \/ Tick

Spec == Init /\ [][Next]_vars

\* The event loop runs every handler that has an answer waiting; nothing makes
\* a client log in or present a token, nor the clock stop.
FairSpec == Spec /\ \A r \in Request : WF_vars(Step(r))

-----------------------------------------------------------------------------
(* Properties                                                              *)

Label == {"idle", "validating", "marked", "created", "retired", "rejected"}

\* Every variable has its type (the schema of refresh-token.schema.model.ts and
\* the locals of refreshAccessToken).
TypeOK ==
    /\ now \in Nat
    /\ store \in [TokenId -> Document \cup {NoToken}]
    /\ delivered \subseteq TokenId
    /\ pc \in [Request -> Label]
    /\ req \in [Request -> Local \cup Rejected \cup {NoToken}]
    /\ failures \in Nat
    /\ parent \in [TokenId -> TokenId \cup {NoToken}]

\* However requests on one token overlap, a token is counted once: refreshCount
\* is 0 before its use and 1 after it.  Hence the daily limit of l.179-189,
\* which wants 20, never refuses anybody.
CountedOnce ==
    \A t \in TokenId : Issued(t) =>
        /\ store[t].refreshCount = (IF Used(store[t]) THEN 1 ELSE 0)
        /\ store[t].revoked # "rate_limit"

\* A rotation keeps the session's owner and start: whatever fails or overlaps,
\* a token descends only from a token of the same user that has been used, and
\* firstIssuedAt is that of the login, never pushed back (l.102-113).
SessionPreserved ==
    \A t \in TokenId : parent[t] # NoToken =>
        /\ Issued(t) /\ Issued(parent[t])
        /\ Used(store[parent[t]])
        /\ store[t].user = store[parent[t]].user
        /\ store[t].firstIssuedAt = store[parent[t]].firstIssuedAt

\* A token is used only inside its six hours and before its session is a whole
\* hour past the maximum lifetime, slow handlers included (l.160-169).
UsedInTime ==
    \A t \in TokenId : Issued(t) /\ Used(store[t]) =>
        /\ store[t].lastUsedAt <= store[t].expiresAt
        /\ store[t].lastUsedAt - store[t].firstIssuedAt <
             (MAX_SESSION_LIFETIME_HOURS + 1) * TicksPerHour

\* One rotation never takes a token from a device to another one, nor from
\* a public IPv4 address to a public IPv6 one or back (l.456-492).
BindingKept ==
    \A t \in TokenId : parent[t] # NoToken =>
        /\ NoDevice \in {store[t].device, store[parent[t]].device}
             \/ store[t].device = store[parent[t]].device
        /\ {store[parent[t]].ip, store[t].ip} # {"ipv4", "ipv6"}

\* A revoked token stays revoked for the reason first given, even when the
\* request that still holds it as valid goes on to mark, rotate or revoke it.
FirstRevocationStays ==
    [][\A t \in TokenId : Issued(t) /\ ~Live(t) =>
          store'[t].revoked = store[t].revoked]_vars

Lifecycle == INSTANCE TokenLifecycle WITH
    None <- NoToken,
    time <- now,
    status <- [t \in TokenId |-> IF ~Issued(t) THEN "fresh"
                                 ELSE IF Live(t) THEN "live" ELSE "dead"],
    owner <- [t \in TokenId |-> IF Issued(t) THEN store[t].user ELSE NoToken],
    start <- [t \in TokenId |->
                IF Issued(t) THEN store[t].firstIssuedAt ELSE NoToken]

\* The service implements the abstract life of a token, whatever requests
\* overlap or fail: no resurrection, no change of owner or of session start.
ImplementsLifecycle == Lifecycle!Spec

\* While no handler fails, a token that has been used is revoked in the end:
\* the window in which it passes for a live one closes (l.94-116).
UsedTokenDies ==
    \A t \in TokenId :
        (Live(t) /\ Used(store[t]) /\ failures = 0)
            ~> (~Live(t) \/ failures > 0)

\* "if lastUsedAt exists, token was already used" (l.421): a token is traded for
\* a new one at most once.
SingleUse ==
    \A t, s \in TokenId : parent[t] # NoToken /\ parent[t] = parent[s] => t = s

\* "Check for token reuse" (l.421): a request that presents a token that a
\* rotation has traded and retired ends with every token of its user revoked, as
\* the answer to a reuse says (l.448).
ReplayRevokesAll ==
    [][\A r \in Request :
          /\ pc[r] # "rejected" /\ pc'[r] = "rejected"
          /\ store'[req'[r].token].revoked = "rotated"
          => \A t \in TokenId :
               (Live(t) => store[t].user # store[req[r].token].user)']_vars

=============================================================================
