----------------------------- MODULE AccessTokens -----------------------------
(***************************************************************************)
(* An access token from its signature to the requests it lets in: the      *)
(* logins, registrations and refreshes that issue one, JwtStrategy, which  *)
(* validates it, the jwt_session cache between them, and the closing of    *)
(* sessions.  Every awaited call is a step.                                *)
(*                                                                         *)
(* The operators whose names end in _Bug are plausible mistakes in the     *)
(* definition that follows them; only the mutation runs use them.          *)
(***************************************************************************)
EXTENDS DeviceSessions

CONSTANTS
    Issuer,         \* logins and registrations in progress
    Request,        \* requests under validation
    Never,          \* not a time
    CACHE_TTL,      \* jwt_session entries: 300 seconds for a valid session,
    NEGATIVE_TTL,   \* 60 seconds for an invalid one, in ticks
    MaxTime         \* bound on the clock

ASSUME CacheAssumption ==
    /\ Never \notin Nat
    /\ CACHE_TTL \in Nat \ {0} /\ NEGATIVE_TTL \in Nat \ {0}
    /\ MaxTime \in Nat

VARIABLES
    exp,        \* the exp claim of each token signed, or Never
    refreshed,  \* history: the tokens signed by a refresh
    delivered,  \* the tokens some client holds
    cache,      \* the jwt_session entry of each jti, or None
    issuer,     \* the state of each login or registration
    request,    \* the state of each request
    quietSince  \* history: since when a token's session has been closed, with
                \* no handler left that still takes it for open

vars == <<now, sessions, exp, refreshed, delivered, cache, issuer, request,
          quietSince>>

Signed(j) == exp[j] # Never

-----------------------------------------------------------------------------
(* The jwt_session cache: InMemoryCacheProvider with the ttl of each set.  *)

Entry == [isValid : BOOLEAN, expiry : Nat]

Cached(j) == cache[j] # None /\ cache[j].expiry >= now
Positive(j) == Cached(j) /\ cache[j].isValid
Negative(j) == Cached(j) /\ ~cache[j].isValid

Remember(j, valid) ==
    cache' = [cache EXCEPT ![j] =
                [isValid |-> valid,
                 expiry |-> now + (IF valid THEN CACHE_TTL ELSE NEGATIVE_TTL)]]

-----------------------------------------------------------------------------
(* Issuing                                                                 *)

Idle == [pc |-> "idle"]

Init ==
    /\ now = 0
    /\ sessions = [s \in SessionId |-> None]
    /\ exp = [j \in Jti |-> Never]
    /\ refreshed = {}
    /\ delivered = {}
    /\ cache = [j \in Jti |-> None]
    /\ issuer = [l \in Issuer |-> Idle]
    /\ request = [r \in Request |-> Idle]
    /\ quietSince = [j \in Jti |-> Never]

\* A user who registers has no session yet, and none in the making.
Newcomer(u) ==
    /\ \A s \in SessionId : Exists(s) => sessions[s].user # u
    /\ \A l \in Issuer : issuer[l] # Idle => issuer[l].user # u

\* mutant: the token leaves the server before it has a session
Sign_Bug(l, u, d, registers) ==
    /\ issuer[l] = Idle
    /\ registers => Newcomer(u)
    /\ \E j \in Jti :
         /\ ~Signed(j)
         /\ exp' = [exp EXCEPT ![j] = now + TOKEN_TTL]
         /\ delivered' = delivered \cup {j}
         /\ issuer' = [issuer EXCEPT ![l] =
                         [pc |-> "signed", user |-> u, device |-> d, jti |-> j,
                          registers |-> registers, found |-> None]]
    /\ UNCHANGED <<now, sessions, refreshed, cache, request>>

\* generateAccessToken, for a user who logs in or registers, with a new jti.
Sign(l, u, d, registers) ==
    /\ issuer[l] = Idle
    /\ registers => Newcomer(u)
    /\ \E j \in Jti :
         /\ ~Signed(j)
         /\ exp' = [exp EXCEPT ![j] = now + TOKEN_TTL]
         /\ issuer' = [issuer EXCEPT ![l] =
                         [pc |-> "signed", user |-> u, device |-> d, jti |-> j,
                          registers |-> registers, found |-> None]]
    /\ UNCHANGED <<now, sessions, refreshed, delivered, cache, request>>

\* createDeviceSession: is there a session of this user on this device?
FindSession(l) ==
    /\ issuer[l].pc = "signed"
    /\ LET mine == SessionsOf(issuer[l].user, issuer[l].device)
       IN  \E s \in IF mine = {} THEN {None} ELSE mine :
             issuer' = [issuer EXCEPT ![l].pc = "found", ![l].found = s]
    /\ UNCHANGED <<now, sessions, exp, refreshed, delivered, cache, request>>

\* createDeviceSession: update the session found, or create one.
SaveSession(l) ==
    /\ issuer[l].pc = "found"
    /\ \/ /\ issuer[l].found # None
          /\ UpdateSession(issuer[l].found, issuer[l].jti)
       \/ /\ issuer[l].found = None
          /\ InsertSession(issuer[l].user, issuer[l].device, issuer[l].jti)
    /\ issuer' = [issuer EXCEPT ![l].pc = "saved"]
    /\ UNCHANGED <<now, exp, refreshed, delivered, cache, request>>

\* A login, and not a registration, warms the cache for the next request.
WarmCache(l) ==
    /\ issuer[l].pc = "saved"
    /\ ~issuer[l].registers
    /\ Remember(issuer[l].jti, TRUE)
    /\ issuer' = [issuer EXCEPT ![l].pc = "warmed"]
    /\ UNCHANGED <<now, sessions, exp, refreshed, delivered, request>>

\* The client has its answer.
Deliver(l) ==
    /\ \/ issuer[l].pc = "warmed"
       \/ issuer[l].pc = "saved" /\ issuer[l].registers
    /\ delivered' = delivered \cup {issuer[l].jti}
    /\ issuer' = [issuer EXCEPT ![l] = Idle]
    /\ UNCHANGED <<now, sessions, exp, refreshed, cache, request>>

\* A call throws or the answer is lost: what has been written stays.
FailToIssue(l) ==
    /\ issuer[l] # Idle
    /\ issuer' = [issuer EXCEPT ![l] = Idle]
    /\ UNCHANGED <<now, sessions, exp, refreshed, delivered, cache, request>>

\* POST /auth/refresh-token signs with jti: undefined, for which
\* generateAccessToken draws one; no session is made for it.
Refresh ==
    /\ \E j \in Jti :
         /\ ~Signed(j)
         /\ exp' = [exp EXCEPT ![j] = now + TOKEN_TTL]
         /\ refreshed' = refreshed \cup {j}
         /\ delivered' = delivered \cup {j}
    /\ UNCHANGED <<now, sessions, cache, issuer, request>>

-----------------------------------------------------------------------------
(* Validating                                                              *)

\* Passport refuses a token past its exp; the opaque ids resolve, since a
\* mapping outlives its token.
Present(r, j) ==
    /\ request[r] = Idle
    /\ j \in delivered
    /\ now < exp[j]
    /\ request' = [request EXCEPT ![r] = [pc |-> "presented", jti |-> j]]
    /\ UNCHANGED <<now, sessions, exp, refreshed, delivered, cache, issuer>>

\* mutant: a hit renews the entry
ReadCache_Bug(r) ==
    /\ request[r].pc = "presented"
    /\ LET j == request[r].jti
       IN  /\ request' = [request EXCEPT ![r].pc =
                IF ~Cached(j) THEN "missed"
                ELSE IF cache[j].isValid THEN "accepted" ELSE "rejected"]
           /\ IF Positive(j) THEN Remember(j, TRUE) ELSE UNCHANGED cache
    /\ UNCHANGED <<now, sessions, exp, refreshed, delivered, issuer>>

ReadCache(r) ==
    /\ request[r].pc = "presented"
    /\ request' = [request EXCEPT ![r].pc =
         IF ~Cached(request[r].jti) THEN "missed"
         ELSE IF cache[request[r].jti].isValid THEN "accepted" ELSE "rejected"]
    /\ UNCHANGED <<now, sessions, exp, refreshed, delivered, cache, issuer>>

\* mutant: any session of the token will do, open or not
LookUpSession_Bug(r) ==
    /\ request[r].pc = "missed"
    /\ request' = [request EXCEPT ![r].pc =
         IF \E s \in SessionId : Exists(s) /\ sessions[s].jti = request[r].jti
         THEN "present" ELSE "absent"]
    /\ UNCHANGED <<now, sessions, exp, refreshed, delivered, cache, issuer>>

LookUpSession(r) ==
    /\ request[r].pc = "missed"
    /\ request' = [request EXCEPT ![r].pc =
         IF HasSession(request[r].jti) THEN "present" ELSE "absent"]
    /\ UNCHANGED <<now, sessions, exp, refreshed, delivered, cache, issuer>>

\* The verdict is cached; then updateActivity and attachRoles, or the 401.
CacheVerdict(r) ==
    /\ request[r].pc \in {"present", "absent"}
    /\ Remember(request[r].jti, request[r].pc = "present")
    /\ request' = [request EXCEPT ![r].pc =
         IF request[r].pc = "present" THEN "accepted" ELSE "rejected"]
    /\ UNCHANGED <<now, sessions, exp, refreshed, delivered, issuer>>

\* The request goes on to its controller, has its 401, or fails on the way.
Leave(r) ==
    /\ request[r] # Idle
    /\ request' = [request EXCEPT ![r] = Idle]
    /\ UNCHANGED <<now, sessions, exp, refreshed, delivered, cache, issuer>>

-----------------------------------------------------------------------------
\* The sessions that DeviceSessionService closes, for one user or for all.
CloseSessions ==
    /\ \/ \E u \in User, d \in Device : LogoutDevice(u, d)
       \/ \E u \in User, j \in Jti : LogoutOtherDevices(u, j)
       \/ \E u \in User : LogoutAllDevices(u)
       \/ CleanupExpiredSessions
    /\ UNCHANGED <<now, exp, refreshed, delivered, cache, issuer, request>>

Tick ==
    /\ now < MaxTime
    /\ now' = now + 1
    /\ UNCHANGED <<sessions, exp, refreshed, delivered, cache, issuer, request>>

\* A handler that has seen or saved an open session and not yet cached it.
Held(j) ==
    \/ \E l \in Issuer : issuer[l].pc \in {"signed", "found", "saved"}
                           /\ issuer[l].jti = j
    \/ \E r \in Request : request[r].pc = "present" /\ request[r].jti = j

\* History, in every step: whose session is closed for good by now.
Observe ==
    quietSince' = [j \in Jti |->
        IF quietSince[j] = Never /\ (Signed(j) /\ ~HasSession(j) /\ ~Held(j))'
        THEN now ELSE quietSince[j]]

Next ==
    \/ \E l \in Issuer, u \in User, d \in Device, b \in BOOLEAN :
         Sign(l, u, d, b) /\ Observe
    \/ \E l \in Issuer : FindSession(l) /\ Observe
    \/ \E l \in Issuer : SaveSession(l) /\ Observe
    \/ \E l \in Issuer : WarmCache(l) /\ Observe
    \/ \E l \in Issuer : Deliver(l) /\ Observe
    \/ \E l \in Issuer : FailToIssue(l) /\ Observe
    \/ Refresh /\ Observe
    \/ \E r \in Request, j \in Jti : Present(r, j) /\ Observe
    \/ \E r \in Request : ReadCache(r) /\ Observe
    \/ \E r \in Request : LookUpSession(r) /\ Observe
    \/ \E r \in Request : CacheVerdict(r) /\ Observe
    \/ \E r \in Request : Leave(r) /\ Observe
    \/ CloseSessions /\ Observe
    \/ Tick /\ Observe

Spec == Init /\ [][Next]_vars

-----------------------------------------------------------------------------
(* Properties                                                              *)

Issuing == [pc : {"signed", "found", "saved", "warmed"},
            user : User, device : Device, jti : Jti, registers : BOOLEAN,
            found : SessionId \cup {None}]

Validating == [pc : {"presented", "missed", "present", "absent", "accepted",
                     "rejected"},
               jti : Jti]

\* Every variable has its type (device-session.schema.model.ts, the entries of
\* the jwt_session cache, the locals of the handlers).
TypeOK ==
    /\ now \in Nat
    /\ sessions \in [SessionId -> SessionDoc \cup {None}]
    /\ exp \in [Jti -> Nat \cup {Never}]
    /\ refreshed \subseteq Jti
    /\ delivered \subseteq Jti
    /\ cache \in [Jti -> Entry \cup {None}]
    /\ issuer \in [Issuer -> Issuing \cup {Idle}]
    /\ request \in [Request -> Validating \cup {Idle}]
    /\ quietSince \in [Jti -> Nat \cup {Never}]

\* No session ends before the token it was saved for: expiresAt
\* (device-session.service l.64, 94) never makes JwtStrategy refuse a token that
\* passport has let through.
SessionOutlivesToken ==
    \A s \in SessionId :
        Exists(s) => sessions[s].expiresAt >= exp[sessions[s].jti]

Rejecting(j) ==
    \/ Negative(j)
    \/ \E r \in Request : request[r].pc \in {"absent", "rejected"}
                            /\ request[r].jti = j

\* A token is answered 401 from the cache, or about to be, only when no session
\* of it is open: a lookup that failed is never overtaken by the session's
\* creation (jwt.strategy l.132-145 against auth.service l.282-319).
RejectionIsFinal == \A j \in Jti : Rejecting(j) => ~HasSession(j)

\* After its session is closed and the last handler that saw it open is gone, a
\* token is let in for no longer than the five minutes of a cache entry: hits do
\* not renew it, nor does any lookup (jwt.strategy l.102-130, 166-171).
StaleAcceptanceBounded ==
    \A j \in Jti : quietSince[j] # Never /\ Positive(j) =>
        cache[j].expiry <= quietSince[j] + CACHE_TTL

\* A session that has been closed is never opened again, not even by the login
\* that had found it open and then updates it (device-session.service l.53-73).
ClosedStaysClosed ==
    [][\A s \in SessionId : Exists(s) /\ ~Active(s) => ~Active(s)']_vars

\* "No JTI needed for refresh token flow" (auth.controller l.153): a refreshed
\* token, held by its client and within its hour, is not refused.
RefreshedTokenAccepted ==
    \A r \in Request : request[r].pc = "rejected" =>
        request[r].jti \notin refreshed

-----------------------------------------------------------------------------
(* The abstract gate that these handlers implement                         *)

\* The login that signed the token has yet to save its session.
Pending(j) ==
    \E l \in Issuer : issuer[l].pc \in {"signed", "found"} /\ issuer[l].jti = j

StageOf(j) ==
    IF ~Signed(j) THEN "unsigned"
    ELSE IF HasSession(j) THEN "open"
    ELSE IF quietSince[j] # Never THEN "closed"
    ELSE IF Pending(j) THEN "pending"
    ELSE "closing"

VerdictOn(r) ==
    IF request[r].pc \in {"accepted", "rejected"}
    THEN [token |-> request[r].jti, admitted |-> request[r].pc = "accepted"]
    ELSE None

Stages == [j \in Jti |-> StageOf(j)]

Verdicts == [r \in Request |-> VerdictOn(r)]

Gate == INSTANCE SessionGate WITH
    Token <- Jti, Grace <- CACHE_TTL,
    time <- now, stage <- Stages, since <- quietSince, verdict <- Verdicts

\* Although a login signs, looks for a session, saves it and warms the cache in
\* separate calls (auth.service l.282-337), a request reads the cache, looks the
\* session up and writes its verdict back (jwt.strategy l.98-171), and logouts
\* write to the sessions behind the back of the cache, together they judge
\* requests as SessionGate does.
ImplementsGate == Gate!Spec
=============================================================================
