---------------------------- MODULE DeviceSessions ----------------------------
(***************************************************************************)
(* The device-session collection: what DeviceSessionService reads of it    *)
(* and writes to it, one operator per database call.  AccessTokens says    *)
(* when the calls are made.                                                *)
(*                                                                         *)
(* Left out: lastActivityAt, the names shown to the user, and              *)
(* isCurrentSession, which is not in the schema, so that Mongoose drops it *)
(* from every update.                                                      *)
(***************************************************************************)
EXTENDS Integers, FiniteSets

CONSTANTS
    SessionId, Jti, User, Device,
    None,           \* no document
    SESSION_TTL,    \* 60 minutes, in ticks
    TOKEN_TTL       \* the life of an access token, 3600 seconds, in ticks

ASSUME SessionAssumption ==
    /\ None \notin SessionId \cup Jti
    /\ TOKEN_TTL \in Nat \ {0}
    /\ SESSION_TTL \in Nat
    /\ SESSION_TTL >= TOKEN_TTL

VARIABLES
    now,        \* the server's clock
    sessions    \* the collection

SessionDoc == [user : User, device : Device, jti : Jti,
               active : BOOLEAN, expiresAt : Nat]

ASSUME NoneAssumption == None \notin SessionDoc

Exists(s) == sessions[s] # None
Active(s) == Exists(s) /\ sessions[s].active

\* findOne({jti, isActive: true, expiresAt: {$gt: now}})
Open(s, j) == Active(s) /\ sessions[s].jti = j /\ sessions[s].expiresAt > now

\* A jti that a request may be let in with, as the collection stands.
HasSession(j) == \E s \in SessionId : Open(s, j)

\* findOne({userId, deviceId, isActive: true}): any match may come first.
SessionsOf(u, d) ==
    {s \in SessionId : Active(s) /\ sessions[s].user = u
                                 /\ sessions[s].device = d}

\* mutant: the expiry is left where it was
UpdateSession_Bug(s, j) == sessions' = [sessions EXCEPT ![s].jti = j]

\* mutant: the session is opened again, should it have been closed
UpdateSession_Reopen(s, j) ==
    sessions' = [sessions EXCEPT ![s].jti = j, ![s].active = TRUE,
                                 ![s].expiresAt = now + SESSION_TTL]

\* findByIdAndUpdate, by id alone: isActive is neither asked for nor written.
UpdateSession(s, j) ==
    sessions' = [sessions EXCEPT ![s].jti = j,
                                 ![s].expiresAt = now + SESSION_TTL]

\* mutant: the token's id and the device's change places
InsertSession_Bug(u, d, j) ==
    \E s \in SessionId :
        /\ ~Exists(s)
        /\ sessions' = [sessions EXCEPT ![s] =
                          [user |-> u, device |-> j, jti |-> d,
                           active |-> TRUE, expiresAt |-> now + SESSION_TTL]]

InsertSession(u, d, j) ==
    \E s \in SessionId :
        /\ ~Exists(s)
        /\ sessions' = [sessions EXCEPT ![s] =
                          [user |-> u, device |-> d, jti |-> j,
                           active |-> TRUE, expiresAt |-> now + SESSION_TTL]]

\* updateMany(..., {isActive: false})
Close(S) ==
    sessions' = [s \in SessionId |->
                    IF s \in S THEN [sessions[s] EXCEPT !.active = FALSE]
                    ELSE sessions[s]]

ActiveOf(u) == {s \in SessionId : Active(s) /\ sessions[s].user = u}

LogoutDevice(u, d) == SessionsOf(u, d) # {} /\ Close(SessionsOf(u, d))

LogoutOtherDevices(u, j) ==
    LET others == {s \in ActiveOf(u) : sessions[s].jti # j}
    IN  others # {} /\ Close(others)

LogoutAllDevices(u) == ActiveOf(u) # {} /\ Close(ActiveOf(u))

CleanupExpiredSessions ==
    LET expired == {s \in SessionId : Active(s) /\ sessions[s].expiresAt < now}
    IN  expired # {} /\ Close(expired)
=============================================================================
