---------------------------- MODULE TokenLifecycle ----------------------------
(***************************************************************************)
(* What the refresh-token service promises about tokens, without saying    *)
(* how: a token comes into use once, belongs for good to one user and to   *)
(* one session, whose start no renewal moves, and once out of use never    *)
(* comes back.                                                             *)
(***************************************************************************)
EXTENDS Integers

CONSTANTS TokenId, User, None

VARIABLES
    time,       \* the clock
    status,     \* of each token: "fresh", "live" or "dead"
    owner,      \* the user a token belongs to
    start       \* when the session of a token began

vars == <<time, status, owner, start>>

Init ==
    /\ time = 0
    /\ status = [t \in TokenId |-> "fresh"]
    /\ owner = [t \in TokenId |-> None]
    /\ start = [t \in TokenId |-> None]

Bring(t, u, s) ==
    /\ status[t] = "fresh"
    /\ status' = [status EXCEPT ![t] = "live"]
    /\ owner' = [owner EXCEPT ![t] = u]
    /\ start' = [start EXCEPT ![t] = s]
    /\ time' = time

\* A session opens with its first token.
Open(t, u) == Bring(t, u, time)

\* A token, live or dead by now, is traded for another one of its session.
Renew(old, t) ==
    /\ status[old] # "fresh"
    /\ Bring(t, owner[old], start[old])

Close(T) ==
    /\ \A t \in T : status[t] = "live"
    /\ status' = [t \in TokenId |-> IF t \in T THEN "dead" ELSE status[t]]
    /\ UNCHANGED <<time, owner, start>>

Pass ==
    /\ time' = time + 1
    /\ UNCHANGED <<status, owner, start>>

Next ==
    \/ \E t \in TokenId, u \in User : Open(t, u)
    \/ \E old, t \in TokenId : Renew(old, t)
    \/ \E T \in SUBSET TokenId : Close(T)
    \/ Pass

Spec == Init /\ [][Next]_vars
=============================================================================
