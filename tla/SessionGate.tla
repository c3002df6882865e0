----------------------------- MODULE SessionGate -----------------------------
(***************************************************************************)
(* What logins, logouts and JwtStrategy promise together about an access   *)
(* token, as if a request were judged in one step: the session of a token  *)
(* opens at most once, while the login that signed the token is at work,   *)
(* and closes for good; no request is refused with a token whose session   *)
(* is open or to come, and none let in later than a grace period after the *)
(* session has closed and everyone at work on it knows.                    *)
(***************************************************************************)
EXTENDS Integers

CONSTANTS Token, Request, Never, None, Grace

VARIABLES
    time,       \* the clock
    stage,      \* how far the session of each token has come
    since,      \* when it was known to be closed, or Never
    verdict     \* whether each request has been let in, and with which token

vars == <<time, stage, since, verdict>>

\* What may become of a token in one step.  Its session is "pending" while the
\* login may still open it, and "closing" as long as a handler takes it for open.
Course ==
    [unsigned |-> {"unsigned", "pending", "closed"},
     pending |-> {"pending", "open", "closing", "closed"},
     open |-> {"open", "closing", "closed"},
     closing |-> {"closing", "closed"},
     closed |-> {"closed"}]

Init ==
    /\ time = 0
    /\ stage = [t \in Token |-> "unsigned"]
    /\ since = [t \in Token |-> Never]
    /\ verdict = [r \in Request |-> None]

\* Any tokens go any way ahead, whatever else happens.
Advance ==
    /\ stage' \in [Token -> DOMAIN Course]
    /\ \A t \in Token : stage'[t] \in Course[stage[t]]
    /\ since' = [t \in Token |-> IF stage[t] # "closed" /\ stage'[t] = "closed"
                                 THEN time ELSE since[t]]

Admit(r, t) ==
    /\ verdict[r] = None
    /\ \/ stage[t] \in {"open", "closing"}
       \/ stage[t] = "closed" /\ time <= since[t] + Grace
    /\ verdict' = [verdict EXCEPT ![r] = [token |-> t, admitted |-> TRUE]]

Refuse(r, t) ==
    /\ verdict[r] = None
    /\ stage[t] \in {"closing", "closed"}
    /\ verdict' = [verdict EXCEPT ![r] = [token |-> t, admitted |-> FALSE]]

Leave(r) == verdict' = [verdict EXCEPT ![r] = None]

Next ==
    /\ Advance
    /\ \/ time' = time /\ \E r \in Request, t \in Token :
                             Admit(r, t) \/ Refuse(r, t)
       \/ time' = time /\ \E r \in Request : Leave(r)
       \/ time' \in {time, time + 1} /\ UNCHANGED verdict

Spec == Init /\ [][Next]_vars
=============================================================================
