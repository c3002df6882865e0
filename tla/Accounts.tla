------------------------------- MODULE Accounts -------------------------------
(***************************************************************************)
(* What registrations and logins promise together, as if a member were one *)
(* document and a login were judged in one step: an email has one member;  *)
(* a member who has an email becomes able to log in unless a call throws,  *)
(* and stays so; who is let in is the owner of the password, with what     *)
(* was typed; and an owner who could log in when the login began is        *)
(* refused only for what was typed, or for somebody else who answers to it.*)
(***************************************************************************)
EXTENDS Integers

CONSTANTS
    UserId, Person, Login, None,
    Typed,      \* what people type beside a password
    Answering   \* for each of these the persons it stands for

VARIABLES
    member,     \* the person behind each user id, or None
    stage,      \* how far the account of each has come
    attempt,    \* the state of each login, or None
    thrown      \* the calls that have thrown

vars == <<member, stage, attempt, thrown>>

Init ==
    /\ member = [u \in UserId |-> None]
    /\ stage = [u \in UserId |-> "absent"]
    /\ attempt = [l \in Login |-> None]
    /\ thrown = 0

Ready == {u \in UserId : stage[u] = "ready"}

\* What an account is known by: the email, or without one the phone.
Key(u) == IF member[u].email # None THEN member[u].email ELSE member[u].phone

-----------------------------------------------------------------------------
Join(u, p) ==
    /\ stage[u] = "absent"
    /\ \A v \in UserId :
          member[v] # None /\ p.email # None => member[v].email # p.email
    /\ member' = [member EXCEPT ![u] = p]
    /\ stage' = [stage EXCEPT ![u] = "coming"]
    /\ UNCHANGED <<attempt, thrown>>

Activate(u) ==
    /\ stage[u] = "coming"
    /\ \A v \in Ready : Key(v) # Key(u)
    /\ stage' = [stage EXCEPT ![u] = "ready"]
    /\ UNCHANGED <<member, attempt, thrown>>

\* Only who has no email may find the key taken, by somebody of the same phone.
Strand(u) ==
    /\ stage[u] = "coming"
    /\ member[u].email = None
    /\ \E v \in Ready : Key(v) = Key(u)
    /\ stage' = [stage EXCEPT ![u] = "stranded"]
    /\ UNCHANGED <<member, attempt, thrown>>

\* due: whether the account could be logged in to by now
Begin(l, u, id) ==
    /\ attempt[l] = None
    /\ member[u] # None
    /\ attempt' = [attempt EXCEPT ![l] =
                     [id |-> id, owner |-> u, due |-> u \in Ready,
                      answer |-> "none", serves |-> None]]
    /\ UNCHANGED <<member, stage, thrown>>

UnderWay(l) == attempt[l] # None /\ attempt[l].answer = "none"

\* The owner of the password answers to what was typed.
Grant(l) ==
    /\ UnderWay(l)
    /\ attempt[l].owner \in Ready
    /\ member[attempt[l].owner] \in Answering[attempt[l].id]
    /\ attempt' = [attempt EXCEPT ![l].answer = "granted",
                                  ![l].serves = attempt[l].owner]
    /\ UNCHANGED <<member, stage, thrown>>

Refuse(l) ==
    /\ UnderWay(l)
    /\ attempt[l].due =>
          \/ member[attempt[l].owner] \notin Answering[attempt[l].id]
          \/ \E v \in Ready \ {attempt[l].owner} :
                member[v] \in Answering[attempt[l].id]
    /\ attempt' = [attempt EXCEPT ![l].answer = "refused"]
    /\ UNCHANGED <<member, stage, thrown>>

End(l) ==
    /\ attempt[l] # None /\ ~UnderWay(l)
    /\ attempt' = [attempt EXCEPT ![l] = None]
    /\ UNCHANGED <<member, stage, thrown>>

\* A call throws: an account that was coming does not come any more, a login
\* ends without an answer, or nobody notices.
Throw ==
    /\ thrown' = thrown + 1
    /\ \/ \E u \in UserId :
            /\ stage[u] = "coming"
            /\ stage' = [stage EXCEPT ![u] = "stranded"]
            /\ UNCHANGED attempt
       \/ \E l \in Login :
            /\ UnderWay(l)
            /\ attempt' = [attempt EXCEPT ![l] = None]
            /\ UNCHANGED stage
       \/ UNCHANGED <<stage, attempt>>
    /\ UNCHANGED member

Next ==
    \/ \E u \in UserId, p \in Person : Join(u, p)
    \/ \E u \in UserId : Activate(u) \/ Strand(u)
    \/ \E l \in Login, u \in UserId, id \in Typed : Begin(l, u, id)
    \/ \E l \in Login : Grant(l) \/ Refuse(l) \/ End(l)
    \/ Throw

Spec == Init /\ [][Next]_vars
=============================================================================
