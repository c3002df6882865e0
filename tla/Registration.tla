----------------------------- MODULE Registration -----------------------------
(***************************************************************************)
(* POST /user/create-account: the user document that UserService creates,  *)
(* and the Auth document by which the user will log in, which a listener   *)
(* of the NEW_USER_CREATED_FOR_AUTH event creates after the answer.  The   *)
(* two collections share no transaction.                                   *)
(*                                                                         *)
(* The operators whose names end in _Bug are plausible mistakes in the     *)
(* definition that follows them; only the mutation runs use them.          *)
(***************************************************************************)
EXTENDS Integers, FiniteSets

CONSTANTS
    Email, Phone,   \* in the form in which the code stores them
    UserId,         \* the ids the database may draw
    Request,        \* registrations in progress at the same time
    None,           \* no document, no field
    MaxFailures     \* bound on the calls that throw

\* The validators ask for an @ in an email, and for none in a phone.
ASSUME RegistrationAssumption ==
    /\ None \notin Email \cup Phone \cup UserId
    /\ Email \cap Phone = {}
    /\ MaxFailures \in Nat

VARIABLES
    users,      \* the User collection
    auths,      \* the Auth collection, by userId
    request,    \* the state of each registration
    pending,    \* the users whose event the listener is at work on
    failures    \* the calls that have thrown

vars == <<users, auths, request, pending, failures>>

\* What a person registers with: an email, a phone or both.
Person == {p \in [email : Email \cup {None}, phone : Phone \cup {None}] :
              p.email # None \/ p.phone # None}

ASSUME NoneAssumption == None \notin Person

Idle == [pc |-> "idle"]

UserExists(u) == users[u] # None
CanLogIn(u) == auths[u] # None

\* The unique sparse index on a field of a collection.
Clash(collection, field, p) ==
    p[field] # None /\ \E u \in UserId :
        collection[u] # None /\ collection[u][field] = p[field]

-----------------------------------------------------------------------------
Init ==
    /\ users = [u \in UserId |-> None]
    /\ auths = [u \in UserId |-> None]
    /\ request = [r \in Request |-> Idle]
    /\ pending = {}
    /\ failures = 0

\* findOne by the email or, when there is none, by the phone.
AccountExists(p) ==
    IF p.email # None THEN Clash(users, "email", p)
                      ELSE Clash(users, "phone", p)

\* Bound: an id is set aside for every registration that may still need one.
RoomForOneMore ==
    Cardinality({u \in UserId : ~UserExists(u)})
        > Cardinality({r \in Request : request[r].pc = "checked"})

\* "Account already exists" ends the request and changes nothing.
CheckAccount(r, p) ==
    /\ request[r] = Idle
    /\ RoomForOneMore
    /\ ~AccountExists(p)
    /\ request' = [request EXCEPT ![r] = [pc |-> "checked", person |-> p]]
    /\ UNCHANGED <<users, auths, pending, failures>>

\* mutant: the index on email is not unique
CreateUser_Bug(r) ==
    /\ request[r].pc = "checked"
    /\ \E u \in UserId :
         /\ ~UserExists(u)
         /\ users' = [users EXCEPT ![u] = request[r].person]
         /\ request' = [request EXCEPT ![r] = [pc |-> "created", user |-> u]]
    /\ UNCHANGED <<auths, pending, failures>>

\* The insertion, which the unique index on email refuses a second time; the
\* index on phone is not unique.
CreateUser(r) ==
    /\ request[r].pc = "checked"
    /\ \/ /\ Clash(users, "email", request[r].person)
          /\ request' = [request EXCEPT ![r] = Idle]
          /\ UNCHANGED users
       \/ /\ ~Clash(users, "email", request[r].person)
          /\ \E u \in UserId :
               /\ ~UserExists(u)
               /\ users' = [users EXCEPT ![u] = request[r].person]
               /\ request' = [request EXCEPT ![r] =
                                [pc |-> "created", user |-> u]]
    /\ UNCHANGED <<auths, pending, failures>>

\* The access token and its session are made, the event is emitted, which
\* starts the listener, and the client is answered.
EmitCreated(r) ==
    /\ request[r].pc = "created"
    /\ pending' = pending \cup {request[r].user}
    /\ request' = [request EXCEPT ![r] = Idle]
    /\ UNCHANGED <<users, auths, failures>>

\* mutant: the phone is the identifier of whoever has one
Identifier_Bug(p) == IF p.phone # None THEN p.phone ELSE p.email

\* identifier: user.email ?? user.phone
Identifier(p) == IF p.email # None THEN p.email ELSE p.phone

\* The unique indexes of the Auth collection, on identifier and on email.
AuthClash(p) ==
    \/ Clash(auths, "email", p)
    \/ \E u \in UserId : CanLogIn(u) /\ Identifier(auths[u]) = Identifier(p)

\* mutant: an email in the account takes the place of the phone
SetupAuth_Bug(u) ==
    /\ u \in pending
    /\ pending' = pending \ {u}
    /\ auths' = IF AuthClash(users[u]) THEN auths
                ELSE [auths EXCEPT ![u] = [users[u] EXCEPT !.phone =
                                  IF users[u].email # None THEN None ELSE @]]
    /\ UNCHANGED <<users, request, failures>>

\* The listener's create; nobody catches a duplicate key.
SetupAuth(u) ==
    /\ u \in pending
    /\ pending' = pending \ {u}
    /\ auths' = IF AuthClash(users[u]) THEN auths
                ELSE [auths EXCEPT ![u] = users[u]]
    /\ UNCHANGED <<users, request, failures>>

\* A call of the registration or of its listener throws, or the process dies.
Fail ==
    /\ failures < MaxFailures
    /\ failures' = failures + 1
    /\ \/ \E r \in Request :
            /\ request[r] # Idle
            /\ request' = [request EXCEPT ![r] = Idle]
            /\ UNCHANGED pending
       \/ \E u \in pending :
            /\ pending' = pending \ {u}
            /\ UNCHANGED request
    /\ UNCHANGED <<users, auths>>

Next ==
    \/ \E r \in Request, p \in Person : CheckAccount(r, p)
    \/ \E r \in Request : CreateUser(r)
    \/ \E r \in Request : EmitCreated(r)
    \/ \E u \in UserId : SetupAuth(u)
    \/ Fail

Spec == Init /\ [][Next]_vars

-----------------------------------------------------------------------------
(* Properties                                                              *)

\* Every variable has its type, and an event is of a user that exists.
TypeOK ==
    /\ users \in [UserId -> Person \cup {None}]
    /\ auths \in [UserId -> Person \cup {None}]
    /\ request \in [Request -> [pc : {"checked"}, person : Person]
                        \cup [pc : {"created"}, user : UserId] \cup {Idle}]
    /\ pending \subseteq {u \in UserId : UserExists(u)}
    /\ failures \in Nat

\* A login by email reaches the account of the only user who has that email,
\* though the two collections are written apart and the check of user.service
\* l.99-104 comes before the insertion, with other registrations in between.
EmailIsOneAccount ==
    \A u, v \in UserId :
        /\ CanLogIn(u) /\ UserExists(v)
        /\ auths[u].email # None
        /\ auths[u].email = users[v].email
        => u = v

\* While no call throws, whoever registers with an email can log in in the end:
\* no other registration, of the same email or the same phone, makes the
\* listener's insertion fail (user-events.listener l.66).
EmailUserCanLogIn ==
    \A u \in UserId :
        (UserExists(u) /\ users[u].email # None /\ failures = 0)
            ~> (CanLogIn(u) \/ failures > 0)

=============================================================================
