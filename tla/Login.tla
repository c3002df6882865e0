-------------------------------- MODULE Login --------------------------------
(***************************************************************************)
(* POST /auth/authenticate, beside the registrations that make the         *)
(* accounts: a person types an email or a phone number and a password, the *)
(* Auth document is looked up by the one and verified by the other, and    *)
(* the user document is loaded.                                            *)
(*                                                                         *)
(* A password is named by the user whose it is.  Documents of Auth are not *)
(* deleted, so that the second read of findOneOrThrowException finds what  *)
(* the first one found; ReadThrough has that race.                         *)
(*                                                                         *)
(* The operators whose names end in _Bug are plausible mistakes in the     *)
(* definition that follows them; only the mutation runs use them.          *)
(***************************************************************************)
EXTENDS Registration, Phones

CONSTANTS
    Number,     \* the phone numbers that people type when they log in
    Login       \* logins in progress at the same time

\* Registrations store the number as it was typed, once it is accepted.
ASSUME LoginAssumption ==
    /\ Number \subseteq [plus : BOOLEAN, marks : BOOLEAN, digits : Seq(0 .. Other)]
    /\ \A n \in Phone : n \in Number /\ Accepted(n, 0)

VARIABLE login  \* the state of each login

loginVars == <<vars, login>>

\* What is typed: an email, in the small letters in which it is stored or in
\* other ones, or a number.
Typed == [email : Email, exact : BOOLEAN] \cup [number : Number]

IsPhone(id) == "number" \in DOMAIN id

\* A number that cannot be normalised is looked up as it was typed.
LookedUp(n) == IF CanNormalize(n) THEN normalizePhoneNumber(n) ELSE n

LookedUpNumber == [n \in Number |-> LookedUp(n)]

\* Does the document of a person answer the filter?  An email is not folded.
Hit(id, p) ==
    IF IsPhone(id) THEN p.phone = LookedUpNumber[id.number]
                   ELSE id.exact /\ p.email = id.email

Hits(id) == {u \in UserId : CanLogIn(u) /\ Hit(id, auths[u])}

-----------------------------------------------------------------------------
LoginInit == Init /\ login = [l \in Login |-> Idle]

\* due: the history of whether the account could be logged in to by then
BeginLogin(l) ==
    /\ login[l] = Idle
    /\ \E id \in Typed, u \in {v \in UserId : UserExists(v)} :
          login' = [login EXCEPT ![l] = [pc |-> "begun", id |-> id,
                                         password |-> u, due |-> CanLogIn(u)]]

\* The lookups up to the first read of findOneOrThrowException.  The other
\* forms of a number are looked up too, and only the log hears of them.
FindRecord(l) ==
    /\ login[l].pc = "begun"
    /\ login' = [login EXCEPT ![l].pc =
                    IF Hits(login[l].id) = {} THEN "refused" ELSE "found"]

\* mutant: the verdict of the worker is not looked at
ReadRecord_Bug(l) ==
    /\ login[l].pc = "found"
    /\ \E u \in Hits(login[l].id) :
          login' = [login EXCEPT ![l] = [pc |-> "verified", id |-> login[l].id,
                    password |-> login[l].password, due |-> login[l].due, user |-> u]]

\* The second read, which may find another document of the same filter, and
\* the password, which is verified against this one by a worker.
ReadRecord(l) ==
    /\ login[l].pc = "found"
    /\ \E u \in Hits(login[l].id) :
          login' = [login EXCEPT ![l] =
             [pc |-> IF u = login[l].password THEN "verified" ELSE "refused",
              id |-> login[l].id, password |-> login[l].password,
              due |-> login[l].due, user |-> u]]

\* The user document, which the Auth document presupposes, and the tokens.
Answer(l) ==
    /\ login[l].pc = "verified"
    /\ login' = [login EXCEPT ![l].pc =
                    IF UserExists(login[l].user) THEN "ok" ELSE "missing"]

\* The client is answered, and may come again.
Ended(l) == login[l].pc \in {"ok", "refused", "missing"}

Leave(l) == Ended(l) /\ login' = [login EXCEPT ![l] = Idle]

\* A lookup, the worker or the making of the tokens throws.
FailLogin(l) ==
    /\ failures < MaxFailures
    /\ failures' = failures + 1
    /\ login[l] # Idle /\ ~Ended(l)
    /\ login' = [login EXCEPT ![l] = Idle]
    /\ UNCHANGED <<users, auths, request, pending>>

LoginStep(l) ==
    BeginLogin(l) \/ FindRecord(l) \/ ReadRecord(l) \/ Answer(l) \/ Leave(l)

LoginNext ==
    \/ Next /\ UNCHANGED login
    \/ \E l \in Login : LoginStep(l) /\ UNCHANGED vars
    \/ \E l \in Login : FailLogin(l)

LoginSpec == LoginInit /\ [][LoginNext]_loginVars

\* The event loop goes on with every registration and listener whose call has
\* been answered; nobody is made to register or to log in.
LoginFairSpec ==
    /\ LoginSpec
    /\ \A r \in Request :
          /\ WF_loginVars(CreateUser(r) /\ UNCHANGED login)
          /\ WF_loginVars(EmitCreated(r) /\ UNCHANGED login)
    /\ \A u \in UserId : WF_loginVars(SetupAuth(u) /\ UNCHANGED login)

-----------------------------------------------------------------------------
(* Properties                                                              *)

\* Every variable has its type, and every Auth document its user, as it was
\* registered: the two collections are written apart.
LoginTypeOK ==
    /\ TypeOK
    /\ \A u \in UserId : CanLogIn(u) => auths[u] = users[u]
    /\ \A l \in Login :
          \/ login[l] = Idle
          \/ login[l] \in [pc : {"begun", "found", "refused"}, id : Typed,
                           password : UserId, due : BOOLEAN]
          \/ login[l] \in [pc : {"verified", "ok", "refused"}, id : Typed,
                           password : UserId, due : BOOLEAN, user : UserId]

\* Who is let in is the user whose password was typed, and has what was typed:
\* though phones are shared and two reads may find two documents, the document
\* that is verified is the one that is served (auth.service l.660-673).
RightAccount ==
    \A l \in Login :
        login[l] # Idle /\ login[l].pc \in {"verified", "ok"} =>
            /\ login[l].user = login[l].password
            /\ Hit(login[l].id, users[login[l].user])

\* A refusal of the right password, when the account was ready.
RefusedOwner(l) ==
    login[l] # Idle /\ login[l].pc = "refused" /\ login[l].due

Owner(l) == users[login[l].password]

\* Whoever types the email of the account and its password is never refused,
\* whatever else is registered meanwhile (auth.service l.657).
EmailNotRefused ==
    \A l \in Login :
        RefusedOwner(l) /\ ~IsPhone(login[l].id) /\ login[l].id.exact
            => Owner(l).email # login[l].id.email

\* Nobody else has the phone of this user.
OwnPhone(u) ==
    \A v \in UserId : UserExists(v) /\ users[v].phone = users[u].phone => v = u

\* Whoever registered with a number in the international form, and shares it
\* with nobody, can log in with any way to write it (normalizeIdentifier, l.486).
NormalPhoneNotRefused ==
    \A l \in Login :
        RefusedOwner(l) /\ IsPhone(login[l].id) /\ OwnPhone(login[l].password)
            /\ Owner(l).phone # None
            => ~Writes(login[l].id.number, Owner(l).phone)

\* So an owner whose account was ready is refused neither the email nor any way
\* to write a phone in the international form, registrations of the same email
\* or of other phones or the other reads of the login notwithstanding.
OwnerNotRefused == EmailNotRefused /\ NormalPhoneNotRefused

\* "Check if user exists with different phone formats" (auth.service l.631),
\* "Normalize phone number to international format" (user.service l.157):
\* whoever registered with a number, and shares it with nobody, can log in with
\* that same number.
PhoneNotRefused ==
    \A l \in Login :
        RefusedOwner(l) /\ IsPhone(login[l].id) /\ OwnPhone(login[l].password)
            => login[l].id.number # Owner(l).phone

-----------------------------------------------------------------------------
(* The abstract service that registrations and logins implement together   *)

\* A registration or a listener is still to bring the account of the user.
Coming(u) ==
    \/ u \in pending
    \/ \E r \in Request : request[r].pc = "created" /\ request[r].user = u

StageOf(u) ==
    IF ~UserExists(u) THEN "absent"
    ELSE IF CanLogIn(u) THEN "ready"
    ELSE IF Coming(u) THEN "coming"
    ELSE "stranded"

\* A user document that is not found where it must be is no answer of Accounts.
AnswerOf(l) ==
    IF login[l].pc = "ok" THEN "granted"
    ELSE IF login[l].pc \in {"refused", "missing"} THEN login[l].pc
    ELSE "none"

AttemptOf(l) ==
    IF login[l] = Idle THEN None
    ELSE [id |-> login[l].id, owner |-> login[l].password, due |-> login[l].due,
          answer |-> AnswerOf(l),
          serves |-> IF login[l].pc = "ok" THEN login[l].user ELSE None]

Attempt == [id : Typed, owner : UserId, due : BOOLEAN,
            answer : {"none", "granted", "refused"}, serves : UserId \cup {None}]

ASSUME AttemptAssumption == None \notin Attempt

Stages == [u \in UserId |-> StageOf(u)]

Attempts == [l \in Login |-> AttemptOf(l)]

Answering == [id \in Typed |-> {p \in Person : Hit(id, p)}]

Service == INSTANCE Accounts WITH
    member <- users, stage <- Stages, attempt <- Attempts, thrown <- failures

\* Although a user and the Auth document are inserted by two handlers with an
\* event in between, under unique indexes that differ, and a login reads twice,
\* verifies and reads again (auth.service l.640-673), together they behave as
\* Accounts does.
ImplementsAccounts == Service!Spec
=============================================================================
