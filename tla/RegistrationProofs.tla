-------------------------- MODULE RegistrationProofs --------------------------
(***************************************************************************)
(* Proofs about Registration for all values of its constants: any number   *)
(* of emails, phones, users, concurrent registrations and failures.        *)
(***************************************************************************)
EXTENDS Registration, TLAPS

\* The unique index of the User collection on email.
EmailUnique ==
    \A u, v \in UserId :
        /\ UserExists(u) /\ UserExists(v)
        /\ users[u].email # None /\ users[u].email = users[v].email
        => u = v

\* Nobody changes a user document, so its Auth document stays a copy of it.
AuthIsCopy == \A u \in UserId : CanLogIn(u) => auths[u] = users[u]

\* Between the insertion and the event the handler knows a user that exists.
CreatedExists ==
    \A r \in Request : request[r].pc = "created" => UserExists(request[r].user)

\* The inductive invariant.
IInv == TypeOK /\ EmailUnique /\ AuthIsCopy /\ CreatedExists

\* What the states of a request look like.
LEMMA RequestShape ==
    ASSUME TypeOK, NEW r \in Request
    PROVE  /\ request[r].pc = "checked" => request[r].person \in Person
           /\ request[r].pc = "created" => request[r].user \in UserId
  BY DEF TypeOK, Idle

LEMMA InitIInv == Init => IInv
  BY RegistrationAssumption DEF Init, IInv, TypeOK, EmailUnique, AuthIsCopy,
     CreatedExists, UserExists, CanLogIn, Idle

LEMMA CheckAccountStep ==
    ASSUME IInv, NEW r \in Request, NEW p \in Person, CheckAccount(r, p)
    PROVE  IInv'
  <1>1. TypeOK'
    BY DEF IInv, TypeOK, CheckAccount, UserExists
  <1>2. CreatedExists'
    BY DEF IInv, TypeOK, CreatedExists, CheckAccount, UserExists
  <1>3. QED
    BY <1>1, <1>2
       DEF IInv, CheckAccount, EmailUnique, AuthIsCopy, UserExists, CanLogIn

\* The insertion of a user whose email no other has.
LEMMA InsertStep ==
    ASSUME IInv, NEW r \in Request, request[r].pc = "checked",
           ~Clash(users, "email", request[r].person),
           NEW u \in UserId, ~UserExists(u),
           users' = [users EXCEPT ![u] = request[r].person],
           request' = [request EXCEPT ![r] = [pc |-> "created", user |-> u]],
           UNCHANGED <<auths, pending, failures>>
    PROVE  IInv'
  <1>1. request[r].person \in Person /\ request[r].person # None
    BY RequestShape, NoneAssumption DEF IInv
  <1>2. /\ users' \in [UserId -> Person \cup {None}]
        /\ users'[u] = request[r].person
        /\ \A v \in UserId : v # u => users'[v] = users[v]
        /\ \A v \in UserId : UserExists(v)' <=> UserExists(v) \/ v = u
    BY <1>1 DEF IInv, TypeOK, UserExists
  <1>3. TypeOK'
    BY <1>2 DEF IInv, TypeOK
  <1>4. EmailUnique'
    <2>1. \A v \in UserId : UserExists(v) /\ users'[u].email # None
              => users[v].email # users'[u].email
      BY <1>2 DEF Clash, UserExists
    <2>2. QED
      BY <1>2, <2>1 DEF IInv, EmailUnique
  <1>5. AuthIsCopy'
    BY <1>2 DEF IInv, AuthIsCopy, CanLogIn, UserExists
  <1>6. CreatedExists'
    BY <1>2, RequestShape DEF IInv, TypeOK, CreatedExists
  <1>7. QED
    BY <1>3, <1>4, <1>5, <1>6 DEF IInv

LEMMA CreateUserStep ==
    ASSUME IInv, NEW r \in Request, CreateUser(r)
    PROVE  IInv'
  <1>1. CASE request' = [request EXCEPT ![r] = Idle] /\ UNCHANGED users
    <2>1. TypeOK'
      BY <1>1 DEF IInv, TypeOK, CreateUser, UserExists
    <2>2. CreatedExists'
      BY <1>1 DEF IInv, TypeOK, CreatedExists, UserExists, Idle
    <2>3. QED
      BY <1>1, <2>1, <2>2
         DEF IInv, CreateUser, EmailUnique, AuthIsCopy, UserExists, CanLogIn
  <1>2. CASE ~Clash(users, "email", request[r].person)
    BY <1>2, InsertStep DEF CreateUser
  <1>3. QED
    BY <1>1, <1>2 DEF CreateUser

LEMMA EmitCreatedStep ==
    ASSUME IInv, NEW r \in Request, EmitCreated(r)
    PROVE  IInv'
  <1>1. TypeOK'
    BY RequestShape DEF IInv, TypeOK, CreatedExists, EmitCreated, UserExists
  <1>2. CreatedExists'
    BY DEF IInv, TypeOK, CreatedExists, EmitCreated, UserExists, Idle
  <1>3. QED
    BY <1>1, <1>2
       DEF IInv, EmitCreated, EmailUnique, AuthIsCopy, UserExists, CanLogIn

LEMMA SetupAuthStep ==
    ASSUME IInv, NEW u \in UserId, SetupAuth(u)
    PROVE  IInv'
  <1>1. users[u] \in Person /\ UNCHANGED users /\ UNCHANGED request
    BY DEF IInv, TypeOK, SetupAuth, UserExists
  <1>2. TypeOK'
    BY <1>1 DEF IInv, TypeOK, SetupAuth, UserExists
  <1>3. AuthIsCopy'
    BY <1>1 DEF IInv, TypeOK, SetupAuth, AuthIsCopy, CanLogIn
  <1>4. QED
    BY <1>1, <1>2, <1>3 DEF IInv, EmailUnique, CreatedExists, UserExists

LEMMA FailStep ==
    ASSUME IInv, Fail
    PROVE  IInv'
  <1>1. TypeOK'
    BY DEF IInv, TypeOK, Fail, UserExists
  <1>2. CreatedExists'
    BY DEF IInv, TypeOK, CreatedExists, Fail, UserExists, Idle
  <1>3. QED
    BY <1>1, <1>2
       DEF IInv, Fail, EmailUnique, AuthIsCopy, UserExists, CanLogIn

LEMMA NextIInv == IInv /\ [Next]_vars => IInv'
  <1> SUFFICES ASSUME IInv, [Next]_vars PROVE IInv'
    OBVIOUS
  <1>1. CASE \E r \in Request, p \in Person : CheckAccount(r, p)
    BY <1>1, CheckAccountStep
  <1>2. CASE \E r \in Request : CreateUser(r)
    BY <1>2, CreateUserStep
  <1>3. CASE \E r \in Request : EmitCreated(r)
    BY <1>3, EmitCreatedStep
  <1>4. CASE \E u \in UserId : SetupAuth(u)
    BY <1>4, SetupAuthStep
  <1>5. CASE Fail
    BY <1>5, FailStep
  <1>6. CASE UNCHANGED vars
    BY <1>6 DEF vars, IInv, TypeOK, EmailUnique, AuthIsCopy, CreatedExists,
       UserExists, CanLogIn
  <1>7. QED
    BY <1>1, <1>2, <1>3, <1>4, <1>5, <1>6 DEF Next

-----------------------------------------------------------------------------
\* IInv holds in every reachable state.
THEOREM InductiveInvariant == Spec => []IInv
  BY InitIInv, NextIInv, PTL DEF Spec

\* Every variable keeps its type, and the listener works on users that exist.
THEOREM TypeCorrect == Spec => []TypeOK
  <1>1. IInv => TypeOK
    BY DEF IInv
  <1>2. QED
    BY <1>1, InductiveInvariant, PTL

\* However registrations, listeners and failures interleave, a login by email
\* reaches the account of the only user who has that email.
THEOREM EmailIsOneAccountHolds == Spec => []EmailIsOneAccount
  <1>1. IInv => EmailIsOneAccount
    <2> SUFFICES ASSUME IInv PROVE EmailIsOneAccount
      OBVIOUS
    <2>1. ASSUME NEW u \in UserId, CanLogIn(u)
          PROVE  UserExists(u) /\ auths[u].email = users[u].email
      BY <2>1 DEF IInv, AuthIsCopy, CanLogIn, UserExists
    <2>2. QED
      BY <2>1 DEF IInv, EmailUnique, EmailIsOneAccount
  <1>2. QED
    BY <1>1, InductiveInvariant, PTL

=============================================================================
