----------------------------- MODULE LoginProofs -----------------------------
(***************************************************************************)
(* Proofs about Login for all values of its constants: any number of       *)
(* persons, phone numbers, concurrent registrations, logins and failures.  *)
(* What Registration does alone is proved in RegistrationProofs.           *)
(***************************************************************************)
EXTENDS Login, RegistrationProofs

\* What a login has got to.
LoginRecord ==
    [pc : {"begun", "found", "refused"}, id : Typed, password : UserId, due : BOOLEAN]
    \cup [pc : {"verified", "ok", "refused"}, id : Typed, password : UserId,
          due : BOOLEAN, user : UserId]

LoginTyped == login \in [Login -> LoginRecord \cup {Idle}]

\* The password is that of an account, which could be logged in to when the
\* login began if its history says so.
KnownOwner(l) ==
    /\ UserExists(login[l].password)
    /\ login[l].due => CanLogIn(login[l].password)

\* The account let in has the password that was typed, and what was typed.
LetIn(l) ==
    login[l].pc \in {"verified", "ok"} =>
        /\ login[l].user = login[l].password
        /\ CanLogIn(login[l].user)
        /\ Hit(login[l].id, auths[login[l].user])

\* Of a refused owner either no account was found, or another one.
Refused(l) ==
    login[l].pc = "refused" /\ login[l].due =>
        \/ ~Hit(login[l].id, users[login[l].password])
        \/ \E v \in UserId : /\ v # login[l].password /\ CanLogIn(v)
                             /\ Hit(login[l].id, auths[v])

\* The inductive invariant.
LoginInv ==
    /\ IInv /\ LoginTyped
    /\ \A l \in Login : login[l] # Idle => KnownOwner(l) /\ LetIn(l) /\ Refused(l)

\* A login at work is no idle one, whatever its record is.
LEMMA NotIdle == \A r \in LoginRecord : r # Idle
  BY DEF LoginRecord, Idle

\* Documents are made and never changed.
Grows ==
    /\ \A u \in UserId : UserExists(u) => users'[u] = users[u]
    /\ \A u \in UserId : CanLogIn(u) => auths'[u] = auths[u]

LEMMA InitLoginInv == LoginInit => LoginInv
  BY InitIInv DEF LoginInit, LoginInv, LoginTyped

\* The steps of the registrations keep IInv, and documents as they are.
LEMMA NextGrows ==
    ASSUME IInv, [Next]_vars
    PROVE  Grows
  <1>1. CASE \E r \in Request, p \in Person : CheckAccount(r, p)
    BY <1>1 DEF CheckAccount, Grows
  <1>2. ASSUME NEW r \in Request, CreateUser(r) PROVE Grows
    BY <1>2 DEF CreateUser, Grows, UserExists, IInv, TypeOK
  <1>3. CASE \E r \in Request : EmitCreated(r)
    BY <1>3 DEF EmitCreated, Grows
  <1>4. ASSUME NEW u \in UserId, SetupAuth(u) PROVE Grows
    <2>1. UNCHANGED users
      BY <1>4 DEF SetupAuth
    <2>2. CanLogIn(u) => AuthClash(users[u])
      BY DEF IInv, AuthIsCopy, CanLogIn, AuthClash
    <2>3. \A v \in UserId : CanLogIn(v) => auths'[v] = auths[v]
      BY <1>4, <2>2 DEF SetupAuth, IInv, TypeOK
    <2>4. QED
      BY <2>1, <2>3 DEF Grows
  <1>5. CASE Fail
    BY <1>5 DEF Fail, Grows
  <1>6. CASE UNCHANGED vars
    BY <1>6 DEF vars, Grows
  <1>7. QED
    BY <1>1, <1>2, <1>3, <1>4, <1>5, <1>6 DEF Next

\* A login that does not move keeps what it knows while documents are made.
LEMMA BystanderKept ==
    ASSUME LoginInv, Grows, NEW l \in Login, login[l] # Idle, login'[l] = login[l]
    PROVE  (KnownOwner(l) /\ LetIn(l) /\ Refused(l))'
  <1>1. /\ login[l].password \in UserId
        /\ login[l].pc \in {"verified", "ok"} => login[l].user \in UserId
    BY DEF LoginInv, LoginTyped, LoginRecord
  <1>2. \A u \in UserId : (UserExists(u) => UserExists(u)') /\ (CanLogIn(u) => CanLogIn(u)')
    BY DEF Grows, UserExists, CanLogIn
  <1>3. KnownOwner(l)'
    BY <1>1, <1>2 DEF LoginInv, KnownOwner
  <1>4. LetIn(l)'
    BY <1>1, <1>2 DEF LoginInv, LetIn, Grows, Hit
  <1>5. Refused(l)'
    BY <1>1, <1>2 DEF LoginInv, KnownOwner, Refused, Grows, Hit
  <1>6. QED
    BY <1>3, <1>4, <1>5

\* One login moves, the rest stays.
LEMMA MoverOK ==
    ASSUME LoginInv, UNCHANGED <<users, auths>>, IInv', NEW l \in Login,
           NEW r \in LoginRecord \cup {Idle}, login' = [login EXCEPT ![l] = r],
           r # Idle => (KnownOwner(l) /\ LetIn(l) /\ Refused(l))'
    PROVE  LoginInv'
  <1>1. LoginTyped'
    BY DEF LoginInv, LoginTyped
  <1>2. ASSUME NEW m \in Login, login'[m] # Idle
        PROVE  (KnownOwner(m) /\ LetIn(m) /\ Refused(m))'
    <2>1. CASE m = l
      BY <1>2, <2>1 DEF LoginInv, LoginTyped
    <2>2. CASE m # l
      BY <1>2, <2>2, BystanderKept DEF LoginInv, LoginTyped, Grows
    <2>3. QED
      BY <2>1, <2>2
  <1>3. QED
    BY <1>1, <1>2 DEF LoginInv

LEMMA BeginLoginStep ==
    ASSUME LoginInv, NEW l \in Login, BeginLogin(l), UNCHANGED vars
    PROVE  LoginInv'
  <1>1. IInv' /\ UNCHANGED <<users, auths>>
    BY NextIInv DEF LoginInv, vars
  <1>2. PICK id \in Typed, u \in UserId :
            /\ UserExists(u)
            /\ login' = [login EXCEPT ![l] = [pc |-> "begun", id |-> id,
                                              password |-> u, due |-> CanLogIn(u)]]
    BY DEF BeginLogin
  <1>3. [pc |-> "begun", id |-> id, password |-> u, due |-> CanLogIn(u)] \in LoginRecord
    BY DEF LoginRecord, CanLogIn
  <1>4. login'[l] = [pc |-> "begun", id |-> id, password |-> u, due |-> CanLogIn(u)]
    BY <1>2 DEF LoginInv, LoginTyped
  <1>5. (KnownOwner(l) /\ LetIn(l) /\ Refused(l))'
    <2>1. /\ login'[l].pc = "begun" /\ login'[l].password = u
          /\ login'[l].due = CanLogIn(u)
      BY <1>4
    <2>2. UserExists(u)' /\ CanLogIn(u)' = CanLogIn(u)
      BY <1>1, <1>2 DEF UserExists, CanLogIn
    <2>3. UserExists(login[l].password)'
      BY <2>1, <2>2, Zenon
    <2>4. (login[l].due => CanLogIn(login[l].password))'
      BY <2>1, <2>2, Zenon
    <2>5. QED
      BY <2>1, <2>3, <2>4 DEF KnownOwner, LetIn, Refused
  <1>6. QED
    BY <1>1, <1>2, <1>3, <1>5, MoverOK

LEMMA FindRecordStep ==
    ASSUME LoginInv, NEW l \in Login, FindRecord(l), UNCHANGED vars
    PROVE  LoginInv'
  <1>1. IInv' /\ UNCHANGED <<users, auths>>
    BY NextIInv DEF LoginInv, vars
  <1> DEFINE v == IF Hits(login[l].id) = {} THEN "refused" ELSE "found"
             r == [login[l] EXCEPT !.pc = v]
  <1>2. login[l] \in LoginRecord /\ login[l].pc = "begun" /\ login[l] # Idle
    BY NotIdle DEF LoginInv, LoginTyped, FindRecord, Idle
  <1>3. /\ r \in LoginRecord /\ r.pc = v /\ r.id = login[l].id /\ r.due = login[l].due
        /\ r.password = login[l].password
    BY <1>2 DEF LoginRecord
  <1>4. login' = [login EXCEPT ![l] = r] /\ login'[l] = r
    BY DEF FindRecord, LoginInv, LoginTyped
  <1>5. v = "refused" /\ r.due => ~Hit(r.id, users[r.password])
    <2>1. ASSUME v = "refused", r.due, Hit(r.id, users[r.password]) PROVE FALSE
      <3>1. CanLogIn(r.password) /\ r.password \in UserId
        BY <1>2, <1>3, <2>1 DEF LoginInv, KnownOwner, LoginRecord
      <3>2. auths[r.password] = users[r.password]
        BY <3>1 DEF LoginInv, IInv, AuthIsCopy
      <3>3. r.password \in Hits(login[l].id)
        BY <1>3, <2>1, <3>1, <3>2 DEF Hits
      <3>4. QED
        BY <2>1, <3>3
    <2>2. QED
      BY <2>1
  <1> HIDE DEF r
  <1>6. (KnownOwner(l) /\ LetIn(l) /\ Refused(l))'
    <2>1. KnownOwner(l)'
      BY <1>1, <1>2, <1>3, <1>4 DEF LoginInv, KnownOwner, UserExists, CanLogIn
    <2>2. LetIn(l)'
      BY <1>3, <1>4 DEF LetIn
    <2>3. Refused(l)'
      BY <1>1, <1>3, <1>4, <1>5 DEF Refused
    <2>4. QED
      BY <2>1, <2>2, <2>3
  <1>7. QED
    BY <1>1, <1>3, <1>4, <1>6, MoverOK

LEMMA ReadRecordStep ==
    ASSUME LoginInv, NEW l \in Login, ReadRecord(l), UNCHANGED vars
    PROVE  LoginInv'
  <1>1. IInv' /\ UNCHANGED <<users, auths>>
    BY NextIInv DEF LoginInv, vars
  <1>2. login[l] \in LoginRecord /\ login[l].pc = "found" /\ login[l] # Idle
    BY NotIdle DEF LoginInv, LoginTyped, ReadRecord, Idle
  <1>3. PICK u \in Hits(login[l].id) :
          login' = [login EXCEPT ![l] =
             [pc |-> IF u = login[l].password THEN "verified" ELSE "refused",
              id |-> login[l].id, password |-> login[l].password,
              due |-> login[l].due, user |-> u]]
    BY DEF ReadRecord
  <1> DEFINE r == [pc |-> IF u = login[l].password THEN "verified" ELSE "refused",
                   id |-> login[l].id, password |-> login[l].password,
                   due |-> login[l].due, user |-> u]
  <1>4. u \in UserId /\ CanLogIn(u) /\ Hit(login[l].id, auths[u])
    BY DEF Hits
  <1>5. r \in LoginRecord
    BY <1>2, <1>4 DEF LoginRecord
  <1>6. login'[l] = r
    BY <1>3 DEF LoginInv, LoginTyped
  <1>7. /\ r.id = login[l].id /\ r.password = login[l].password /\ r.due = login[l].due
        /\ r.user = u
        /\ r.pc = IF u = login[l].password THEN "verified" ELSE "refused"
    OBVIOUS
  <1> HIDE DEF r
  <1>8. (KnownOwner(l) /\ LetIn(l) /\ Refused(l))'
    <2>1. KnownOwner(l)'
      BY <1>1, <1>2, <1>6, <1>7 DEF LoginInv, KnownOwner, UserExists, CanLogIn
    <2>2. LetIn(l)'
      BY <1>1, <1>4, <1>6, <1>7 DEF LetIn, CanLogIn, Hit
    <2>3. Refused(l)'
      BY <1>1, <1>4, <1>6, <1>7 DEF Refused, CanLogIn, Hit
    <2>4. QED
      BY <2>1, <2>2, <2>3
  <1>9. QED
    BY <1>1, <1>3, <1>5, <1>8, MoverOK DEF r

LEMMA AnswerStep ==
    ASSUME LoginInv, NEW l \in Login, Answer(l), UNCHANGED vars
    PROVE  LoginInv'
  <1>1. IInv' /\ UNCHANGED <<users, auths>>
    BY NextIInv DEF LoginInv, vars
  <1>2. login[l] \in LoginRecord /\ login[l].pc = "verified" /\ login[l] # Idle
    BY NotIdle DEF LoginInv, LoginTyped, Answer, Idle
  <1>3. login[l].user \in UserId /\ CanLogIn(login[l].user)
    BY <1>2 DEF LoginInv, LetIn, LoginRecord
  <1>4. UserExists(login[l].user)
    BY <1>3 DEF LoginInv, IInv, AuthIsCopy, CanLogIn, UserExists
  <1> DEFINE r == [login[l] EXCEPT !.pc = "ok"]
  <1>5. login' = [login EXCEPT ![l] = r] /\ login'[l] = r
    BY <1>4 DEF Answer, LoginInv, LoginTyped
  <1>6. /\ r \in LoginRecord /\ r.pc = "ok" /\ r.id = login[l].id /\ r.due = login[l].due
        /\ r.password = login[l].password /\ r.user = login[l].user
    BY <1>2 DEF LoginRecord
  <1> HIDE DEF r
  <1>7. (KnownOwner(l) /\ LetIn(l) /\ Refused(l))'
    BY <1>1, <1>2, <1>5, <1>6
       DEF LoginInv, KnownOwner, LetIn, Refused, UserExists, CanLogIn, Hit
  <1>8. QED
    BY <1>1, <1>5, <1>6, <1>7, MoverOK

\* A login is answered, or a call of it throws.
LEMMA LeaveStep ==
    ASSUME LoginInv, NEW l \in Login, login' = [login EXCEPT ![l] = Idle],
           UNCHANGED <<users, auths>>, IInv'
    PROVE  LoginInv'
  BY MoverOK

LEMMA NextLoginInv == LoginInv /\ [LoginNext]_loginVars => LoginInv'
  <1> SUFFICES ASSUME LoginInv, [LoginNext]_loginVars PROVE LoginInv'
    OBVIOUS
  <1>1. ASSUME [Next]_vars, UNCHANGED login PROVE LoginInv'
    <2>1. IInv' /\ Grows
      BY <1>1, NextIInv, NextGrows DEF LoginInv
    <2>2. \A l \in Login : login'[l] # Idle => (KnownOwner(l) /\ LetIn(l) /\ Refused(l))'
      BY <1>1, <2>1, BystanderKept
    <2>3. QED
      BY <1>1, <2>1, <2>2 DEF LoginInv, LoginTyped
  <1>2. ASSUME NEW l \in Login, LoginStep(l), UNCHANGED vars PROVE LoginInv'
    <2>1. CASE Leave(l)
      BY <1>2, <2>1, LeaveStep, NextIInv DEF Leave, LoginInv, vars
    <2>2. QED
      BY <1>2, <2>1, BeginLoginStep, FindRecordStep, ReadRecordStep, AnswerStep DEF LoginStep
  <1>3. ASSUME NEW l \in Login, FailLogin(l) PROVE LoginInv'
    <2>1. IInv'
      BY <1>3 DEF FailLogin, LoginInv, IInv, TypeOK, EmailUnique, AuthIsCopy, CreatedExists,
         UserExists, CanLogIn
    <2>2. QED
      BY <1>3, <2>1, LeaveStep DEF FailLogin
  <1>4. QED
    BY <1>1, <1>2, <1>3 DEF LoginNext, loginVars

-----------------------------------------------------------------------------
(* Phone numbers                                                           *)

Digits == 0 .. Other

\* What a number that is typed is made of.
Typeable == [plus : BOOLEAN, marks : BOOLEAN, digits : Seq(Digits)]

\* A calling code has one to three digits.
LEMMA CodeLength ==
    ASSUME NEW c \in Code
    PROVE  \E S : CodeDigits[c] \in Seq(S) /\ Len(CodeDigits[c]) \in 1 .. 3
  <1>1. CodeDigits[c] = DigitsOf(c)
    BY Zenon DEF CodeDigits
  <1>2. \/ \E x : CodeDigits[c] = <<x>>
        \/ \E x, y : CodeDigits[c] = <<x, y>>
        \/ \E x, y, z : CodeDigits[c] = <<x, y, z>>
    BY <1>1, Zenon DEF DigitsOf
  <1>3. PICK x, y, z : CodeDigits[c] \in {<<x>>, <<x, y>>, <<x, y, z>>}
    BY <1>2
  <1>4. CodeDigits[c] \in Seq({x, y, z}) /\ Len(CodeDigits[c]) \in 1 .. 3
    <2>1. CASE CodeDigits[c] = <<x>>
      BY <2>1
    <2>2. CASE CodeDigits[c] = <<x, y>>
      BY <2>2
    <2>3. CASE CodeDigits[c] = <<x, y, z>>
      BY <2>3
    <2>4. QED
      BY <1>3, <2>1, <2>2, <2>3
  <1>5. QED
    BY <1>4

\* A sequence is what it begins with and the rest.
LEMMA PrefixAndRest ==
    ASSUME NEW S, NEW s \in Seq(S), NEW T, NEW t \in Seq(T), IsPrefix(s, t)
    PROVE  /\ SubSeq(t, Len(s) + 1, Len(t)) \in Seq(T)
           /\ t = s \o SubSeq(t, Len(s) + 1, Len(t))
  <1> DEFINE r == SubSeq(t, Len(s) + 1, Len(t))
  <1>1. Len(s) <= Len(t) /\ SubSeq(s, 1, Len(s)) = SubSeq(t, 1, Len(s))
    BY DEF IsPrefix
  <1>2. /\ Len(s) \in Nat /\ Len(t) \in Nat
    OBVIOUS
  <1>3. r \in Seq(T) /\ Len(r) = Len(t) - Len(s)
        /\ \A i \in 1 .. Len(t) - Len(s) : r[i] = t[Len(s) + i]
    BY <1>1, <1>2
  <1>4. \A i \in 1 .. Len(s) : s[i] = t[i]
    <2>1. ASSUME NEW i \in 1 .. Len(s) PROVE s[i] = t[i]
      <3>1. SubSeq(s, 1, Len(s))[i] = s[i]
        OBVIOUS
      <3>2. SubSeq(t, 1, Len(s))[i] = t[i]
        BY <1>1
      <3>3. QED
        BY <1>1, <3>1, <3>2
    <2>2. QED
      BY <2>1
  <1> HIDE DEF r
  <1>5. s \o r = t
    <2>1. Len(s \o r) = Len(t) /\ s \o r \in Seq(S \cup T)
      BY <1>1, <1>2, <1>3
    <2>2. ASSUME NEW i \in 1 .. Len(t) PROVE (s \o r)[i] = t[i]
      BY <1>1, <1>2, <1>3, <1>4
    <2>3. t \in Seq(S \cup T) /\ \A a, b \in Seq(S \cup T) :
              Len(a) = Len(b) /\ (\A i \in 1 .. Len(b) : a[i] = b[i]) => a = b
      OBVIOUS
    <2>4. QED
      BY <2>1, <2>2, <2>3
  <1>6. QED
    BY <1>3, <1>5 DEF r

\* Of the codes that match, the longest is chosen among them.
LEMMA LongestIsOne ==
    ASSUME NEW codes \in SUBSET Code, codes # {}
    PROVE  Longest(codes) \in codes
  <1> DEFINE length(c) == Len(CodeDigits[c])
  <1>1. \A c \in codes : length(c) \in 1 .. 3
    BY CodeLength
  <1> HIDE DEF length
  <1>2. \E c \in codes : \A d \in codes : length(d) <= length(c)
    <2>1. CASE \E c \in codes : length(c) = 3
      BY <1>1, <2>1
    <2>2. CASE ~(\E c \in codes : length(c) = 3) /\ \E c \in codes : length(c) = 2
      BY <1>1, <2>2
    <2>3. CASE \A c \in codes : length(c) # 3 /\ length(c) # 2
      BY <1>1, <2>3
    <2>4. QED
      BY <2>1, <2>2, <2>3
  <1>3. QED
    BY <1>2, Zenon DEF Longest, length

\* A valid number with a plus is its code and its local digits.
LEMMA CodeAndLocal ==
    ASSUME NEW p \in Typeable, p.plus, extractCountryCode(p).isValid
    PROVE  LET f == extractCountryCode(p)
           IN  /\ f.code \in Code
               /\ f.local \in Seq(Digits) /\ f.local # <<>>
               /\ p.digits = CodeDigits[f.code] \o f.local
  <1> DEFINE c == Longest(Matching(p.digits))
             local == SubSeq(p.digits, Len(CodeDigits[c]) + 1, Len(p.digits))
  <1>0. p.digits \in Seq(Digits)
    BY DEF Typeable
  <1>1. /\ extractCountryCode(p) = [code |-> c, local |-> local,
                                    isValid |-> LongEnough(c, local) /\ OnlyDigits(local)]
        /\ Matching(p.digits) # {}
    BY Zenon DEF extractCountryCode
  <1> DEFINE v == LongEnough(c, local) /\ OnlyDigits(local)
  <1>2. extractCountryCode(p).code = c /\ extractCountryCode(p).local = local /\ OnlyDigits(local)
    <2>1. /\ [code |-> c, local |-> local, isValid |-> v].code = c
          /\ [code |-> c, local |-> local, isValid |-> v].local = local
          /\ [code |-> c, local |-> local, isValid |-> v].isValid = v
      <3> HIDE DEF c, local, v
      <3>1. QED
        OBVIOUS
    <2>2. v
      BY <1>1, <2>1, Zenon
    <2>3. QED
      BY <1>1, <2>1, <2>2, Zenon
  <1>3. c \in Code /\ IsPrefix(CodeDigits[c], p.digits)
    BY <1>1, LongestIsOne DEF Matching
  <1>4. PICK S : CodeDigits[c] \in Seq(S)
    BY <1>3, CodeLength
  <1>5. local \in Seq(Digits) /\ p.digits = CodeDigits[c] \o local
    BY <1>0, <1>3, <1>4, PrefixAndRest
  <1>6. QED
    BY <1>2, <1>3, <1>5 DEF OnlyDigits

\* The zeros before a local number are taken off, and nothing else.
LEMMA ZerosOff ==
    ASSUME NEW s \in Seq(Digits), s # <<>>, s[1] # 0
    PROVE  /\ WithoutZeros(s) = s /\ WithoutZeros(<<0>> \o s) = s
           /\ Tail(<<0>> \o s) = s
  <1> DEFINE F(t, i) == /\ \A j \in 1 .. i - 1 : t[j] = 0
                        /\ i <= Len(t) => t[i] # 0
  <1>1. Len(s) \in Nat /\ Len(s) >= 1 /\ SubSeq(s, 1, Len(s)) = s
    OBVIOUS
  <1>2. (CHOOSE i \in 1 .. Len(s) + 1 : F(s, i)) = 1
    <2>1. F(s, 1) /\ 1 \in 1 .. Len(s) + 1
      BY <1>1
    <2>2. \A i \in 1 .. Len(s) + 1 : F(s, i) => i = 1
      BY <1>1
    <2> HIDE DEF F
    <2>3. QED
      BY <2>1, <2>2
  <1> DEFINE z == <<0>> \o s
  <1>3. /\ z \in Seq(Digits) /\ Len(z) = Len(s) + 1 /\ z[1] = 0 /\ z[2] = s[1]
        /\ \A i \in 1 .. Len(s) : z[i + 1] = s[i]
    BY <1>1 DEF Digits, Other
  <1>4. SubSeq(z, 2, Len(z)) = s
    <2>1. SubSeq(z, 2, Len(z)) \in Seq(Digits) /\ Len(SubSeq(z, 2, Len(z))) = Len(s)
      BY <1>1, <1>3
    <2>2. \A i \in 1 .. Len(s) : SubSeq(z, 2, Len(z))[i] = s[i]
      BY <1>1, <1>3
    <2> HIDE DEF z
    <2>3. QED
      BY <1>1, <2>1, <2>2
  <1>5. Tail(z) = s
    <2>1. Tail(z) \in Seq(Digits) /\ Len(Tail(z)) = Len(s)
      BY <1>1, <1>3
    <2>2. \A i \in 1 .. Len(s) : Tail(z)[i] = s[i]
      BY <1>1, <1>3
    <2> HIDE DEF z
    <2>3. QED
      BY <1>1, <2>1, <2>2
  <1> HIDE DEF z
  <1>6. (CHOOSE i \in 1 .. Len(z) + 1 : F(z, i)) = 2
    <2>1. F(z, 2) /\ 2 \in 1 .. Len(z) + 1
      BY <1>1, <1>3
    <2>2. \A i \in 1 .. Len(z) + 1 : F(z, i) => i = 2
      BY <1>1, <1>3
    <2> HIDE DEF F
    <2>3. QED
      BY <2>1, <2>2
  <1>7. WithoutZeros(s) = s
    BY <1>1, <1>2 DEF WithoutZeros
  <1>8. WithoutZeros(z) = s
    BY <1>4, <1>6 DEF WithoutZeros
  <1>9. QED
    BY <1>5, <1>7, <1>8 DEF z

\* Whatever way to write a number in the international form is typed, what is
\* looked up is that number.
LEMMA NormalFormFound ==
    ASSUME NEW n \in Typeable, NEW p \in Typeable, Writes(n, p)
    PROVE  LookedUp(n) = p
  <1> DEFINE e == extractCountryCode(n)
             f == extractCountryCode(p)
  <1>1. /\ p.plus = TRUE /\ p.marks = FALSE /\ f.isValid /\ f.local[1] # 0
        /\ e.isValid /\ e.code = f.code
        /\ e.local \in {f.local, <<0>> \o f.local}
    BY DEF Writes, Typeable
  <1>2. f.local \in Seq(Digits) /\ f.local # <<>> /\ p.digits = CodeDigits[f.code] \o f.local
    BY <1>1, CodeAndLocal
  <1> HIDE DEF e, f
  <1>3. LocalDigits(f.code, e.local) = f.local
    <2>1. f.local[1] # 0 /\ <<0>> \o f.local # <<>> /\ (<<0>> \o f.local)[1] = 0
      BY <1>1, <1>2
    <2>2. QED
      BY <1>1, <1>2, <2>1, ZerosOff DEF LocalDigits
  <1>4. LookedUp(n) = formatPhoneNumberWithCountryCode(f.code, e.local)
    BY <1>1 DEF LookedUp, CanNormalize, normalizePhoneNumber, e
  <1>5. LookedUp(n) = [plus |-> TRUE, marks |-> FALSE, digits |-> p.digits]
    BY <1>2, <1>3, <1>4 DEF formatPhoneNumberWithCountryCode
  <1>6. p = [plus |-> p.plus, marks |-> p.marks, digits |-> p.digits]
    BY DEF Typeable
  <1>7. QED
    BY <1>1, <1>5, <1>6

-----------------------------------------------------------------------------
\* LoginInv holds in every reachable state.
THEOREM LoginInductiveInvariant == LoginSpec => []LoginInv
  BY InitLoginInv, NextLoginInv, PTL DEF LoginSpec

\* Every variable keeps its type, and every Auth document is of its user.
THEOREM LoginTypeCorrect == LoginSpec => []LoginTypeOK
  <1>1. LoginInv => LoginTypeOK
    <2> SUFFICES ASSUME LoginInv PROVE LoginTypeOK
      OBVIOUS
    <2>1. \A u \in UserId : CanLogIn(u) => auths[u] = users[u]
      BY DEF LoginInv, IInv, AuthIsCopy
    <2>2. \A l \in Login : login[l] \in LoginRecord \cup {Idle}
      BY DEF LoginInv, LoginTyped
    <2>3. TypeOK
      BY DEF LoginInv, IInv
    <2>4. QED
      BY <2>1, <2>2, <2>3 DEF LoginTypeOK, LoginRecord
  <1>2. QED
    BY <1>1, LoginInductiveInvariant, PTL

\* Beside the logins, too, an email leads to one account.
THEOREM LoginEmailIsOneAccount == LoginSpec => []EmailIsOneAccount
  <1>1. LoginInv => EmailIsOneAccount
    <2> SUFFICES ASSUME LoginInv PROVE EmailIsOneAccount
      OBVIOUS
    <2>1. ASSUME NEW u \in UserId, CanLogIn(u)
          PROVE  UserExists(u) /\ auths[u].email = users[u].email
      BY <2>1 DEF LoginInv, IInv, AuthIsCopy, CanLogIn, UserExists
    <2>2. QED
      BY <2>1 DEF LoginInv, IInv, EmailUnique, EmailIsOneAccount
  <1>2. QED
    BY <1>1, LoginInductiveInvariant, PTL

\* Who is let in is the user whose password was typed, and has what was typed.
THEOREM RightAccountHolds == LoginSpec => []RightAccount
  <1>1. LoginInv => RightAccount
    <2> SUFFICES ASSUME LoginInv, NEW l \in Login, login[l] # Idle,
                        login[l].pc \in {"verified", "ok"}
                 PROVE  /\ login[l].user = login[l].password
                        /\ Hit(login[l].id, users[login[l].user])
      BY DEF RightAccount
    <2>1. LetIn(l) /\ login[l].user \in UserId
      BY DEF LoginInv, LoginTyped, LoginRecord
    <2>2. QED
      BY <2>1 DEF LetIn, LoginInv, IInv, AuthIsCopy
  <1>2. QED
    BY <1>1, LoginInductiveInvariant, PTL

\* Whoever types their email and password is not refused.
THEOREM EmailNotRefusedHolds == LoginSpec => []EmailNotRefused
  <1>1. LoginInv => EmailNotRefused
    <2> SUFFICES ASSUME LoginInv, NEW l \in Login, RefusedOwner(l),
                        ~IsPhone(login[l].id), login[l].id.exact,
                        Owner(l).email = login[l].id.email
                 PROVE  FALSE
      BY DEF EmailNotRefused
    <2>1. /\ Refused(l) /\ KnownOwner(l) /\ login[l].pc = "refused" /\ login[l].due
          /\ login[l].password \in UserId /\ login[l].id \in Typed
      BY DEF LoginInv, LoginTyped, LoginRecord, RefusedOwner
    <2>2. Hit(login[l].id, users[login[l].password])
      BY DEF Hit, Owner
    <2>3. PICK v \in UserId : /\ v # login[l].password /\ CanLogIn(v)
                              /\ Hit(login[l].id, auths[v])
      BY <2>1, <2>2 DEF Refused
    <2>4. auths[v] = users[v] /\ UserExists(v) /\ UserExists(login[l].password)
      BY <2>1, <2>3 DEF LoginInv, IInv, AuthIsCopy, CanLogIn, UserExists, KnownOwner
    <2>5. users[v].email = login[l].id.email
      BY <2>3, <2>4 DEF Hit
    <2>6. login[l].id.email \in Email
      BY <2>1, Zenon DEF Typed, IsPhone
    <2>7. users[v].email # None
      BY <2>5, <2>6, RegistrationAssumption
    <2>8. QED
      BY <2>1, <2>3, <2>4, <2>5, <2>7 DEF LoginInv, IInv, EmailUnique, Owner
  <1>2. QED
    BY <1>1, LoginInductiveInvariant, PTL

\* Whoever registered with a number in the international form, shared with
\* nobody, is not refused with any way to write it.
THEOREM NormalPhoneNotRefusedHolds == LoginSpec => []NormalPhoneNotRefused
  <1>1. LoginInv => NormalPhoneNotRefused
    <2> SUFFICES ASSUME LoginInv, NEW l \in Login, RefusedOwner(l), IsPhone(login[l].id),
                        OwnPhone(login[l].password), Owner(l).phone # None,
                        Writes(login[l].id.number, Owner(l).phone)
                 PROVE  FALSE
      BY DEF NormalPhoneNotRefused
    <2>1. /\ Refused(l) /\ KnownOwner(l) /\ login[l].pc = "refused" /\ login[l].due
          /\ login[l].password \in UserId /\ login[l].id \in Typed
      BY DEF LoginInv, LoginTyped, LoginRecord, RefusedOwner
    <2>2. login[l].id.number \in Number
      BY <2>1 DEF Typed, IsPhone
    <2>3. Owner(l).phone \in Number
      <3>1. users[login[l].password] \in Person
        BY <2>1 DEF LoginInv, IInv, TypeOK, KnownOwner, UserExists
      <3>2. QED
        BY <3>1, LoginAssumption DEF Owner, Person
    <2>4. Number \subseteq Typeable
      BY LoginAssumption DEF Typeable, Digits
    <2>5. LookedUpNumber[login[l].id.number] = Owner(l).phone
      BY <2>2, <2>3, <2>4, NormalFormFound DEF LookedUpNumber
    <2>6. Hit(login[l].id, users[login[l].password])
      BY <2>5 DEF Hit, Owner
    <2>7. PICK v \in UserId : /\ v # login[l].password /\ CanLogIn(v)
                              /\ Hit(login[l].id, auths[v])
      BY <2>1, <2>6 DEF Refused
    <2>8. auths[v] = users[v] /\ UserExists(v)
      BY <2>7 DEF LoginInv, IInv, AuthIsCopy, CanLogIn, UserExists
    <2>9. QED
      BY <2>5, <2>7, <2>8 DEF Hit, OwnPhone, Owner
  <1>2. QED
    BY <1>1, LoginInductiveInvariant, PTL

\* An owner whose account was ready is not refused what identifies it alone.
THEOREM OwnerNotRefusedHolds == LoginSpec => []OwnerNotRefused
  BY EmailNotRefusedHolds, NormalPhoneNotRefusedHolds, PTL DEF OwnerNotRefused

-----------------------------------------------------------------------------
(* The implementation of Accounts                                          *)

\* Who can log in is a user, and is ready in the eyes of Accounts.
LEMMA ReadyUsers ==
    ASSUME IInv
    PROVE  /\ \A u \in UserId : CanLogIn(u) => UserExists(u) /\ auths[u] = users[u]
           /\ \A u \in UserId : Stages[u] = StageOf(u)
           /\ Service!Ready = {u \in UserId : CanLogIn(u)}
  <1>1. \A u \in UserId : CanLogIn(u) => UserExists(u) /\ auths[u] = users[u]
    BY DEF IInv, AuthIsCopy, CanLogIn, UserExists
  <1>2. \A u \in UserId : Stages[u] = StageOf(u)
    BY DEF Stages
  <1>3. \A u \in UserId : StageOf(u) = "ready" <=> CanLogIn(u)
    BY <1>1 DEF StageOf
  <1>4. QED
    BY <1>1, <1>2, <1>3 DEF Service!Ready

\* A step that leaves each user where it was.
LEMMA SameStages ==
    ASSUME \A u \in UserId : StageOf(u)' = StageOf(u)
    PROVE  Stages' = Stages
  BY DEF Stages

LEMMA SameAttempts == UNCHANGED login => Attempts' = Attempts
  BY DEF Attempts, AttemptOf, AnswerOf

\* The stage of a user depends on its documents and on who is to bring them.
LEMMA StageKept ==
    ASSUME NEW u \in UserId, users'[u] = users[u], auths'[u] = auths[u],
           Coming(u)' <=> Coming(u)
    PROVE  StageOf(u)' = StageOf(u)
  BY DEF StageOf, UserExists, CanLogIn

LEMMA CreateUserJoins ==
    ASSUME IInv, NEW r \in Request, CreateUser(r), UNCHANGED login
    PROVE  [Service!Next]_(Service!vars)
  <1>1. /\ request[r].pc = "checked" /\ request[r] \in [pc : {"checked"}, person : Person]
        /\ request \in [Request -> [pc : {"checked"}, person : Person]
                              \cup [pc : {"created"}, user : UserId] \cup {Idle}]
    BY DEF CreateUser, IInv, TypeOK, Idle
  <1>2. Attempts' = Attempts /\ UNCHANGED <<auths, pending, failures>>
    BY SameAttempts DEF CreateUser
  <1>3. CASE request' = [request EXCEPT ![r] = Idle] /\ UNCHANGED users
    <2>1. \A u \in UserId : Coming(u)' <=> Coming(u)
      BY <1>1, <1>2, <1>3 DEF Coming, Idle
    <2>2. Stages' = Stages
      BY <1>2, <1>3, <2>1, StageKept, SameStages
    <2>3. QED
      BY <1>2, <1>3, <2>2 DEF Service!vars
  <1>4. CASE ~Clash(users, "email", request[r].person)
    <2>1. CASE \E u \in UserId :
                 /\ ~UserExists(u)
                 /\ users' = [users EXCEPT ![u] = request[r].person]
                 /\ request' = [request EXCEPT ![r] = [pc |-> "created", user |-> u]]
      <3>1. PICK u \in UserId :
                 /\ ~UserExists(u)
                 /\ users' = [users EXCEPT ![u] = request[r].person]
                 /\ request' = [request EXCEPT ![r] = [pc |-> "created", user |-> u]]
        BY <2>1
      <3>2. request[r].person \in Person /\ request[r].person # None
        BY <1>1, NoneAssumption
      <3>3. users'[u] = request[r].person /\ request'[r] = [pc |-> "created", user |-> u]
        BY <1>1, <3>1 DEF IInv, TypeOK
      <3>4. Stages[u] = "absent" /\ StageOf(u)' = "coming"
        <4>1. ~CanLogIn(u)'
          BY <1>2, <3>1, ReadyUsers DEF CanLogIn
        <4>2. Coming(u)'
          BY <3>3 DEF Coming
        <4>3. UserExists(u)'
          BY <3>2, <3>3 DEF UserExists
        <4>4. QED
          BY <3>1, <4>1, <4>2, <4>3 DEF Stages, StageOf
      <3>5. ASSUME NEW v \in UserId, v # u PROVE StageOf(v)' = StageOf(v)
        <4>1. Coming(v)' <=> Coming(v)
          BY <1>1, <1>2, <3>1, <3>5 DEF Coming
        <4>2. QED
          BY <1>2, <3>1, <3>5, <4>1, StageKept DEF IInv, TypeOK
      <3>6. Stages' = [Stages EXCEPT ![u] = "coming"]
        BY <3>4, <3>5 DEF Stages
      <3>7. \A v \in UserId : users[v] # None /\ request[r].person.email # None
                => users[v].email # request[r].person.email
        BY <1>4 DEF Clash
      <3>8. Service!Join(u, request[r].person)
        BY <1>2, <3>1, <3>4, <3>6, <3>7 DEF Service!Join
      <3>9. QED
        BY <3>2, <3>8 DEF Service!Next
    <2>2. QED
      BY <1>3, <1>4, <2>1 DEF CreateUser
  <1>5. QED
    BY <1>3, <1>4 DEF CreateUser

\* Whoever has an email finds the key of the account free: it is taken by who
\* has the same email only, and that is the user itself.
LEMMA EmailKeyFree ==
    ASSUME IInv, NEW u \in UserId, UserExists(u), ~CanLogIn(u), AuthClash(users[u])
    PROVE  /\ users[u].email = None
           /\ \E v \in UserId : CanLogIn(v) /\ Identifier(users[v]) = Identifier(users[u])
  <1>1. \A v \in UserId : CanLogIn(v) => UserExists(v) /\ auths[v] = users[v]
    BY ReadyUsers
  <1>2. \A v \in UserId : UserExists(v) => users[v] \in Person
    BY DEF IInv, TypeOK, UserExists
  <1>3. \A v \in UserId : CanLogIn(v) /\ users[u].email # None
            => users[v].email # users[u].email
    BY <1>1 DEF IInv, EmailUnique
  <1>4. ~Clash(auths, "email", users[u])
    <2>1. ASSUME NEW v \in UserId, auths[v] # None, users[u].email # None,
                 auths[v].email = users[u].email
          PROVE  FALSE
      BY <1>1, <1>3, <2>1 DEF CanLogIn
    <2>2. QED
      BY <2>1 DEF Clash
  <1>5. PICK v \in UserId : CanLogIn(v) /\ Identifier(users[v]) = Identifier(users[u])
    BY <1>1, <1>4 DEF AuthClash
  <1>6. ASSUME users[u].email # None PROVE FALSE
    <2>1. users[u].email \in Email /\ Identifier(users[u]) = users[u].email
      BY <1>2, <1>6 DEF Person, Identifier
    <2>2. users[v].email \in Email \cup {None} /\ users[v].phone \in Phone \cup {None}
      BY <1>1, <1>2, <1>5 DEF Person
    <2>3. users[v].email # users[u].email
      BY <1>3, <1>5, <1>6
    <2>4. Identifier(users[v]) # users[u].email
      BY <2>1, <2>2, <2>3, RegistrationAssumption DEF Identifier
    <2>5. QED
      BY <1>5, <2>1, <2>4
  <1>7. QED
    BY <1>5, <1>6

LEMMA SetupAuthActivates ==
    ASSUME IInv, NEW u \in UserId, SetupAuth(u), UNCHANGED login
    PROVE  [Service!Next]_(Service!vars)
  <1>1. /\ Attempts' = Attempts /\ UNCHANGED <<users, request, failures>>
        /\ pending' = pending \ {u} /\ u \in pending
    BY SameAttempts DEF SetupAuth
  <1>2. UserExists(u)
    BY <1>1 DEF IInv, TypeOK
  <1>3. \A v \in UserId : v # u => (Coming(v)' <=> Coming(v))
    BY <1>1 DEF Coming
  <1>4. \A v \in UserId : v # u => auths'[v] = auths[v]
    BY DEF SetupAuth, IInv, TypeOK
  <1>5. \A v \in UserId : v # u => StageOf(v)' = StageOf(v)
    BY <1>1, <1>3, <1>4, StageKept
  <1>6. \A v \in UserId : Service!Key(v) = Identifier(users[v])
    BY DEF Service!Key, Identifier
  <1>7. CASE ~AuthClash(users[u])
    <2>1. auths' = [auths EXCEPT ![u] = users[u]] /\ ~CanLogIn(u)
      BY <1>7, ReadyUsers DEF SetupAuth, AuthClash
    <2>2. CanLogIn(u)' /\ UserExists(u)'
      BY <1>1, <1>2, <2>1 DEF IInv, TypeOK, CanLogIn, UserExists
    <2>3. Stages[u] = "coming" /\ StageOf(u)' = "ready"
      BY <1>1, <1>2, <2>1, <2>2 DEF Stages, StageOf, Coming
    <2>4. Stages' = [Stages EXCEPT ![u] = "ready"]
      BY <1>5, <2>3 DEF Stages
    <2>5. \A v \in Service!Ready : Service!Key(v) # Service!Key(u)
      BY <1>6, <1>7, ReadyUsers DEF AuthClash
    <2>6. Service!Activate(u)
      BY <1>1, <2>3, <2>4, <2>5 DEF Service!Activate
    <2>7. QED
      BY <2>6 DEF Service!Next
  <1>8. CASE AuthClash(users[u])
    <2>1. UNCHANGED auths
      BY <1>8 DEF SetupAuth
    <2>2. CASE CanLogIn(u) \/ Coming(u)'
      <3>1. StageOf(u)' = StageOf(u)
        BY <1>1, <1>2, <2>1, <2>2 DEF StageOf, UserExists, CanLogIn, Coming
      <3>2. Stages' = Stages
        BY <1>5, <3>1, SameStages
      <3>3. QED
        BY <1>1, <3>2 DEF Service!vars
    <2>3. CASE ~CanLogIn(u) /\ ~Coming(u)'
      <3>1. Stages[u] = "coming" /\ StageOf(u)' = "stranded"
        BY <1>1, <1>2, <2>1, <2>3 DEF Stages, StageOf, Coming, UserExists, CanLogIn
      <3>2. Stages' = [Stages EXCEPT ![u] = "stranded"]
        BY <1>5, <3>1 DEF Stages
      <3>3. /\ users[u].email = None
            /\ \E v \in Service!Ready : Service!Key(v) = Service!Key(u)
        BY <1>2, <1>6, <1>8, <2>3, EmailKeyFree, ReadyUsers
      <3>4. Service!Strand(u)
        BY <1>1, <3>1, <3>2, <3>3 DEF Service!Strand
      <3>5. QED
        BY <3>4 DEF Service!Next
    <2>4. QED
      BY <2>2, <2>3
  <1>9. QED
    BY <1>7, <1>8

\* A registration or a listener throws: its user is stranded, if it has one
\* that nobody else brings.
LEMMA FailThrows ==
    ASSUME IInv, Fail, UNCHANGED login
    PROVE  [Service!Next]_(Service!vars)
  <1>1. Attempts' = Attempts /\ failures' = failures + 1 /\ UNCHANGED <<users, auths>>
    BY SameAttempts DEF Fail
  <1>2. ASSUME NEW u \in UserId, \A v \in UserId : v # u => (Coming(v)' <=> Coming(v)),
               Coming(u)' => Coming(u)
        PROVE  Service!Throw
    <2>1. \A v \in UserId : v # u => StageOf(v)' = StageOf(v)
      BY <1>1, <1>2, StageKept
    <2>2. CASE StageOf(u)' = StageOf(u)
      <3>1. Stages' = Stages
        BY <2>1, <2>2, SameStages
      <3>2. QED
        BY <1>1, <3>1 DEF Service!Throw
    <2>3. CASE StageOf(u)' # StageOf(u)
      <3>1. Stages[u] = "coming" /\ StageOf(u)' = "stranded"
        BY <1>1, <1>2, <2>3 DEF Stages, StageOf, UserExists, CanLogIn
      <3>2. Stages' = [Stages EXCEPT ![u] = "stranded"]
        BY <2>1, <3>1 DEF Stages
      <3>3. QED
        BY <1>1, <3>1, <3>2 DEF Service!Throw
    <2>4. QED
      BY <2>2, <2>3
  <1>3. ASSUME NEW r \in Request, request[r] # Idle,
               request' = [request EXCEPT ![r] = Idle], UNCHANGED pending
        PROVE  Service!Throw
    <2>1. request \in [Request -> [pc : {"checked"}, person : Person]
                              \cup [pc : {"created"}, user : UserId] \cup {Idle}]
      BY DEF IInv, TypeOK
    <2>2. CASE request[r].pc = "created"
      <3>1. request[r].user \in UserId
        BY <2>2, RequestShape DEF IInv
      <3>2. \A v \in UserId : v # request[r].user => (Coming(v)' <=> Coming(v))
        BY <1>3, <2>1 DEF Coming, Idle
      <3>3. Coming(request[r].user)
        BY <2>2 DEF Coming
      <3>4. QED
        BY <1>2, <3>1, <3>2, <3>3
    <2>3. CASE request[r].pc # "created"
      <3>1. \A v \in UserId : Coming(v)' <=> Coming(v)
        BY <1>3, <2>1, <2>3 DEF Coming, Idle
      <3>2. Stages' = Stages
        BY <1>1, <3>1, StageKept, SameStages
      <3>3. QED
        BY <1>1, <3>2 DEF Service!Throw
    <2>4. QED
      BY <2>2, <2>3
  <1>4. ASSUME NEW u \in pending, pending' = pending \ {u}, UNCHANGED request
        PROVE  Service!Throw
    <2>1. u \in UserId
      BY DEF IInv, TypeOK
    <2>2. QED
      BY <1>2, <1>4, <2>1 DEF Coming
  <1>5. QED
    BY <1>3, <1>4 DEF Fail, Service!Next

\* What registrations do is what Accounts does, or nothing.
LEMMA RegistrationsImplement ==
    ASSUME IInv, [Next]_vars, UNCHANGED login
    PROVE  [Service!Next]_(Service!vars)
  <1>1. ASSUME \A u \in UserId : Coming(u)' <=> Coming(u), UNCHANGED <<users, auths, failures>>
        PROVE  UNCHANGED Service!vars
    BY <1>1, StageKept, SameStages, SameAttempts DEF Service!vars
  <1>2. ASSUME NEW r \in Request, NEW p \in Person, CheckAccount(r, p)
        PROVE  UNCHANGED Service!vars
    <2>1. \A u \in UserId : Coming(u)' <=> Coming(u)
      BY <1>2 DEF CheckAccount, Coming, IInv, TypeOK, Idle
    <2>2. QED
      BY <1>1, <1>2, <2>1 DEF CheckAccount
  <1>3. ASSUME NEW r \in Request, EmitCreated(r)
        PROVE  UNCHANGED Service!vars
    <2>1. request[r].user \in UserId
      BY <1>3, RequestShape DEF EmitCreated, IInv
    <2>2. \A u \in UserId : Coming(u)' <=> Coming(u)
      BY <1>3, <2>1 DEF EmitCreated, Coming, IInv, TypeOK, Idle
    <2>3. QED
      BY <1>1, <1>3, <2>2 DEF EmitCreated
  <1>4. CASE UNCHANGED vars
    BY <1>1, <1>4 DEF vars, Coming
  <1>5. QED
    BY <1>2, <1>3, <1>4, CreateUserJoins, SetupAuthActivates, FailThrows DEF Next

\* A step of one login, seen from Accounts.
LEMMA OneAttempt ==
    ASSUME LoginTyped, NEW l \in Login, NEW r, login' = [login EXCEPT ![l] = r]
    PROVE  Attempts' = [Attempts EXCEPT ![l] = AttemptOf(l)']
  <1>1. \A m \in Login : m # l => login'[m] = login[m]
    BY DEF LoginTyped
  <1>2. \A m \in Login : m # l => AttemptOf(m)' = AttemptOf(m)
    BY <1>1 DEF AttemptOf, AnswerOf
  <1>3. QED
    BY <1>2 DEF Attempts

LEMMA BeginLoginBegins ==
    ASSUME LoginInv, NEW l \in Login, BeginLogin(l), UNCHANGED vars
    PROVE  Service!Next
  <1>1. /\ UNCHANGED <<users, failures>> /\ Stages' = Stages
        /\ Attempts[l] = None
    BY DEF BeginLogin, vars, Stages, StageOf, UserExists, CanLogIn, Coming,
           Attempts, AttemptOf
  <1>2. PICK id \in Typed, u \in UserId :
            /\ UserExists(u)
            /\ login' = [login EXCEPT ![l] = [pc |-> "begun", id |-> id,
                                              password |-> u, due |-> CanLogIn(u)]]
    BY DEF BeginLogin
  <1> DEFINE r == [pc |-> "begun", id |-> id, password |-> u, due |-> CanLogIn(u)]
  <1>3. /\ login'[l] = r /\ r # Idle
        /\ r.pc = "begun" /\ r.id = id /\ r.password = u /\ r.due = CanLogIn(u)
    BY <1>2 DEF LoginInv, LoginTyped, Idle
  <1> HIDE DEF r
  <1>4. AttemptOf(l)' = [id |-> id, owner |-> u, due |-> CanLogIn(u),
                         answer |-> "none", serves |-> None]
    BY <1>3 DEF AttemptOf, AnswerOf
  <1>5. CanLogIn(u) = (u \in Service!Ready)
    <2>1. u \in Service!Ready <=> CanLogIn(u)
      BY ReadyUsers DEF LoginInv
    <2>2. QED
      BY <2>1 DEF CanLogIn
  <1>6. Attempts' = [Attempts EXCEPT ![l] = AttemptOf(l)']
    BY <1>2, OneAttempt DEF LoginInv
  <1>7. Service!Begin(l, u, id)
    BY <1>1, <1>2, <1>4, <1>5, <1>6, Zenon DEF Service!Begin, UserExists
  <1>8. QED
    BY <1>7 DEF Service!Next

\* A login at work, as Accounts knows it.
LEMMA AttemptAtWork ==
    ASSUME LoginInv, NEW l \in Login, login[l] # Idle
    PROVE  /\ login[l] \in LoginRecord
           /\ Attempts[l] = AttemptOf(l) /\ Attempts[l] # None
           /\ Attempts[l].id = login[l].id /\ login[l].id \in Typed
           /\ Attempts[l].owner = login[l].password /\ login[l].password \in UserId
           /\ Attempts[l].due = login[l].due
           /\ Attempts[l].answer = AnswerOf(l)
           /\ Attempts[l].serves = IF login[l].pc = "ok" THEN login[l].user ELSE None
  <1>1. login[l] \in LoginRecord
    BY DEF LoginInv, LoginTyped
  <1>2. login[l].id \in Typed /\ login[l].password \in UserId
    BY <1>1 DEF LoginRecord
  <1>3. Attempts[l] = AttemptOf(l)
    BY DEF Attempts
  <1> DEFINE a == [id |-> login[l].id, owner |-> login[l].password, due |-> login[l].due,
                   answer |-> AnswerOf(l),
                   serves |-> IF login[l].pc = "ok" THEN login[l].user ELSE None]
  <1>4. AttemptOf(l) = a
    BY DEF AttemptOf
  <1>5. a \in Attempt /\ a # None
    BY <1>1, AttemptAssumption DEF LoginRecord, Attempt, AnswerOf
  <1>6. QED
    BY <1>1, <1>2, <1>3, <1>4, <1>5

\* While a login is not answered Accounts sees it wait.
LEMMA NotYetAnswered ==
    ASSUME LoginInv, NEW l \in Login, UNCHANGED vars, NEW r \in LoginRecord,
           login[l] # Idle, login' = [login EXCEPT ![l] = r],
           r.id = login[l].id, r.password = login[l].password, r.due = login[l].due,
           login[l].pc \in {"begun", "found"}, r.pc \in {"found", "verified"}
    PROVE  UNCHANGED Service!vars
  <1>1. login'[l] = r /\ r # Idle
    BY NotIdle DEF LoginInv, LoginTyped
  <1>2. AttemptOf(l)' = AttemptOf(l)
    BY <1>1 DEF AttemptOf, AnswerOf
  <1>3. Attempts' = Attempts
    BY <1>2, OneAttempt DEF LoginInv, Attempts
  <1>4. QED
    BY <1>3 DEF vars, Service!vars, Stages, StageOf, UserExists, CanLogIn, Coming

\* A refusal is one that Accounts may give.
LEMMA RefusalAllowed ==
    ASSUME LoginInv, LoginInv', NEW l \in Login, UNCHANGED vars, NEW r \in LoginRecord,
           login[l] # Idle, login' = [login EXCEPT ![l] = r],
           r.id = login[l].id, r.password = login[l].password, r.due = login[l].due,
           login[l].pc \in {"begun", "found"}, r.pc = "refused"
    PROVE  Service!Refuse(l)
  <1>1. login'[l] = r /\ r # Idle
    BY NotIdle DEF LoginInv, LoginTyped
  <1>2. /\ UNCHANGED <<users, auths, failures>> /\ Stages' = Stages
    BY DEF vars, Stages, StageOf, UserExists, CanLogIn, Coming
  <1>3. /\ Attempts[l] = AttemptOf(l) /\ Attempts[l] # None
        /\ Attempts[l].id = r.id /\ r.id \in Typed
        /\ Attempts[l].owner = r.password /\ r.password \in UserId
        /\ Attempts[l].due = r.due
        /\ Attempts[l].answer = "none" /\ Attempts[l].serves = None
    BY AttemptAtWork DEF AnswerOf
  <1>4. AttemptOf(l)' = [id |-> r.id, owner |-> r.password, due |-> r.due,
                         answer |-> "refused", serves |-> None]
    BY <1>1 DEF AttemptOf, AnswerOf
  <1>5. AttemptOf(l) = [id |-> r.id, owner |-> r.password, due |-> r.due,
                        answer |-> "none", serves |-> None]
    BY AttemptAtWork DEF AttemptOf, AnswerOf
  <1>6. AttemptOf(l)' = [Attempts[l] EXCEPT !.answer = "refused"]
    BY <1>3, <1>4, <1>5
  <1>7. Attempts' = [Attempts EXCEPT ![l].answer = "refused"]
    BY <1>6, OneAttempt DEF LoginInv
  <1>8. ASSUME r.due
        PROVE  \/ users[r.password] \notin Answering[r.id]
               \/ \E v \in Service!Ready \ {r.password} : users[v] \in Answering[r.id]
    <2>1. \/ ~Hit(r.id, users[r.password])
          \/ \E v \in UserId : /\ v # r.password /\ CanLogIn(v)
                               /\ Hit(r.id, auths[v])
      <3>1. Refused(l)'
        BY <1>1 DEF LoginInv
      <3>2. QED
        BY <1>1, <1>2, <1>8, <3>1 DEF Refused, Hit, CanLogIn
    <2>2. \A v \in UserId : UserExists(v) => users[v] \in Person
      BY DEF LoginInv, IInv, TypeOK, UserExists
    <2>3. \A v \in UserId : users[v] \in Answering[r.id] <=>
                               users[v] \in Person /\ Hit(r.id, users[v])
      BY <1>3 DEF Answering
    <2>4. CASE ~Hit(r.id, users[r.password])
      BY <1>3, <2>3, <2>4
    <2>5. ASSUME NEW v \in UserId, v # r.password, CanLogIn(v), Hit(r.id, auths[v])
          PROVE  v \in Service!Ready \ {r.password} /\ users[v] \in Answering[r.id]
      <3>1. auths[v] = users[v] /\ UserExists(v) /\ v \in Service!Ready
        BY <2>5, ReadyUsers DEF LoginInv
      <3>2. Hit(r.id, users[v])
        BY <2>5, <3>1
      <3>3. QED
        BY <2>2, <2>3, <2>5, <3>1, <3>2
    <2>6. QED
      BY <2>1, <2>4, <2>5
  <1>9. QED
    BY <1>2, <1>3, <1>7, <1>8 DEF Service!Refuse, Service!UnderWay

LEMMA FindRecordImplements ==
    ASSUME LoginInv, LoginInv', NEW l \in Login, FindRecord(l), UNCHANGED vars
    PROVE  [Service!Next]_(Service!vars)
  <1> DEFINE v == IF Hits(login[l].id) = {} THEN "refused" ELSE "found"
             r == [login[l] EXCEPT !.pc = v]
  <1>1. login[l] \in LoginRecord /\ login[l].pc = "begun" /\ login[l] # Idle
    BY NotIdle DEF LoginInv, LoginTyped, FindRecord, Idle
  <1>2. /\ r \in LoginRecord /\ r.pc = v /\ r.id = login[l].id /\ r.due = login[l].due
        /\ r.password = login[l].password
    BY <1>1 DEF LoginRecord
  <1>3. login' = [login EXCEPT ![l] = r]
    BY DEF FindRecord, LoginInv, LoginTyped
  <1> HIDE DEF r
  <1>4. QED
    BY <1>1, <1>2, <1>3, NotYetAnswered, RefusalAllowed DEF Service!Next

LEMMA ReadRecordImplements ==
    ASSUME LoginInv, LoginInv', NEW l \in Login, ReadRecord(l), UNCHANGED vars
    PROVE  [Service!Next]_(Service!vars)
  <1>1. login[l] \in LoginRecord /\ login[l].pc = "found" /\ login[l] # Idle
    BY NotIdle DEF LoginInv, LoginTyped, ReadRecord, Idle
  <1>2. PICK u \in Hits(login[l].id) :
          login' = [login EXCEPT ![l] =
             [pc |-> IF u = login[l].password THEN "verified" ELSE "refused",
              id |-> login[l].id, password |-> login[l].password,
              due |-> login[l].due, user |-> u]]
    BY DEF ReadRecord
  <1> DEFINE r == [pc |-> IF u = login[l].password THEN "verified" ELSE "refused",
                   id |-> login[l].id, password |-> login[l].password,
                   due |-> login[l].due, user |-> u]
  <1>3. r \in LoginRecord
    BY <1>1, <1>2 DEF LoginRecord, Hits
  <1>4. /\ r.id = login[l].id /\ r.password = login[l].password /\ r.due = login[l].due
        /\ r.pc = IF u = login[l].password THEN "verified" ELSE "refused"
    OBVIOUS
  <1>5. login' = [login EXCEPT ![l] = r]
    BY <1>2
  <1> HIDE DEF r
  <1>6. QED
    BY <1>1, <1>3, <1>4, <1>5, NotYetAnswered, RefusalAllowed DEF Service!Next

LEMMA AnswerGrants ==
    ASSUME LoginInv, NEW l \in Login, Answer(l), UNCHANGED vars
    PROVE  Service!Next
  <1>1. login[l] \in LoginRecord /\ login[l].pc = "verified" /\ login[l] # Idle
    BY NotIdle DEF LoginInv, LoginTyped, Answer, Idle
  <1>2. /\ login[l].user \in UserId /\ CanLogIn(login[l].user)
        /\ login[l].user = login[l].password /\ Hit(login[l].id, auths[login[l].user])
    BY <1>1 DEF LoginInv, LetIn, LoginRecord
  <1>3. UserExists(login[l].user) /\ auths[login[l].user] = users[login[l].user]
    BY <1>2, ReadyUsers DEF LoginInv
  <1> DEFINE r == [login[l] EXCEPT !.pc = "ok"]
  <1>4. /\ login' = [login EXCEPT ![l] = r] /\ login'[l] = r
        /\ r \in LoginRecord /\ r.pc = "ok" /\ r.id = login[l].id /\ r.due = login[l].due
        /\ r.password = login[l].password /\ r.user = login[l].user
    BY <1>1, <1>3 DEF Answer, LoginInv, LoginTyped, LoginRecord
  <1> HIDE DEF r
  <1>5. UNCHANGED <<users, failures>> /\ Stages' = Stages
    BY DEF vars, Stages, StageOf, UserExists, CanLogIn, Coming
  <1>6. AttemptOf(l)' = [id |-> login[l].id, owner |-> login[l].password,
                         due |-> login[l].due, answer |-> "granted",
                         serves |-> login[l].user]
    BY <1>4, NotIdle DEF AttemptOf, AnswerOf
  <1>7. AttemptOf(l) = [id |-> login[l].id, owner |-> login[l].password,
                        due |-> login[l].due, answer |-> "none", serves |-> None]
    BY <1>1 DEF AttemptOf, AnswerOf
  <1>8. /\ Attempts[l] = AttemptOf(l) /\ Attempts[l] # None
        /\ Attempts[l].id = login[l].id /\ login[l].id \in Typed
        /\ Attempts[l].owner = login[l].password
        /\ Attempts[l].answer = "none"
    BY <1>1, AttemptAtWork DEF AnswerOf
  <1>9. AttemptOf(l)' = [[Attempts[l] EXCEPT !.answer = "granted"]
                            EXCEPT !.serves = Attempts[l].owner]
    <2>1. PICK i, o, d, u : /\ i = login[l].id /\ o = login[l].password
                            /\ d = login[l].due /\ u = login[l].user
      OBVIOUS
    <2> DEFINE a == [id |-> i, owner |-> o, due |-> d, answer |-> "none", serves |-> None]
               b == [id |-> i, owner |-> o, due |-> d, answer |-> "granted", serves |-> None]
    <2>2. Attempts[l] = a /\ Attempts[l].owner = u
      BY <1>2, <1>7, <1>8, <2>1
    <2>3. [a EXCEPT !.answer = "granted"] = b
      OBVIOUS
    <2>4. AttemptOf(l)' = [b EXCEPT !.serves = u]
      BY <1>6, <2>1
    <2> HIDE DEF a, b
    <2>5. QED
      BY <2>2, <2>3, <2>4
  <1>10. Attempts' = [Attempts EXCEPT ![l].answer = "granted",
                                      ![l].serves = Attempts[l].owner]
    <2>1. Attempts' = [Attempts EXCEPT ![l] = AttemptOf(l)']
      BY <1>4, OneAttempt DEF LoginInv
    <2>2. QED
      BY <1>9, <2>1 DEF Attempts
  <1>11. users[login[l].password] \in Answering[login[l].id]
    BY <1>2, <1>3, <1>8 DEF Answering, LoginInv, IInv, TypeOK, UserExists
  <1>12. login[l].password \in Service!Ready
    BY <1>2, ReadyUsers DEF LoginInv
  <1>13. Service!Grant(l)
    BY <1>5, <1>8, <1>10, <1>11, <1>12 DEF Service!Grant, Service!UnderWay
  <1>14. QED
    BY <1>13 DEF Service!Next

\* The login is over, answered or not.
LEMMA BackToIdle ==
    ASSUME LoginInv, NEW l \in Login, login' = [login EXCEPT ![l] = Idle]
    PROVE  Attempts' = [Attempts EXCEPT ![l] = None]
  <1>1. login'[l] = Idle
    BY DEF LoginInv, LoginTyped
  <1>2. AttemptOf(l)' = None
    BY <1>1 DEF AttemptOf
  <1>3. QED
    BY <1>2, OneAttempt DEF LoginInv

LEMMA LeaveEnds ==
    ASSUME LoginInv, NEW l \in Login, Leave(l), UNCHANGED vars
    PROVE  Service!Next
  <1>1. login[l] # Idle /\ AnswerOf(l) # "none"
    BY DEF Leave, Ended, Idle, AnswerOf
  <1>2. Attempts[l] # None /\ Attempts[l].answer # "none"
    BY <1>1, AttemptAtWork
  <1>3. UNCHANGED <<users, failures>> /\ Stages' = Stages
    BY DEF vars, Stages, StageOf, UserExists, CanLogIn, Coming
  <1>4. Service!End(l)
    BY <1>2, <1>3, BackToIdle DEF Leave, Service!End, Service!UnderWay
  <1>5. QED
    BY <1>4 DEF Service!Next

LEMMA FailLoginThrows ==
    ASSUME LoginInv, NEW l \in Login, FailLogin(l)
    PROVE  Service!Next
  <1>1. login[l] # Idle /\ ~Ended(l)
    BY DEF FailLogin
  <1>2. Service!UnderWay(l)
    BY <1>1, AttemptAtWork DEF Ended, AnswerOf, Service!UnderWay
  <1>3. UNCHANGED users /\ failures' = failures + 1 /\ Stages' = Stages
    BY DEF FailLogin, Stages, StageOf, UserExists, CanLogIn, Coming
  <1>4. Service!Throw
    BY <1>2, <1>3, BackToIdle DEF FailLogin, Service!Throw
  <1>5. QED
    BY <1>4 DEF Service!Next

LEMMA NextImplements ==
    LoginInv /\ LoginInv' /\ [LoginNext]_loginVars => [Service!Next]_(Service!vars)
  <1> SUFFICES ASSUME LoginInv, LoginInv', [LoginNext]_loginVars
               PROVE  [Service!Next]_(Service!vars)
    OBVIOUS
  <1>1. CASE [Next]_vars /\ UNCHANGED login
    BY <1>1, RegistrationsImplement DEF LoginInv
  <1>2. ASSUME NEW l \in Login, LoginStep(l), UNCHANGED vars
        PROVE  [Service!Next]_(Service!vars)
    BY <1>2, BeginLoginBegins, FindRecordImplements, ReadRecordImplements,
       AnswerGrants, LeaveEnds DEF LoginStep
  <1>3. CASE \E l \in Login : FailLogin(l)
    BY <1>3, FailLoginThrows
  <1>4. QED
    BY <1>1, <1>2, <1>3 DEF LoginNext, loginVars

\* Registrations and logins together behave as Accounts does: an account whose
\* user has an email is never given up but by a call that throws, and nobody is
\* let in or refused against the documents, whatever runs in between.
THEOREM AccountsImplemented == LoginSpec => ImplementsAccounts
  <1>1. LoginInit => Service!Init
    BY DEF LoginInit, Init, Service!Init, Stages, StageOf, UserExists, Attempts, AttemptOf
  <1>2. QED
    BY <1>1, NextImplements, LoginInductiveInvariant, PTL
       DEF LoginSpec, ImplementsAccounts, Service!Spec

\* Until a call throws, a user with an email can log in or will be made able to
\* (user.controller l.104, user-events.listener l.66).
NobodyStranded ==
    failures = 0 =>
        \A u \in UserId : UserExists(u) /\ users[u].email # None =>
            CanLogIn(u) \/ Coming(u)

\* Accounts strands no member with an email unless a call throws, so that all
\* EmailUserCanLogIn asks besides is that the event goes its way.
THEOREM NobodyStrandedHolds == LoginSpec => []NobodyStranded
  <1> DEFINE Afoot == failures = 0 =>
               \A u \in UserId : users[u] # None /\ users[u].email # None =>
                   Stages[u] \in {"coming", "ready"}
  <1>1. LoginInit => Afoot
    BY DEF LoginInit, Init
  <1>2. LoginInv /\ LoginInv' /\ Afoot /\ [LoginNext]_loginVars => Afoot'
    <2> SUFFICES ASSUME LoginInv, LoginInv', Afoot, [LoginNext]_loginVars,
                        failures' = 0, NEW u \in UserId,
                        users'[u] # None, users'[u].email # None
                 PROVE  Stages'[u] \in {"coming", "ready"}
      OBVIOUS
    <2>1. [Service!Next]_(Service!vars)
      BY NextImplements
    <2>2. CASE UNCHANGED <<users, Stages, Attempts, failures>>
      BY <2>2
    <2>3. ASSUME NEW v \in UserId, NEW p \in Person, Service!Join(v, p)
          PROVE  Stages'[u] \in {"coming", "ready"}
      BY <2>3 DEF Service!Join, Stages, LoginInv, IInv, TypeOK
    <2>4. ASSUME NEW v \in UserId, Service!Activate(v) \/ Service!Strand(v)
          PROVE  Stages'[u] \in {"coming", "ready"}
      BY <2>4 DEF Service!Activate, Service!Strand, Stages
    <2>5. ASSUME NEW l \in Login, NEW v \in UserId, NEW id \in Typed,
                 Service!Begin(l, v, id)
          PROVE  Stages'[u] \in {"coming", "ready"}
      BY <2>5 DEF Service!Begin
    <2>6. ASSUME NEW l \in Login,
                 Service!Grant(l) \/ Service!Refuse(l) \/ Service!End(l)
          PROVE  Stages'[u] \in {"coming", "ready"}
      BY <2>6 DEF Service!Grant, Service!Refuse, Service!End
    <2>7. CASE Service!Throw
      BY <2>7 DEF Service!Throw, LoginInv, IInv, TypeOK
    <2>8. QED
      BY <2>1, <2>2, <2>3, <2>4, <2>5, <2>6, <2>7 DEF Service!Next, Service!vars
  <1>3. LoginInv /\ Afoot => NobodyStranded
    BY DEF NobodyStranded, UserExists, Stages, StageOf
  <1>4. QED
    BY <1>1, <1>2, <1>3, LoginInductiveInvariant, PTL DEF LoginSpec
=============================================================================
