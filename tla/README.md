# crudapi: a verification project

TLA+ models of the core of crudapi (a NestJS back end over MongoDB and an
in-process cache), the TLC runs that check them on small instances, and TLAPS
proofs for every instance. The reference is the code under `src/src`; where this
text and the code differ, the code is right.

    tlc -workers 2 -config RefreshTokensSafety.cfg MCRefreshTokens
    for m in *Proofs.tla; do tlapm $m; done

## The system

Node runs one JavaScript turn at a time. Between two awaited calls of a handler
(a MongoDB query, a cache call, a hash) any other handler may run, a call may
throw, or the process may stop; only `withTransaction` groups database calls. So
one step of a model is one awaited call together with the code that runs up to
the next one. That a call is issued and that the database applies it are taken
as one step: the order in which requests reach the database is any order anyway.

| Component | State | Operations | Talks to |
|---|---|---|---|
| RefreshTokenService | collection RefreshToken | create, refresh (validate, mark, create successor, revoke), revoke, revoke all | AuthController |
| DeviceSessionService | collection DeviceSession | create or update, look up, three logouts, clean-up, updateActivity | AuthService, JwtStrategy |
| AuthService | collection Auth | authenticate, generateAccessToken | token mapping, device sessions, jwt_session cache, phone numbers |
| JwtStrategy | caches `jwt_session` and roles | validate, attachRoles | device sessions, token mapping, CacheService |
| TokenMappingService | cache entries `token_mapping:*` and `reverse_mapping:*` | createMappings, resolve, revokeMapping, revokeMappingsByRealId, extendMappingTTL | CacheService |
| UserController, UserService, UserEventsListener | collections User and Auth | create account; the listener creates the Auth document | an event, phone numbers, CrudService |
| CacheService, InMemoryCacheProvider | a Map with expiries | get, set, has, del, delPattern, clear, getOrSet | everyone |
| AuthCacheService | cache entries `auth:*` | set, get, has, update, invalidate | CacheService |
| CrudService, PaginationService | none | create, find, delete, restore, paginate | MongoDB, the middleware of createSchema |
| Phone numbers | the table of countries | extract, validate, format, normalise | registration and login |
| Audit trail | collection AuditTrail | trackProcess, the interceptor, createAuditEntryAsync | every tracked handler |
| Retry utilities | none | retryWithBackoffAdvanced, retryWithBackoff | exported, not called yet |
| Guards and interceptors | a 30-second map of admin answers | canActivate, intercept | request.user |
| Passwords, encryption, payments, bot, crawler | none | one external call each | |

`PROJECT.json` lists all components with the sources of each, and the part of
each that is modelled.

### What is hard, and what makes each component correct

* **Refresh tokens.** Two requests with one token; a failure between marking a
  token, creating its successor and revoking it; a validation that ends after
  the document it has read was changed; whole-hour arithmetic. Correct: a token
  is counted once, a rotation keeps user, session start and device, nothing
  revoked comes back, no token is used late, a used token dies.
* **Access tokens.** The token, its session, its mapping and its cache entry are
  made by separate calls, and live for different times. Correct: a session
  outlives its token, a cached refusal never hides an open session, a cached
  acceptance outlives the session by no more than five minutes, a closed
  session stays closed.
* **Token mappings.** Reverse lists are read, merged and written back; they
  expire apart from the entries they name; the tokens of one user share the list
  of the user id, whatever auth id they were signed with. Correct: every id is
  found by either real id of its token, and after a revocation of a real id no
  opaque id of it resolves.
* **Registration and login.** Two collections, no transaction, an event in
  between, unique indexes that differ, a login that reads twice by a filter that
  two accounts may share, and numbers that are stored in one form and looked up
  in another. Correct: an email leads to one account, who registers can log in,
  the account served is the one whose password was verified, and an account that
  was ready is not refused to its owner.
* **Caches.** A fill that has read before a write or before another fill; an
  update that reads, merges and writes back with the TTL that is left, which may
  be 0 and then means none; an invalidation in between. Correct: what is served
  is within a life it was given, what is invalidated stays out, a stale answer
  is bounded.
* **Audit and retries.** The entry is built inside the try of the process it
  tracks; an attempt that timed out runs on; the signal comes at any moment.
  Correct: the trail says what the callers were told, the caller gets the answer
  of the attempt that was awaited, no attempt starts after an abort, and with a
  timeout everybody is answered, unless the caller's own fallback never ends.
* **Collections.** Pages cut from a list that grows at its head; bulk deletions
  that count in one call and delete in another; middleware that hides deleted
  documents from some queries and not from others. Correct: a page walk misses
  nothing it could know of, a bulk deletion that has checked its ids fails only
  because of another call. What is hidden stays hidden too, which is not what
  restoreById is documented for (below).

`PROJECT.json` "hazards" has each hazard at its line with the properties that
cover it.

## The modules

| Module | Stands for |
|---|---|
| `TokenLifecycle` | the abstract promise about refresh tokens: fresh, live, dead; owner and session start fixed |
| `RefreshTokens` | refresh-token.service, its schema, POST /auth/refresh-token; implements TokenLifecycle |
| `DeviceSessions` | the device-session collection, one operator per query |
| `SessionGate` | the abstract promise about access tokens: the course of a session, and a request judged in one step |
| `AccessTokens` | composes DeviceSessions with signing, the jwt_session cache and JwtStrategy; implements SessionGate |
| `OpaqueIds` | the abstract promise about opaque ids: one account for good, taken all at once |
| `TokenMapping` | token-mapping.services over the in-memory cache; implements OpaqueIds |
| `Accounts` | the abstract promise of registration and login: a member is one document, a login is judged in one step |
| `Registration` | POST /user/create-account and the event's listener |
| `Phones` | country.constants and phone.utils, on sequences of digits |
| `Login` | POST /auth/authenticate; composes Registration and Phones; with them implements Accounts |
| `CacheProvider` | CacheService over InMemoryCacheProvider |
| `AuthCache` | auth-cache.service |
| `ReadThrough` | getOrSet in getUserInfo, attachRoles, AdminCacheInterceptor |
| `Caches` | composes AuthCache and ReadThrough on one provider and clock |
| `Retry` | retryWithBackoffAdvanced and retryWithBackoff of global.utils |
| `Audit` | trackProcess, AuditTrailInterceptor, createAuditEntryAsync |
| `TrackedCall` | the abstract promise of an operation retried inside a tracked request: settled, told, answered and recorded in that order, as if nothing ran beside it |
| `TrackedRetry` | composes Audit and Retry: a tracked request whose work is retried; implements TrackedCall |
| `Crud` | crud.service, pagination.service, the deletions of mongoose.utils, the middleware of createSchema |
| `*Proofs` | the theorems of the module of that name, one for each of the eight state machines |
| `MC*` | symmetry sets, constraints and instances for TLC |

### RefreshTokens

`store` is the collection; `pc` and `req` are the locals of each request;
`delivered` holds the tokens clients have; `parent` is a history variable.
One request is FindToken (findOne, l.390), then RefuseToken (one of the seven
refusals in the code's order, with its update) or MarkUsed, CreateSuccessor,
RetireToken, Deliver. Fail ends a handler between any two of them. Fields that
are always written together are one field (isRevoked, revokedAt and
revokedReason; lastUsedAt and lastRefreshAt). MarkUsed writes the count of the
document it *read*. The address is one of the three classes that
validateIpAddress tells apart. The encryption of the token is left out: a token
decrypts to what was encrypted or the request is refused.

### AccessTokens and DeviceSessions

A login or registration is Sign, FindSession, SaveSession, WarmCache (not on a
registration), Deliver. A request is Present, ReadCache, LookUpSession,
CacheVerdict, Leave. CloseSessions is any of the three logouts or the clean-up;
these have no caller in the source yet and are modelled as the public operations
they are. Refresh signs a token with a new jti and no session. `quietSince` is a
history variable: since when a token has had no open session and no handler that
still believes in one. A registration presents a user that exists nowhere yet.

The refinement mapping to SessionGate gives every token a stage: unsigned;
pending, as long as the login that signed it may still save its session; open,
while a session of its jti is active and not past its end; closing, while some
handler still takes it for open; closed, since `quietSince`. The verdict on a
request is that of CacheVerdict or of a cache hit. So the reads, the cache and
the write behind a verdict become one step, and what a stale entry may do is the
`Grace` of the gate, for which the TTL of the cache is substituted.

### TokenMapping

Every cache entry has the time it has left, so no clock is needed. The calls of
createMappings, revokeMapping, extendMappingTTL and revokeMappingsByRealId are
steps of their own; in `handler` is what each call has read.

`reverse` is keyed as in the code, by a kind and a real id. An `Account` is the
pair of real ids of a token, and `Lists` the two keys of it. A registration signs
with the user id for the auth id too (auth.service l.688, user.controller
l.81-87), a login with the id of the auth record: the two tokens of a user share
the list of the user id and have an auth-id list each. So revoking by the user id
takes all, and revoking by one auth id leaves the tokens signed with the other.
RevocationComplete therefore speaks of the one real id that is revoked, and the
refinement says that ids of other accounts are left alone.

With the provider wired today (in memory) the awaits of these calls are
microtasks, so that overlaps on one list are rarer than in the model; the
interface allows a provider over a network, which the repository contains too.
`overlapped` is a history variable: the keys that two calls have worked on at a
time, whatever accounts they worked for. The properties exempt those lists, and
the ids in `extended`, so they hold of both. revokeMapping,
revokeMappingsByRealId and extendMappingTTL have no caller in the source yet. An
extension may ask for any of `ExtraTtl`, or for the default.

`owner` is a history variable: the account each id was drawn for, which is in no
entry any more once the id is revoked. With it the mapping to OpaqueIds is the
time an id resolves for yet, and for each call of revokeMappingsByRealId its key
and whether it has deleted the entries of the list it read. That read is when the
abstract revocation begins, the deletion when it takes effect, the deletion of
the list when it ends.

### Registration, Phones and Login

A registration is CheckAccount (the findOne by email or, without one, by phone),
CreateUser (validation of the phone, then the insertion under the unique index
on email), EmitCreated; the event is then in `pending` until SetupAuth, the
listener's insertion under the unique indexes on identifier and email, which is
dropped on a duplicate. Fail ends a registration or a listener at any point.

A phone number is whether it begins with a plus, its other characters without
formatting as digits 0 to 9 or `Other`, and whether there was formatting. The
table of countries is the function from calling code to length; the longest code
that the digits begin with wins, as in the code's loop over sorted codes.
`Writes` is the reference definition of the normalisation: which typed forms
stand for one international number.

A login is BeginLogin, FindRecord (the lookups of validateAndGetAuthRecord up to
the first read of findOneOrThrowException), ReadRecord (the second read and the
worker's verdict on the password), Answer (the user document), Leave. A password
is named by the user whose it is. `due` remembers whether the account could be
logged in to when the login began; what is due is what may not be refused.

The mapping to Accounts calls a user absent, coming (the event is to be emitted
or in `pending`), ready (an Auth document is there) or stranded (the event is
lost). A login without an answer yet is one under way, whatever it has read. The
failures of both are the failures. In Accounts a member answers to what was
typed by `Answering`, for which the lookup filter of validateAndGetAuthRecord is
substituted.

### Caches

`cache` is the Map of InMemoryCacheProvider; an expired entry stays until it is
looked at; a TTL of 0 stores an entry without expiry (in-memory-cache l.43).
`caller` holds the calls of AuthCacheService between their awaits:
ReadUserData (get), CheckUserData (the test of expiresAt, with the deletion),
MergeUserData (set with the remaining TTL). `granted` and `closed` are history:
the ends of the lives that setUserData gave, and the users invalidated with no
update at work on them. `reader` holds the requests that fill: LookUp*, FindUser
(the first read of findOneOrThrowException), Read, FillEntry; FailToRead is the
database failing a read of the roles. `doc` is the version of the document
behind each key, changed by other parts of the system that tell no cache;
`replacedAt` is history. `pages` is the map of AdminCacheInterceptor, which is
its own and not the provider's.

### Retry, Audit and TrackedRetry

`pc` is where the call is (run, attempt, wait, fallback, settled), `running` the
attempts whose operation has not answered, the late ones included; a timeout
takes an attempt out of the race and leaves it running. Which error is worth a
retry is the caller's retryable, hence a choice; that function or onRetry may
throw itself, which ends the call without the fallback. Waits are in units of which
half the first delay is a whole number, so that the jitter is exact.
`EnterProcess` is trackProcess up to the call of the function (an exception
there leaves no entry), `LeaveProcess` its try after the function or its catch;
what can throw there is written out as `PrologueThrows`, `SuccessThrows` and
`FailureThrows` from the options and from two flaws that the request, the result
and what the transformer makes of a result or an error may have: JSON.stringify
throws on a cyclic one (sizes and limits), sanitizeData on an odd one, whose
password is no string. WriteEntry ends an insertion that nobody waits for, well or
badly. The composition starts the retries when the process is entered and leaves
the process when they settle; operations that timed out go on beside and after.

The mapping to TrackedCall takes its terms from the options, its trouble from
where the audit throws (`Trouble`), and what the trail says without the time of
an entry (`Said`). The late answers, the timeouts and the waits are stutters: an
attempt is seen when it starts, and its answer when the call settles for it.
What is visible is the limit of attempts, that none starts after the signal (so
AbortHonoured is a consequence, and not checked by itself), and the order of
settling, telling and answering, each with its entry.

### Crud

`docs` is one collection of a schema made by createSchema with soft deletion,
`txn` the one open transaction. findOneAndUpdate, find and countDocuments go
through the middleware and see the active documents only; updateMany,
deleteOne and deleteMany see all. Of the fields of a document one thing is kept:
whether it `meets` the filters that bulk deletions may be given, which Update
changes. A bulk deletion is CheckBulk (the count of what the filter finds against
the list, unless `isValidatedList`) and ExecuteBulk (the deletion with the same
filter, and the comparison of what was affected with what was asked for). A walk is FindPage
and CountTotal for each page, in any order that sorting by createdAt allows;
FailToCount is findPaginated without a PaginationService, whose Model.count
Mongoose 8 no longer has. `removals`, `amendments`, `since`, `amended` and `owed`
are history.

## The runs

| Run | Distinct states | Question |
|---|---|---|
| RefreshTokensSafety | 504 k | Do counts, bindings and revocations survive two racing requests and a failure, does a used token die, does the service implement TokenLifecycle? |
| RefreshTokensTime | 2.7 M | ... with a clock that reaches every limit, two users and two classes of address? |
| RefreshTokensSingleUse, RefreshTokensReplay | violations | What the code says of reuse |
| AccessTokens | 657 k | What may a cached verdict be wrong about, and for how long; do logins, logouts and JwtStrategy implement SessionGate? |
| AccessTokensRefresh | violation | Is a refreshed access token accepted? |
| TokenMapping | 997 k | Are all ids of a real id found and revoked, over lists that tokens share; does the service implement OpaqueIds? |
| Login | 51 k | Is an email one account; is a login served the account it verified, and who is refused; can who registers log in at last; do they implement Accounts? |
| LoginPhone | violation | ... with the very number of the registration? |
| Caches | 4.7 M | Within which life is authentication data served, does an invalidation last, how stale is an answer? |
| TrackedRetry | 478 k | Who hears what of an operation that is retried, times out, is aborted or cannot be recorded; is it a TrackedCall? |
| Crud | 6.4 M | What do deletions, updates, restorations, transactions and page walks do to one another? |

### What the violations show

1. **One token, two successors** (`SingleUse`). The reuse check reads
   lastUsedAt in one call and another call writes it, with a filter on the id
   alone.
2. **A replay of a rotated token revokes nothing** (`ReplayRevokesAll`).
   validateRefreshToken asks for `isRevoked: false` (l.390), and a rotation
   revokes (l.116). The trace is one client: a rotation from end to end, the
   successor delivered, the old token presented again and refused with the plain
   401 of an unknown token, the successor still live. The branch that revokes
   every session is reached only between marking and revoking, or after a failure
   there.
3. **The access token of a refresh is refused** (`RefreshedTokenAccepted`): it
   has a jti and no session.
4. **A number registered as it was typed is not found** (`PhoneNotRefused`):
   the normalisation at registration is commented out, the one at login is not.
   `OwnerNotRefused` says what does hold: the owner of a number in its normal
   form, or of an email, is not refused.

### What holds and may surprise

* A session is renewed up to an hour after its 24 hours: whole hours, compared
  with `>`. `UsedInTime` is the exact bound.
* The limit of 20 refreshes a day can never refuse anybody, since a token is
  counted at most once (`CountedOnce`).
* Device binding, which holds step by step (`BindingKept`), lets a session
  change device by way of a request without device id, and IPv4 to IPv6 by way
  of a private address, for each rotation compares only with the one before.
* An extended mapping outlives its reverse lists, so that a revocation of the
  user no longer finds it; the properties of TokenMapping name it as an
  exception.
* Two registrations of one phone without email leave one user who never can log
  in: the listener's insertion is a duplicate, and nobody repeats its event.
* A registration with a country code beside a number is always refused: the
  request's validator wants the plus that validateLocalPhoneNumber forbids.
* An email is stored in small letters and looked up as it is typed: capitals are
  refused. `OwnerNotRefused` is about the email as it is stored.
* updateUserData brings back what was invalidated between its read and its
  write; `InvalidatedStaysOut` names that exception.
* hasUserData may say yes of data that getUserData then refuses: it asks the
  provider, which after an update in the last second keeps the entry for ever.
* **restoreById does not do what it is documented for.** mongoose.types.ts:141
  says that it "Reverts the soft-deletion". It goes through findOneAndUpdate and
  the middleware that hides deleted documents, finds active documents only, and
  so restores none: whatever is called, in whatever order, no deleted document
  becomes visible again (theorem NothingRestoredHolds). No run of this project
  asks for what the comment says; one step of it refutes it.
* **`retries` is not the number of attempts.** global.utils.ts:284 documents it
  as "Max attempts", and l.372 compares with `>` after the attempt: there is one
  attempt more. TypeOK of Retry and TrackedCall state `retries + 1`, what the
  code does.
* Revoking by auth id (l.222) does not log a user out: the token of the
  registration was mapped with the user id for its auth id, and resolves on.
* A fallback that never settles holds the request for ever, timeouts or not:
  it is awaited without a timer (global.utils l.373). `RequestAnswered` names it.
* A bulk deletion with filters fails, having deleted the others, when an update
  of a filtered field comes between its check and its deletion.
* A password that is a number, in a request or in an answer, makes sanitizeData
  throw: the work is done and its caller told that it failed.
* A bulk soft deletion through updateMany stamps documents again that were
  deleted already, which is why a list with a deleted id, already validated,
  counts as deleted.
* trackProcess reports a failure of its own bookkeeping as a failure of work
  that was done (`DoneIsToldDone` says exactly when).

### Bounds, and why they are enough

* **Ids.** Three refresh tokens make a login and two rotations, or two racing
  successors, or two users. Two sessions and jtis make two racing logins on one
  device. Four opaque ids are two
  tokens, over three accounts of which two share a list. Two user ids are
  two racing registrations. Three documents are a page that is full and one that
  is not, with one created or committed in between. `RoomForOneMore` starts a
  handler only while an id is left for it, so that no handler is stuck for want
  of a uuid; real uuids do not run out.
* **Handlers.** Two of each kind, but one login, one walk and one bulk deletion,
  which race with calls of other kinds. Each race here is between a read and a
  write of one document, for which two are enough.
* **Time.** Hours, days and TTLs are scaled down, keeping their order: refresh
  tokens of 2 hours against sessions of 3 and inactivity of 1, with MaxTime past
  all of them. An access token and its session have one lifetime, as in the
  code, and a cache entry a shorter one. `RefreshTokensSafety` has no clock, its
  races need none; `RefreshTokensTime` has it. MAPPING_TTL is 1, which has three
  phases already: full, last, gone. A second has two ticks in `Caches`, so that
  a remaining life may be less than a second, the case that stores an entry
  without expiry; MaxTime is two lives and a half.
* **MaxFill** is an assumption on the environment, not a truncation: a handler
  stores what it read within that time. Without one, StaleBounded has no bound:
  the code arms no timer around a fill.
* **MaxVersion** is 1: a document is changed once, or deleted, which makes one
  value stale.
* **MaxCalls** is 4 in `Caches` and `Crud`: calls that a caller may make or not;
  the steps of calls in progress do not count. Every exception that a property
  names needs at most three.
* **Failures.** `MaxFailures` is 1, after which the rest runs undisturbed.
  AccessTokens and Caches have no bound on them.
* **Rate limit.** 2 a day instead of 20; 1 would differ, the ASSUME wants more.
* **Retries.** Two, hence three attempts, two of which may be late at once; the
  second wait is cut to MaxDelay. The tracking options are the defaults with each
  reason to throw by itself, and with each option that avoids it.
* **Walks.** A walk of infinitely many pages (page size 0) is followed over as
  many as there are documents.
* **CONSTRAINT FewExceptions** in `TokenMapping` stops at states in which an
  entry was extended or two calls have overlapped on another list than the one
  that a registration and a login share: there the invariants say nothing of the
  lists and ids concerned. The first such state is still checked, and what an
  overlap on the shared list does to the other lists is explored to the end. The
  rest of what the properties promise beyond these states is proved and not
  model-checked.
* **Symmetry** is used in the safety runs only, never with liveness.
* **CHECK_DEADLOCK FALSE** throughout: when ids, calls and clock are used up and
  all handlers idle, the instance has nothing left to do, which is the bound and
  not a deadlock. That no handler is stuck is what the liveness properties say.

The proofs take the place of larger instances: no bound above is assumed there.

### Fairness

`RefreshTokens!FairSpec` has weak fairness of the steps of each request,
`LoginFairSpec` of CreateUser, EmitCreated and SetupAuth, `TrackedFairSpec` of
the steps that timers and the event loop take (StartAttempt, TimeOut, WaitOver,
entering and leaving the process, answering the request, whose handler awaits
nothing but its process): the event loop resumes a handler whose call has been
answered, a timer fires, and a database call that is never answered counts as a
failure. Clients, clock, logouts, aborts, failures, the answer of a retried
operation and that of the caller's fallback, which no timer guards, have none.
The liveness properties of the first two promise nothing once a handler has
failed; `RequestAnswered` is about calls with a timeout, and excepts those that
wait for the fallback.

## The proofs

Each `*Proofs` module is about all values of the constants (any sets of tokens,
users, devices, documents, keys and handlers in progress, any limits and number
of failures) under the named assumptions of the module it extends: null values
are no members of the sets they stand beside, times are naturals, a session is
given no less time than a token (in the code both get an hour), a tick divides
the hour, TTLs of the read-through caches are positive, typed numbers are
sequences of digits, stored numbers were accepted, no email is a number (the
validators want an @ in the one and none in the other), the daily limit is more
than 1 (it is 20), and the ids of a collection are finitely many.

None of the properties is inductive alone, because a handler acts on what it has
read some steps ago. In each module the strengthening (`IInv`, in LoginProofs
built upon that of RegistrationProofs) says, for every point at which a handler
can be, what it has read and what may be relied on still. One lemma per action
shows that it is kept, one lemma puts them together, the inductive-invariant
theorem is Spec => []IInv, and the others follow.

| Module | Theorem | Says |
|---|---|---|
| RefreshTokensProofs | TypeCorrect, CountedOnceHolds, SessionPreservedHolds, BindingKeptHolds, UsedInTimeHolds | the five safety invariants |
| | RevocationFinal | a revoked token keeps its first reason |
| | Refinement | RefreshTokens implements TokenLifecycle |
| | NothingLeftBehindHolds | until a handler fails, a used token has a request that will revoke it, a new one a request that will deliver it |
| AccessTokensProofs | TypeCorrect, SessionOutlivesTokenHolds, RejectionIsFinalHolds, StaleAcceptanceBoundedHolds | the four invariants |
| | ClosedStaysClosedHolds | no step opens a closed session |
| | GateImplemented | AccessTokens implements SessionGate |
| TokenMappingProofs | TypeCorrect, ListCompleteHolds | every id is found on both lists |
| | RevocationCompleteHolds | a revocation of a real id leaves no id of it |
| | OwnersAgree, OpaqueIdsImplemented | no id changes hands; TokenMapping implements OpaqueIds |
| RegistrationProofs | TypeCorrect, EmailIsOneAccountHolds | an email leads to one account |
| LoginProofs | LoginTypeCorrect, LoginEmailIsOneAccount, RightAccountHolds, EmailNotRefusedHolds | the same beside logins; whom a login serves and refuses |
| | NormalPhoneNotRefusedHolds | for any numbers: every way to write an international number finds it |
| | OwnerNotRefusedHolds, AccountsImplemented | both together; Login implements Accounts |
| | NobodyStrandedHolds | until a call throws, a user with an email is coming or ready, never stranded |
| CachesProofs | CachesTypeCorrect, ServedWithinGrantHolds, InvalidatedStaysOutHolds, StaleBoundedHolds | the invariants of the caches |
| TrackedRetryProofs | TypeCorrect, NoOverlapHolds, TrailHonestHolds, DoneIsToldDoneHolds | the invariants of retries and trail |
| | AwaitedAnswerHolds, AbortHonouredHolds | no late answer settles the call; no attempt starts after the abort |
| | TrackedCallImplemented | TrackedRetry implements TrackedCall |
| CrudProofs | CrudTypeCorrect, FailureHasRivalHolds, NothingMissedHolds | the invariants of the collection |
| | NothingRestoredHolds | no step, restoreById included, shows a hidden document again |

**RefreshTokens.** `RequestInv` says of each request:

* the document read still agrees with the collection on what is written once
  (user, device, address, expiry, session start), and the count read is 0 or 1
  according to lastUsedAt. So whatever wrote in between, the count written is 1,
  and the limits checked were those of the token;
* past MarkUsed, the token is used, and the checks of device and address have
  passed, so that a successor descends from a used token and keeps the binding;
* past CreateSuccessor there is a successor.

`Keeps` says that no step changes what a document is, `RevokeInv` that a
revocation disturbs nothing, `BystanderOK` deals with the requests that do not
move. UsedInTime needs `HoursBound`, that a truncated difference of n hours is
less than n + 1 hours. The refinement maps a document to fresh, live or dead; a
login is Open, a successor is Renew, any revocation is Close, marking is a
stutter. `NothingLeftBehind` is what UsedTokenDies rests on: from it follows that
the window of a rotation is closed as soon as the request at work goes on, which
is what its fairness says.

**AccessTokens.** `HandlerInv` is kept step by step: a token under issue is
signed, for a token's lifetime at most, belongs to one handler and has not left
the server; what a request presents, or the cache refuses, has. RejectionIsFinal
and the bound on stale acceptances concern four parties (issuer, session,
request, cache), so each action is first shown to be `Fair` to every token: a
session opens only where a handler held the token for open and no client has it,
a handler takes a token for open only if it was so or just signed, a refusal
starts only where there is no open session, and a new acceptance is written by a
handler that held it. `FairStep` concludes from that alone. For the refinement
`CourseAdvances` shows from the same facts that every step takes the sessions a
course that SessionGate allows, and `ReadCacheJudges` and `CacheVerdictJudges`
that a verdict, from the cache or from the lookup, is one that the gate could
give in the state it is given in; the rest is that a request has none before.

**TokenMapping.** Id and key by key: an opaque id is `Regular` on one of the two
keys of its token if it resolves, was not extended, and no two calls have
overlapped on that key. `Tracked` follows it through the calls at work there:
while none is, the list names it, for as long as it may resolve (`LongListed`),
and a call at work `Carries` what will restore that when it writes: the ids it
creates, or the list it has read. Calls for another token of the user are calls
at work on the shared key like any other. A revocation that has deleted the
entries of a list leaves nothing that is regular on its key, which is
RevocationComplete. `AloneInv` says that calls are alone on a key that is not
overlapped, and with `RevokedInv` excludes the call that would write back an old
list, or strike an id off that still resolves. The refinement needs also that no
list, no call and no entry names an id that was drawn for an account without that
real id (`OwnerInv`): else a revocation would take ids of somebody else, which the
strengthening above, made of what must be found, does not exclude.

**Registration and Login.** The unique index, the copy that the Auth document
is, and that a handler between insertion and event knows a user that exists.
A login adds: a user that was ready when it began is ready still and is among
the hits of what was typed, if the email or the number is theirs; the document
verified is the owner's. For numbers that rests on lemmas about the
normalisation: codes have one to three digits (`CodeLength`), a prefix and the
rest make the number (`PrefixAndRest`), the longest matching code is one
(`LongestIsOne`), and stripping zeros from a local number with or without one
gives the same (`ZerosOff`), so that every number that `Writes` a normal number
is looked up as that number (`NormalFormFound`).

That Login implements Accounts is the same invariant read another way. Only a
user without an email can be stranded by an insertion that finds its key taken
(`EmailKeyFree`: the three unique keys together leave nobody else), a refusal of
an owner that was due needs another account that answers (`RefusalAllowed`), and
the document served at the end is the one whose password was verified, although
it is read anew (`AnswerGrants`).

**Caches.** Each entry of a user ends with a life in `granted`, and so does each
entry a call has in hand, so that an update cannot prolong it; a user in
`closed` has neither entry nor update at work. Of the read-through caches,
`Traced(k, v, t)` says that v is what the document shows, or was its version
until t at the earliest; a reader holds a value traced to the time of its read,
an entry one traced to its end less a life and a fill (`Fresh`).
`FilledIsFresh` is the step from one to the other, `DocStep` shows that a write
leaves the trace of the value it replaces.

**TrackedRetry.** Which attempts may be running at each point of the call, that
only the awaited one can settle it, and that the trail has at most one entry for
each of process and request, with what was told. The refinement adds `CallInv`:
the process is inside only where the prologue let it in (`Entered`), and a call
at its fallback has one and is past its last attempt, or past an error that its
caller would not retry (`Desperate`). From the first follows that a step of the
work finds the call at work in TrackedCall too (`WorkInside`), from the second
that giving up is allowed there. A step of the trail is seen only if it adds an
entry of its own (`LogSays`, `LeaveTells`); the end of an insertion that nobody
waits for is a stutter (`WriteEntrySame`).

**Crud.** `Proper` is what every action does: either a removal is counted or
what was active is active and of the same age (`Grows`), either an amendment is
counted or what stays active meets the filters as before (`Steady`), and in all
cases what was deleted is so or gone, which is NothingRestored. A checked bulk
deletion that no removal has overtaken, nor, if it has filters, any amendment,
still asks for different active documents that meet them (`AllThere`), so that it
affects all of them. A walk that no removal has overtaken owes each document of its start
that it has not seen, and whose time is its own, a place behind the pages it has
been through (`Owes`): `Position` shows that such a document has the one place
after the newer ones in every order, by a bijection from the places before it,
and `MovesBack` that creations and commits only move it back.

Only model-checked: the liveness properties UsedTokenDies, EmailUserCanLogIn and
RequestAnswered (liveness under fairness and ENABLED are out of this prover's
reach). What the first two need of safety is proved: NothingLeftBehindHolds, and
NobodyStrandedHolds. The violations are statements about one instance and need
no proof.

## What is not modelled

* Passwords, argon2, the encryption of refresh tokens: cryptography, black boxes.
* Payments, Stripe webhook, Telegram bot, crawler, profile: one external call
  each, no state.
* The contents of audit entries: what sanitizeData masks (when it throws is
  modelled), the diff of old and new values,
  the configuration of each entity. Nothing reads them. That trackProcess calls
  its extractors with its own rest arguments, of which the login passes none, so
  that entries of logins never name the user, is about contents too.
* updateUser and other updates of single fields: one call each.
* RolesGuard, PermissionGuard and AdminOnlyGuard: stateless comparisons of
  request.user with a decorator.
* The SUPER_ADMIN login by userId: no code in the repository creates an auth
  record of that type, so the lookup finds no document.
* RedisCacheProvider is not wired; AppTokenService is commented out.
* updateActivity writes a time nobody reads and a field the schema lacks.
* The display formats, suggestions and messages of phone.utils and
  error.utils; modules, DTOs, validators, `dist/`: declarations and generated
  code.

## Plan

Done: every component with a state of its own has a module, a run and a proof.
What is left, in this order:

1. A module that composes Login, AccessTokens, TokenMapping and RefreshTokens
   into the life of an account, on one user, with the logouts wired to the
   revocations that have no caller today; its question is what a logout leaves
   alive.
2. Abstract specifications for the rest, with their refinements, whose steps the
   present invariants already contain: AuthCache (the lives that were granted)
   and Crud (the life of a document).
3. sanitizeData and the comparison of audit-trails.utils on small trees, against
   reference definitions; they recurse over data, so they stay with TLC.
4. Several walks and bulk deletions at once in the Crud run: the proof has them,
   the instance has one of each.
