-------------------------- MODULE TokenMappingProofs --------------------------
(***************************************************************************)
(* Proofs about TokenMapping for all values of its constants: any number   *)
(* of opaque ids, of users, of tokens that share a real id and of calls in *)
(* progress, and any lifetime.                                             *)
(***************************************************************************)
EXTENDS TokenMapping, FiniteSetTheorems, TLAPS

\* An id of real id k that resolves and that neither exception of ListComplete
\* concerns.
Regular(o, k) ==
    /\ Resolves(o)
    /\ o \notin extended
    /\ k \in Lists[mapping[o].account]
    /\ k \notin overlapped

\* The list of k names the id, and for as long as it may resolve.
LongListed(o, k) ==
    /\ reverse[k] # None
    /\ o \in reverse[k].ids
    /\ mapping[o].left <= reverse[k].left

\* What call h, at work on the list of k, has in store for o.
Carries(h, o, k) ==
    /\ handler[h].pc = "revoke" => LongListed(o, k)
    /\ handler[h].pc = "listing" =>
         LongListed(o, k) \/ (handler[h].op = "create" /\ o \in handler[h].ids)
    /\ handler[h].pc = "merging" =>
         \/ o \in handler[h].seen[k]
         \/ handler[h].op = "create" /\ o \in handler[h].ids
    /\ handler[h].pc = "deleting" => LongListed(o, k) /\ o \in handler[h].ids
    /\ handler[h].pc # "dropping"

Tracked(o, k) ==
    /\ Settled(k) => LongListed(o, k)
    /\ \A h \in Handler : WorksOn(h, k) => Carries(h, o, k)

TrackedInv == \A o \in OpaqueId, k \in Key : Regular(o, k) => Tracked(o, k)

\* An entry that was never extended lasts no longer than a list just written.
TimeInv ==
    \A o \in OpaqueId \ extended : Resolves(o) => mapping[o].left \in 0..MAPPING_TTL

\* Ids are drawn once: what resolves, or is being revoked or extended, has been.
DrawnInv ==
    /\ \A o \in OpaqueId : Resolves(o) => o \in drawn
    /\ \A h \in Handler :
         /\ handler[h].pc \in {"revoke", "extend"} => handler[h].id \in drawn
         /\ handler[h].pc \in {"listing", "merging"} =>
              handler[h].ids \subseteq drawn

\* An id being taken off the lists resolves no more, but for an extension.
RevokedInv ==
    \A h \in Handler :
        handler[h].pc \in {"listing", "merging"} /\ handler[h].op = "revoke"
        => \A o \in handler[h].ids : Resolves(o) => o \in extended

\* One call at most works on a list that no two have worked on.
AloneInv ==
    \A k \in Key \ overlapped, g, h \in Handler :
        WorksOn(g, k) /\ WorksOn(h, k) => g = h

\* The inductive invariant.
IInv ==
    /\ TypeOK
    /\ TimeInv
    /\ DrawnInv
    /\ RevokedInv
    /\ AloneInv
    /\ TrackedInv

-----------------------------------------------------------------------------
(* Shapes                                                                  *)

Updating ==
    [pc : {"listing", "merging"}, op : {"create", "revoke"},
     ids : (SUBSET OpaqueId) \ {{}}, lists : (SUBSET Key) \ {{}},
     seen : [Key -> SUBSET OpaqueId]]

Revoking == [pc : {"revoke"}, id : OpaqueId, lists : (SUBSET Key) \ {{}}]

Extending == [pc : {"extend"}, id : OpaqueId, account : Account, lists : {{}}]

Sweeping ==
    UNION {[pc : {"deleting", "dropping"}, key : {k},
            ids : (SUBSET OpaqueId) \ {{}}, lists : {{k}}] : k \in Key}

Working == Updating \cup Revoking \cup Extending \cup Sweeping

LEMMA SweepShape ==
    ASSUME NEW c \in Sweeping
    PROVE  /\ c.pc \in {"deleting", "dropping"}
           /\ c.key \in Key
           /\ c.ids \in (SUBSET OpaqueId) \ {{}}
           /\ c.lists = {c.key}
           /\ \A p \in {"deleting", "dropping"} : [c EXCEPT !.pc = p] \in Sweeping
  BY DEF Sweeping

LEMMA NewSweep ==
    ASSUME NEW p \in {"deleting", "dropping"}, NEW k \in Key,
           NEW ids \in (SUBSET OpaqueId) \ {{}}
    PROVE  [pc |-> p, key |-> k, ids |-> ids, lists |-> {k}] \in Sweeping
  BY DEF Sweeping

LEMMA HandlerShape ==
    ASSUME TypeOK, NEW h \in Handler
    PROVE  /\ handler[h] \in Working \cup {Idle}
           /\ handler[h].lists \in SUBSET Key
           /\ handler[h].pc \in {"listing", "merging"} => handler[h] \in Updating
           /\ handler[h].pc = "revoke" => handler[h] \in Revoking
           /\ handler[h].pc = "extend" => handler[h] \in Extending
           /\ handler[h].pc \in {"deleting", "dropping"} => handler[h] \in Sweeping
  <1>1. handler[h] \in Working \cup {Idle}
    BY DEF TypeOK, Call, Working, Updating, Revoking, Extending, Sweeping
  <1>2. CASE handler[h] \in Updating
    BY <1>1, <1>2 DEF Updating
  <1>3. CASE handler[h] \in Revoking
    BY <1>1, <1>3 DEF Revoking
  <1>4. CASE handler[h] \in Extending
    BY <1>1, <1>4 DEF Extending
  <1>5. CASE handler[h] \in Sweeping
    <2>1. handler[h].pc \in {"deleting", "dropping"} /\ handler[h].lists \in SUBSET Key
      BY <1>5, SweepShape
    <2>2. QED
      BY <1>1, <1>5, <2>1
  <1>6. CASE handler[h] = Idle
    BY <1>1, <1>6 DEF Idle
  <1>7. QED
    BY <1>1, <1>2, <1>3, <1>4, <1>5, <1>6 DEF Working

LEMMA ListsShape == \A a \in Account : Lists[a] \in (SUBSET Key) \ {{}}
  <1> SUFFICES ASSUME NEW a \in Account PROVE Lists[a] \in (SUBSET Key) \ {{}}
    OBVIOUS
  <1>1. Lists[a] \subseteq Key
    BY DEF Key
  <1>2. [kind |-> "userId", id |-> a.userId] \in Lists[a]
    BY DEF Lists
  <1>3. QED
    BY <1>1, <1>2

LEMMA EntryShape ==
    ASSUME TypeOK
    PROVE  /\ \A o \in OpaqueId : Resolves(o) =>
                mapping[o] \in Entry /\ mapping[o].account \in Account
                /\ mapping[o].left \in Nat \cup {Forever}
           /\ \A k \in Key : reverse[k] # None =>
                reverse[k] \in List /\ reverse[k].ids \in (SUBSET OpaqueId) \ {{}}
                /\ reverse[k].left \in 0..MAPPING_TTL
           /\ \A k \in Key : ListOf(k) \in SUBSET OpaqueId
  BY DEF TypeOK, Resolves, Entry, List, ListOf

LEMMA NewEntry ==
    ASSUME NEW a \in Account, NEW ttl \in Nat
    PROVE  /\ ForwardEntry(a, ttl) \in Entry /\ ForwardEntry(a, ttl) # None
           /\ ForwardEntry(a, ttl).account = a
           /\ ForwardEntry(a, ttl).left = Lasting(ttl)
  <1>1. ForwardEntry(a, ttl) \in Entry
    BY DEF ForwardEntry, Entry, Lasting
  <1>2. QED
    BY <1>1, NoneAssumption DEF ForwardEntry

LEMMA DefaultLife == Lasting(MAPPING_TTL) = MAPPING_TTL /\ MAPPING_TTL \in Nat
  BY MappingAssumption DEF Lasting

LEMMA NewListEntry ==
    ASSUME NEW ids \in (SUBSET OpaqueId) \ {{}}
    PROVE  /\ ListEntry(ids) \in List /\ ListEntry(ids) # None
           /\ ListEntry(ids).ids = ids /\ ListEntry(ids).left = MAPPING_TTL
  <1>1. ListEntry(ids) \in List
    BY MappingAssumption DEF ListEntry, List
  <1>2. QED
    BY <1>1, NoneAssumption DEF ListEntry

LEMMA NewListing ==
    ASSUME NEW op \in {"create", "revoke"}, NEW ids \in (SUBSET OpaqueId) \ {{}},
           NEW ks \in (SUBSET Key) \ {{}}
    PROVE  /\ Listing(op, ids, ks) \in Updating
           /\ Listing(op, ids, ks).pc = "listing"
           /\ Listing(op, ids, ks).op = op
           /\ Listing(op, ids, ks).ids = ids
           /\ Listing(op, ids, ks).lists = ks
  BY DEF Listing, Updating

LEMMA NewRevocation ==
    ASSUME NEW i \in OpaqueId, NEW ks \in (SUBSET Key) \ {{}}
    PROVE  /\ Listing("revoke", {i}, ks) \in Updating
           /\ Listing("revoke", {i}, ks).pc = "listing"
           /\ Listing("revoke", {i}, ks).op = "revoke"
           /\ Listing("revoke", {i}, ks).ids = {i}
           /\ Listing("revoke", {i}, ks).lists = ks
  BY DEF Listing, Updating

-----------------------------------------------------------------------------
(* The steps                                                               *)

LEMMA InitIInv == Init => IInv
  <1> SUFFICES ASSUME Init PROVE IInv
    OBVIOUS
  <1>1. TypeOK
    BY DEF Init, TypeOK, Idle
  <1>2. DrawnInv /\ RevokedInv /\ TimeInv
    BY DEF Init, DrawnInv, RevokedInv, TimeInv, Resolves, Idle
  <1>3. TrackedInv
    BY DEF Init, TrackedInv, Regular, Resolves
  <1>4. AloneInv
    BY DEF Init, AloneInv, WorksOn, Idle
  <1>5. QED
    BY <1>1, <1>2, <1>3, <1>4 DEF IInv

\* Handler h goes from its state to c.
Turns(h, c) ==
    /\ c \in Working \cup {Idle}
    /\ handler' = [handler EXCEPT ![h] = c]

\* What a call does leaves the calls at work on other lists alone.
Aside(ks) ==
    \A k \in Key \ ks : \A g \in Handler :
        /\ WorksOn(g, k)' <=> WorksOn(g, k)
        /\ WorksOn(g, k) => handler'[g] = handler[g]

LEMMA TurnsFacts ==
    ASSUME TypeOK, NEW h \in Handler, NEW c, Turns(h, c)
    PROVE  /\ handler' \in [Handler -> Call \cup {Idle}]
           /\ handler'[h] = c
           /\ \A g \in Handler : g # h => handler'[g] = handler[g]
  <1>1. c \in Call \cup {Idle}
    BY DEF Turns, Call, Working, Updating, Revoking, Extending, Sweeping
  <1>2. QED
    BY <1>1 DEF TypeOK, Turns

\* An idle call turns to the lists ks: what it may track was settled before.
LEMMA EnterFacts ==
    ASSUME IInv, NEW h \in Handler, NEW ks \in SUBSET Key, handler[h] = Idle,
           NEW c, c.lists = ks, Turns(h, c), Enter(h, ks)
    PROVE  /\ overlapped \subseteq overlapped' /\ overlapped' \subseteq Key
           /\ \A k \in ks \ overlapped' :
                Settled(k) /\ \A g \in Handler : WorksOn(g, k)' => g = h
           /\ Aside(ks)
           /\ AloneInv'
  <1>1. TypeOK /\ AloneInv
    BY DEF IInv
  <1>2. /\ handler'[h] = c
        /\ \A g \in Handler : g # h => handler'[g] = handler[g]
    BY <1>1, TurnsFacts
  <1>3. overlapped \subseteq overlapped' /\ overlapped' \subseteq Key
    BY <1>1 DEF TypeOK, Enter
  <1>4. \A k \in ks \ overlapped' : \A g \in Handler \ {h} : ~WorksOn(g, k)
    BY DEF Enter
  <1>5. \A k \in ks \ overlapped' : Settled(k)
    BY <1>4 DEF Settled, WorksOn, Idle
  <1>6. Aside(ks)
    BY <1>2 DEF Aside, WorksOn, Idle
  <1>7. \A k \in ks \ overlapped' : \A g \in Handler : WorksOn(g, k)' => g = h
    BY <1>2, <1>4 DEF WorksOn
  <1>8. AloneInv'
    BY <1>1, <1>3, <1>6, <1>7 DEF AloneInv, Aside
  <1>9. QED
    BY <1>3, <1>5, <1>6, <1>7, <1>8

\* A call at work goes on with some of its lists, or ends.
LEMMA WorkFacts ==
    ASSUME IInv, NEW h \in Handler, NEW c, c.lists \subseteq handler[h].lists,
           Turns(h, c), overlapped' = overlapped
    PROVE  /\ \A k \in handler[h].lists \ overlapped : \A g \in Handler :
                WorksOn(g, k)' => g = h
           /\ Aside(handler[h].lists)
           /\ AloneInv'
  <1>1. TypeOK /\ AloneInv /\ handler[h].lists \subseteq Key
    BY HandlerShape DEF IInv
  <1>2. /\ handler'[h] = c
        /\ \A g \in Handler : g # h => handler'[g] = handler[g]
    BY <1>1, TurnsFacts
  <1>3. \A g \in Handler, k \in Key : WorksOn(g, k)' => WorksOn(g, k)
    BY <1>2 DEF WorksOn
  <1>4. \A k \in handler[h].lists \ overlapped : \A g \in Handler :
           WorksOn(g, k) => g = h
    BY <1>1 DEF AloneInv, WorksOn
  <1>5. \A k \in handler[h].lists \ overlapped : \A g \in Handler :
           WorksOn(g, k)' => g = h
    BY <1>1, <1>3, <1>4
  <1>6. Aside(handler[h].lists)
    BY <1>2 DEF Aside, WorksOn
  <1>7. AloneInv'
    BY <1>1, <1>3 DEF AloneInv
  <1>8. QED
    BY <1>5, <1>6, <1>7

\* An id on a list the step is not about stays as tracked as it was.
LEMMA AsideTracked ==
    ASSUME NEW o \in OpaqueId, NEW ks, NEW k \in Key \ ks, Tracked(o, k),
           Aside(ks), mapping'[o] = mapping[o], reverse'[k] = reverse[k]
    PROVE  Tracked(o, k)'
  <1>1. LongListed(o, k)' <=> LongListed(o, k)
    BY DEF LongListed
  <1>2. \A g \in Handler : /\ WorksOn(g, k)' <=> WorksOn(g, k)
                           /\ WorksOn(g, k) => handler'[g] = handler[g]
    BY DEF Aside
  <1>3. Settled(k)' <=> Settled(k)
    BY <1>2 DEF Settled
  <1>4. ASSUME NEW g \in Handler, WorksOn(g, k)'
        PROVE  Carries(g, o, k)'
    BY <1>1, <1>2, <1>4 DEF Tracked, Carries
  <1>5. QED
    BY <1>1, <1>3, <1>4 DEF Tracked

\* An id on a list the step is about.
LEMMA OwnTracked ==
    ASSUME NEW o \in OpaqueId, NEW h \in Handler, NEW k \in Key,
           \A g \in Handler : WorksOn(g, k)' => g = h,
           ~WorksOn(h, k)' => LongListed(o, k)',
           WorksOn(h, k)' => Carries(h, o, k)'
    PROVE  Tracked(o, k)'
  BY DEF Tracked, Settled

LEMMA SameLongListed ==
    ASSUME NEW o, NEW k, LongListed(o, k), mapping'[o] = mapping[o],
           reverse'[k] = reverse[k]
    PROVE  LongListed(o, k)'
  BY DEF LongListed

\* What is regular after a step that leaves its entry alone was tracked before it.
LEMMA WasTracked ==
    ASSUME TrackedInv, NEW o \in OpaqueId, NEW k \in Key, Regular(o, k)',
           mapping'[o] = mapping[o], extended \subseteq extended',
           overlapped \subseteq overlapped'
    PROVE  Regular(o, k) /\ Tracked(o, k)
  BY DEF Regular, Resolves, TrackedInv

LEMMA CreateMappingsIInv ==
    ASSUME IInv, NEW h \in Handler, NEW a \in Account, CreateMappings(h, a)
    PROVE  IInv'
  <1>1. TypeOK /\ TimeInv /\ DrawnInv /\ RevokedInv /\ TrackedInv
    BY DEF IInv
  <1>2. PICK ids \in SUBSET (OpaqueId \ drawn) :
           /\ Cardinality(ids) = 2
           /\ owner' = [o \in OpaqueId |-> IF o \in ids THEN a ELSE owner[o]]
           /\ mapping' = [o \in OpaqueId |->
                            IF o \in ids THEN ForwardEntry(a, MAPPING_TTL)
                            ELSE mapping[o]]
           /\ handler' = [handler EXCEPT ![h] = Listing("create", ids, Lists[a])]
    BY DEF CreateMappings
  <1>0. a # None /\ drawn' = drawn \cup ids
    BY <1>2, NoneAssumption DEF drawn
  <1>3. /\ handler[h] = Idle
        /\ Enter(h, Lists[a])
        /\ reverse' = reverse
        /\ extended' = extended
    BY DEF CreateMappings
  <1>4. ids \in (SUBSET OpaqueId) \ {{}} /\ Lists[a] \in (SUBSET Key) \ {{}}
    BY <1>2, FS_EmptySet, ListsShape
  <1> DEFINE c == Listing("create", ids, Lists[a])
  <1>5. /\ c \in Updating
        /\ c.pc = "listing" /\ c.lists = Lists[a] /\ c.op = "create"
        /\ c.ids = ids
    BY <1>4, NewListing
  <1>7. Turns(h, c)
    BY <1>2, <1>5 DEF Turns, Working
  <1> HIDE DEF c
  <1>8. /\ handler' \in [Handler -> Call \cup {Idle}]
        /\ handler'[h] = c
        /\ \A g \in Handler : g # h => handler'[g] = handler[g]
    BY <1>1, <1>7, TurnsFacts
  <1>9. /\ overlapped \subseteq overlapped' /\ overlapped' \subseteq Key
        /\ \A k \in Lists[a] \ overlapped' :
             Settled(k) /\ \A g \in Handler : WorksOn(g, k)' => g = h
        /\ Aside(Lists[a])
        /\ AloneInv'
    BY <1>3, <1>4, <1>5, <1>7, EnterFacts
  <1> DEFINE e == ForwardEntry(a, MAPPING_TTL)
  <1>10. e \in Entry /\ e # None /\ e.account = a /\ e.left = MAPPING_TTL
    BY NewEntry, DefaultLife
  <1>16. mapping' = [o \in OpaqueId |-> IF o \in ids THEN e ELSE mapping[o]]
    BY <1>2
  <1> HIDE DEF e
  <1>11. TypeOK'
    <2>1. mapping' \in [OpaqueId -> Entry \cup {None}]
      BY <1>1, <1>10, <1>16 DEF TypeOK
    <2>2. owner' \in [OpaqueId -> Account \cup {None}]
      BY <1>1, <1>2 DEF TypeOK
    <2>3. QED
      BY <1>0, <1>1, <1>3, <1>8, <1>9, <2>1, <2>2 DEF TypeOK
  <1>12. DrawnInv' /\ TimeInv'
    <2>1. DrawnInv'
      BY <1>0, <1>1, <1>16, <1>5, <1>8 DEF DrawnInv, Resolves
    <2>2. TimeInv'
      BY <1>1, <1>3, <1>10, <1>16, DefaultLife DEF TimeInv, Resolves
    <2>3. QED
      BY <2>1, <2>2
  <1>13. RevokedInv'
    <2> SUFFICES ASSUME NEW g \in Handler,
                        handler'[g].pc \in {"listing", "merging"},
                        handler'[g].op = "revoke",
                        NEW o \in handler'[g].ids, Resolves(o)'
                 PROVE  o \in extended'
      BY DEF RevokedInv
    <2>1. g # h /\ handler'[g] = handler[g]
      BY <1>5, <1>8
    <2>2. o \in drawn /\ o \in OpaqueId
      BY <1>1, <2>1 DEF DrawnInv, drawn
    <2>3. Resolves(o)
      BY <1>16, <1>2, <2>2 DEF Resolves
    <2>4. QED
      BY <1>1, <1>3, <2>1, <2>3 DEF RevokedInv
  <1>14. ASSUME NEW o \in OpaqueId, NEW k \in Key, Regular(o, k)'
         PROVE  Tracked(o, k)'
    <2>1. CASE o \in ids
      <3>1. k \in Lists[a] \ overlapped'
        BY <1>10, <1>14, <1>16, <2>1 DEF Regular
      <3>2. \A g \in Handler : WorksOn(g, k)' => g = h
        BY <1>9, <3>1
      <3>3. Carries(h, o, k)'
        BY <1>5, <1>8, <2>1 DEF Carries
      <3>4. WorksOn(h, k)'
        BY <1>5, <1>8, <3>1 DEF WorksOn
      <3>5. QED
        BY <3>2, <3>3, <3>4, OwnTracked
    <2>2. CASE o \notin ids
      <3>1. mapping'[o] = mapping[o]
        BY <1>16, <2>2
      <3>2. Tracked(o, k)
        BY <1>1, <1>3, <1>9, <1>14, <3>1, WasTracked
      <3>4. CASE k \in Lists[a]
        <4>1. k \notin overlapped'
          BY <1>14 DEF Regular
        <4>2. LongListed(o, k)'
          BY <1>3, <1>9, <3>1, <3>2, <3>4, <4>1, SameLongListed DEF Tracked
        <4>3. \A g \in Handler : WorksOn(g, k)' => g = h
          BY <1>9, <3>4, <4>1
        <4>4. Carries(h, o, k)'
          BY <1>5, <1>8, <4>2 DEF Carries
        <4>5. QED
          BY <4>2, <4>3, <4>4, OwnTracked
      <3>5. CASE k \notin Lists[a]
        BY <1>3, <1>9, <3>1, <3>2, <3>5, AsideTracked
      <3>6. QED
        BY <3>4, <3>5
    <2>3. QED
      BY <2>1, <2>2
  <1>15. QED
    BY <1>9, <1>11, <1>12, <1>13, <1>14 DEF IInv, TrackedInv

LEMMA ResolveToRevokeIInv ==
    ASSUME IInv, NEW h \in Handler, NEW i \in OpaqueId, ResolveToRevoke(h, i)
    PROVE  IInv'
  <1>1. TypeOK /\ TimeInv /\ DrawnInv /\ RevokedInv /\ TrackedInv
    BY DEF IInv
  <1>0. PICK ks \in (SUBSET Key) \ {{}} : ks = Lists[mapping[i].account]
    BY <1>1, EntryShape, ListsShape DEF ResolveToRevoke
  <1> DEFINE c == [pc |-> "revoke", id |-> i, lists |-> ks]
  <1>2. /\ handler[h] = Idle
        /\ Enter(h, ks)
        /\ mapping' = mapping /\ reverse' = reverse
        /\ owner' = owner /\ drawn' = drawn /\ extended' = extended
        /\ handler' = [handler EXCEPT ![h] = c]
        /\ Resolves(i)
    BY <1>0 DEF ResolveToRevoke, drawn
  <1>4. c \in Revoking /\ c.pc = "revoke" /\ c.lists = ks /\ c.id = i
    BY DEF Revoking
  <1>5. Turns(h, c)
    BY <1>2, <1>4 DEF Turns, Working
  <1>6. i \in drawn
    BY <1>1, <1>2 DEF DrawnInv
  <1> HIDE DEF c
  <1>8. /\ handler' \in [Handler -> Call \cup {Idle}]
        /\ handler'[h] = c
        /\ \A g \in Handler : g # h => handler'[g] = handler[g]
    BY <1>1, <1>5, TurnsFacts
  <1>9. /\ overlapped \subseteq overlapped' /\ overlapped' \subseteq Key
        /\ \A k \in ks \ overlapped' :
             Settled(k) /\ \A g \in Handler : WorksOn(g, k)' => g = h
        /\ Aside(ks)
        /\ AloneInv'
    BY <1>2, <1>4, <1>5, EnterFacts
  <1>11. TypeOK' /\ TimeInv'
    BY <1>1, <1>2, <1>8, <1>9 DEF TypeOK, TimeInv, Resolves
  <1>12. DrawnInv'
    BY <1>1, <1>2, <1>4, <1>6, <1>8 DEF DrawnInv, Resolves
  <1>13. RevokedInv'
    BY <1>1, <1>2, <1>4, <1>8 DEF RevokedInv, Resolves
  <1>14. ASSUME NEW o \in OpaqueId, NEW k \in Key, Regular(o, k)'
         PROVE  Tracked(o, k)'
    <2>1. Tracked(o, k)
      BY <1>1, <1>2, <1>9, <1>14, WasTracked
    <2>3. CASE k \in ks
      <3>1. k \notin overlapped'
        BY <1>14 DEF Regular
      <3>2. LongListed(o, k)'
        BY <1>2, <1>9, <2>1, <2>3, <3>1, SameLongListed DEF Tracked
      <3>3. \A g \in Handler : WorksOn(g, k)' => g = h
        BY <1>9, <2>3, <3>1
      <3>4. Carries(h, o, k)'
        BY <1>4, <1>8, <3>2 DEF Carries
      <3>5. QED
        BY <3>2, <3>3, <3>4, OwnTracked
    <2>4. CASE k \notin ks
      BY <1>2, <1>9, <2>1, <2>4, AsideTracked
    <2>5. QED
      BY <2>3, <2>4
  <1>15. QED
    BY <1>9, <1>11, <1>12, <1>13, <1>14 DEF IInv, TrackedInv

LEMMA ResolveToExtendIInv ==
    ASSUME IInv, NEW h \in Handler, NEW i \in OpaqueId, ResolveToExtend(h, i)
    PROVE  IInv'
  <1>1. TypeOK /\ TimeInv /\ DrawnInv /\ RevokedInv /\ TrackedInv
    BY DEF IInv
  <1>0. PICK a \in Account : a = mapping[i].account
    BY <1>1, EntryShape DEF ResolveToExtend
  <1> DEFINE c == [pc |-> "extend", id |-> i, account |-> a, lists |-> {}]
  <1>2. /\ handler[h] = Idle
        /\ mapping' = mapping /\ reverse' = reverse
        /\ owner' = owner /\ drawn' = drawn /\ extended' = extended
        /\ overlapped' = overlapped
        /\ handler' = [handler EXCEPT ![h] = c]
        /\ Resolves(i)
    BY <1>0 DEF ResolveToExtend, drawn
  <1>4. c \in Extending /\ c.pc = "extend" /\ c.lists = {} /\ c.id = i
    BY DEF Extending
  <1>5. Turns(h, c)
    BY <1>2, <1>4 DEF Turns, Working
  <1>6. i \in drawn
    BY <1>1, <1>2 DEF DrawnInv
  <1> HIDE DEF c
  <1>8. /\ handler' \in [Handler -> Call \cup {Idle}]
        /\ handler'[h] = c
        /\ \A g \in Handler : g # h => handler'[g] = handler[g]
    BY <1>1, <1>5, TurnsFacts
  <1>9. Aside({}) /\ AloneInv'
    BY <1>2, <1>4, <1>5, WorkFacts DEF Idle
  <1>11. TypeOK' /\ TimeInv'
    BY <1>1, <1>2, <1>8 DEF TypeOK, TimeInv, Resolves
  <1>12. DrawnInv'
    BY <1>1, <1>2, <1>4, <1>6, <1>8 DEF DrawnInv, Resolves
  <1>13. RevokedInv'
    BY <1>1, <1>2, <1>4, <1>8 DEF RevokedInv, Resolves
  <1>14. ASSUME NEW o \in OpaqueId, NEW k \in Key, Regular(o, k)'
         PROVE  Tracked(o, k)'
    BY <1>1, <1>2, <1>9, <1>14, WasTracked, AsideTracked
  <1>15. QED
    BY <1>9, <1>11, <1>12, <1>13, <1>14 DEF IInv, TrackedInv

LEMMA FindAllIInv ==
    ASSUME IInv, NEW h \in Handler, NEW key \in Key, FindAll(h, key)
    PROVE  IInv'
  <1>1. TypeOK /\ TimeInv /\ DrawnInv /\ RevokedInv /\ TrackedInv
    BY DEF IInv
  <1> DEFINE c == [pc |-> "deleting", key |-> key, ids |-> ListOf(key),
                   lists |-> {key}]
  <1>2. /\ handler[h] = Idle
        /\ Enter(h, {key})
        /\ mapping' = mapping /\ reverse' = reverse
        /\ owner' = owner /\ drawn' = drawn /\ extended' = extended
        /\ handler' = [handler EXCEPT ![h] = c]
        /\ ListOf(key) # {}
    BY DEF FindAll, drawn
  <1>3. ListOf(key) \in (SUBSET OpaqueId) \ {{}}
    BY <1>1, <1>2, EntryShape
  <1>4. /\ c \in Sweeping
        /\ c.pc = "deleting" /\ c.lists = {key} /\ c.ids = ListOf(key)
    <2>1. c \in Sweeping
      BY <1>3, NewSweep
    <2>2. QED
      BY <2>1
  <1>5. Turns(h, c)
    BY <1>2, <1>4 DEF Turns, Working
  <1> HIDE DEF c
  <1>8. /\ handler' \in [Handler -> Call \cup {Idle}]
        /\ handler'[h] = c
        /\ \A g \in Handler : g # h => handler'[g] = handler[g]
    BY <1>1, <1>5, TurnsFacts
  <1>9. /\ overlapped \subseteq overlapped' /\ overlapped' \subseteq Key
        /\ \A k \in {key} \ overlapped' :
             Settled(k) /\ \A g \in Handler : WorksOn(g, k)' => g = h
        /\ Aside({key})
        /\ AloneInv'
    BY <1>2, <1>4, <1>5, EnterFacts
  <1>11. TypeOK' /\ TimeInv'
    BY <1>1, <1>2, <1>8, <1>9 DEF TypeOK, TimeInv, Resolves
  <1>12. DrawnInv'
    BY <1>1, <1>2, <1>4, <1>8 DEF DrawnInv, Resolves
  <1>13. RevokedInv'
    BY <1>1, <1>2, <1>4, <1>8 DEF RevokedInv, Resolves
  <1>14. ASSUME NEW o \in OpaqueId, NEW k \in Key, Regular(o, k)'
         PROVE  Tracked(o, k)'
    <2>1. Tracked(o, k)
      BY <1>1, <1>2, <1>9, <1>14, WasTracked
    <2>3. CASE k = key
      <3>1. k \notin overlapped'
        BY <1>14 DEF Regular
      <3>2. LongListed(o, k)
        BY <1>9, <2>1, <2>3, <3>1 DEF Tracked
      <3>3. LongListed(o, k)' /\ o \in ListOf(key)
        BY <1>2, <2>3, <3>2, SameLongListed DEF LongListed, ListOf
      <3>4. \A g \in Handler : WorksOn(g, k)' => g = h
        BY <1>9, <2>3, <3>1
      <3>5. Carries(h, o, k)'
        BY <1>4, <1>8, <3>3 DEF Carries
      <3>6. QED
        BY <3>3, <3>4, <3>5, OwnTracked
    <2>4. CASE k # key
      BY <1>2, <1>9, <2>1, <2>4, AsideTracked
    <2>5. QED
      BY <2>3, <2>4
  <1>15. QED
    BY <1>9, <1>11, <1>12, <1>13, <1>14 DEF IInv, TrackedInv

LEMMA DeleteMappingIInv ==
    ASSUME IInv, NEW h \in Handler, DeleteMapping(h)
    PROVE  IInv'
  <1>1. TypeOK /\ TimeInv /\ DrawnInv /\ RevokedInv /\ TrackedInv
    BY DEF IInv
  <1>2. PICK ks, i : ks = handler[h].lists /\ i = handler[h].id
    OBVIOUS
  <1> DEFINE c == Listing("revoke", {i}, ks)
  <1>3. /\ handler[h].pc = "revoke"
        /\ mapping' = [mapping EXCEPT ![i] = None]
        /\ handler' = [handler EXCEPT ![h] = c]
        /\ reverse' = reverse /\ owner' = owner /\ drawn' = drawn
        /\ extended' = extended /\ overlapped' = overlapped
    BY <1>2 DEF DeleteMapping, drawn
  <1>4. ks \in (SUBSET Key) \ {{}} /\ i \in OpaqueId
    BY <1>1, <1>2, <1>3, HandlerShape DEF Revoking
  <1>5. /\ c \in Updating
        /\ c.pc = "listing" /\ c.lists = ks /\ c.op = "revoke" /\ c.ids = {i}
    BY <1>4, NewRevocation
  <1>6. Turns(h, c)
    BY <1>3, <1>5 DEF Turns, Working
  <1>7. i \in drawn
    BY <1>1, <1>2, <1>3 DEF DrawnInv
  <1> HIDE DEF c
  <1>8. /\ handler' \in [Handler -> Call \cup {Idle}]
        /\ handler'[h] = c
        /\ \A g \in Handler : g # h => handler'[g] = handler[g]
    BY <1>1, <1>6, TurnsFacts
  <1>9. /\ \A k \in ks \ overlapped : \A g \in Handler : WorksOn(g, k)' => g = h
        /\ Aside(ks)
        /\ AloneInv'
    BY <1>2, <1>3, <1>5, <1>6, WorkFacts
  <1>10. TypeOK' /\ TimeInv'
    <2>1. TypeOK'
      BY <1>1, <1>3, <1>8 DEF TypeOK
    <2>2. TimeInv'
      BY <1>1, <1>3, <1>4 DEF TypeOK, TimeInv, Resolves
    <2>3. QED
      BY <2>1, <2>2
  <1>11. DrawnInv'
    BY <1>1, <1>3, <1>4, <1>5, <1>7, <1>8 DEF DrawnInv, Resolves, TypeOK
  <1>12. RevokedInv'
    <2>1. ~Resolves(i)'
      BY <1>1, <1>3, <1>4 DEF TypeOK, Resolves
    <2>2. \A o : Resolves(o)' /\ o \in OpaqueId => Resolves(o)
      BY <1>1, <1>3 DEF TypeOK, Resolves
    <2>3. \A g \in Handler : handler[g].pc \in {"listing", "merging"} =>
             handler[g].ids \subseteq OpaqueId
      BY <1>1, HandlerShape DEF Updating
    <2>4. QED
      BY <1>1, <1>3, <1>5, <1>8, <2>1, <2>2, <2>3 DEF RevokedInv
  <1>13. ASSUME NEW o \in OpaqueId, NEW k \in Key, Regular(o, k)'
         PROVE  Tracked(o, k)'
    <2>1. mapping'[o] = mapping[o]
      BY <1>1, <1>3, <1>13 DEF Regular, Resolves, TypeOK
    <2>2. Tracked(o, k)
      BY <1>1, <1>3, <1>13, <2>1, WasTracked
    <2>4. CASE k \in ks
      <3>1. k \notin overlapped
        BY <1>3, <1>13 DEF Regular
      <3>2. LongListed(o, k)
        BY <1>2, <1>3, <2>2, <2>4 DEF Tracked, Carries, WorksOn
      <3>3. LongListed(o, k)'
        BY <1>3, <2>1, <3>2, SameLongListed
      <3>4. \A g \in Handler : WorksOn(g, k)' => g = h
        BY <1>9, <2>4, <3>1
      <3>6. Carries(h, o, k)'
        BY <1>5, <1>8, <3>3 DEF Carries
      <3>7. QED
        BY <3>3, <3>4, <3>6, OwnTracked
    <2>5. CASE k \notin ks
      BY <1>3, <1>9, <2>1, <2>2, <2>5, AsideTracked
    <2>6. QED
      BY <2>4, <2>5
  <1>14. QED
    BY <1>9, <1>10, <1>11, <1>12, <1>13 DEF IInv, TrackedInv

LEMMA ExtendMappingIInv ==
    ASSUME IInv, NEW h \in Handler, ExtendMapping(h)
    PROVE  IInv'
  <1>1. TypeOK /\ TimeInv /\ DrawnInv /\ RevokedInv /\ TrackedInv
    BY DEF IInv
  <1>2. PICK a, i : a = handler[h].account /\ i = handler[h].id
    OBVIOUS
  <1>0. PICK ttl \in ExtraTtl \cup {MAPPING_TTL} :
           mapping' = [mapping EXCEPT ![i] = ForwardEntry(a, ttl)]
    BY <1>2 DEF ExtendMapping
  <1>3. /\ handler[h].pc = "extend"
        /\ handler' = [handler EXCEPT ![h] = Idle]
        /\ reverse' = reverse /\ owner' = owner /\ drawn' = drawn
        /\ extended' = extended \cup {i} /\ overlapped' = overlapped
    BY <1>2 DEF ExtendMapping, drawn
  <1>4. handler[h].lists = {} /\ a \in Account /\ i \in OpaqueId
    BY <1>1, <1>2, <1>3, HandlerShape DEF Extending
  <1>5. Idle.lists = {} /\ Idle.pc = "idle"
    BY DEF Idle
  <1>6. Turns(h, Idle)
    BY <1>3 DEF Turns
  <1>7. i \in drawn
    BY <1>1, <1>2, <1>3 DEF DrawnInv
  <1>8. /\ handler' \in [Handler -> Call \cup {Idle}]
        /\ handler'[h] = Idle
        /\ \A g \in Handler : g # h => handler'[g] = handler[g]
    BY <1>1, <1>6, TurnsFacts
  <1>9. Aside({}) /\ AloneInv'
    BY <1>3, <1>4, <1>5, <1>6, WorkFacts
  <1>10. TypeOK' /\ TimeInv'
    <2>0. ForwardEntry(a, ttl) \in Entry
      BY <1>4, NewEntry, MappingAssumption
    <2>1. mapping' \in [OpaqueId -> Entry \cup {None}]
      BY <1>0, <1>1, <2>0 DEF TypeOK
    <2>2. TypeOK'
      BY <1>1, <1>3, <1>7, <1>8, <2>1 DEF TypeOK
    <2>3. TimeInv'
      BY <1>0, <1>1, <1>3, <1>4 DEF TypeOK, TimeInv, Resolves
    <2>4. QED
      BY <2>2, <2>3
  <1>11. DrawnInv'
    BY <1>0, <1>1, <1>3, <1>4, <1>5, <1>7, <1>8 DEF DrawnInv, Resolves, TypeOK
  <1>12. RevokedInv'
    <2>1. \A o \in OpaqueId : Resolves(o)' => Resolves(o) \/ o = i
      BY <1>0, <1>1, <1>3 DEF TypeOK, Resolves
    <2>2. \A g \in Handler : handler[g].pc \in {"listing", "merging"} =>
             handler[g].ids \subseteq OpaqueId
      BY <1>1, HandlerShape DEF Updating
    <2>3. QED
      BY <1>1, <1>3, <1>5, <1>8, <2>1, <2>2 DEF RevokedInv
  <1>13. ASSUME NEW o \in OpaqueId, NEW k \in Key, Regular(o, k)'
         PROVE  Tracked(o, k)'
    <2>1. mapping'[o] = mapping[o]
      BY <1>0, <1>1, <1>3, <1>13 DEF Regular, TypeOK
    <2>2. QED
      BY <1>1, <1>3, <1>9, <1>13, <2>1, WasTracked, AsideTracked
  <1>14. QED
    BY <1>9, <1>10, <1>11, <1>12, <1>13 DEF IInv, TrackedInv

LEMMA ReadListsIInv ==
    ASSUME IInv, NEW h \in Handler, ReadLists(h)
    PROVE  IInv'
  <1>1. TypeOK /\ TimeInv /\ DrawnInv /\ RevokedInv /\ TrackedInv
    BY DEF IInv
  <1>2. PICK seen :
           seen = [k \in Key |-> IF WorksOn(h, k) THEN ListOf(k) ELSE {}]
    OBVIOUS
  <1> DEFINE ks == handler[h].lists
             c == [handler[h] EXCEPT !.pc = "merging", !.seen = seen]
  <1>3. /\ handler[h].pc = "listing"
        /\ handler' = [handler EXCEPT ![h] = c]
        /\ mapping' = mapping /\ reverse' = reverse
        /\ owner' = owner /\ drawn' = drawn
        /\ extended' = extended /\ overlapped' = overlapped
    <2>1. handler' = [handler EXCEPT ![h].pc = "merging", ![h].seen = seen]
      BY <1>2 DEF ReadLists
    <2>2. handler' = [handler EXCEPT ![h] = c]
      BY <1>1, <2>1 DEF TypeOK
    <2>3. QED
      BY <2>2 DEF ReadLists, drawn
  <1>4. handler[h] \in Updating /\ ks \in (SUBSET Key) \ {{}}
    BY <1>1, <1>3, HandlerShape DEF Updating
  <1>5. /\ c \in Updating
        /\ c.pc = "merging" /\ c.lists = ks /\ c.op = handler[h].op
        /\ c.ids = handler[h].ids /\ c.seen = seen
    <2>1. seen \in [Key -> SUBSET OpaqueId]
      BY <1>1, <1>2, EntryShape
    <2>2. QED
      BY <1>4, <2>1 DEF Updating
  <1> HIDE DEF c
  <1>6. Turns(h, c)
    BY <1>3, <1>5 DEF Turns, Working
  <1>8. /\ handler' \in [Handler -> Call \cup {Idle}]
        /\ handler'[h] = c
        /\ \A g \in Handler : g # h => handler'[g] = handler[g]
    BY <1>1, <1>6, TurnsFacts
  <1>9. /\ \A k \in ks \ overlapped : \A g \in Handler : WorksOn(g, k)' => g = h
        /\ Aside(ks)
        /\ AloneInv'
    BY <1>3, <1>5, <1>6, WorkFacts
  <1>10. TypeOK' /\ TimeInv'
    BY <1>1, <1>3, <1>8 DEF TypeOK, TimeInv, Resolves
  <1>11. DrawnInv'
    BY <1>1, <1>3, <1>5, <1>8 DEF DrawnInv, Resolves
  <1>12. RevokedInv'
    BY <1>1, <1>3, <1>5, <1>8 DEF RevokedInv, Resolves
  <1>13. ASSUME NEW o \in OpaqueId, NEW k \in Key, Regular(o, k)'
         PROVE  Tracked(o, k)'
    <2>1. Tracked(o, k)
      BY <1>1, <1>3, <1>13, WasTracked
    <2>2. CASE k \in ks
      <3>1. k \notin overlapped
        BY <1>3, <1>13 DEF Regular
      <3>2. LongListed(o, k) \/ (handler[h].op = "create" /\ o \in handler[h].ids)
        BY <1>3, <2>1, <2>2 DEF Tracked, Carries, WorksOn
      <3>3. LongListed(o, k) => o \in seen[k]
        BY <1>2, <2>2 DEF LongListed, ListOf, WorksOn
      <3>4. \A g \in Handler : WorksOn(g, k)' => g = h
        BY <1>9, <2>2, <3>1
      <3>5. Carries(h, o, k)'
        BY <1>5, <1>8, <3>2, <3>3 DEF Carries
      <3>6. WorksOn(h, k)'
        BY <1>5, <1>8, <2>2 DEF WorksOn
      <3>7. QED
        BY <3>4, <3>5, <3>6, OwnTracked
    <2>3. CASE k \notin ks
      BY <1>3, <1>9, <2>1, <2>3, AsideTracked
    <2>4. QED
      BY <2>2, <2>3
  <1>14. QED
    BY <1>9, <1>10, <1>11, <1>12, <1>13 DEF IInv, TrackedInv

\* What is left of a call when one of its lists has been written.
LEMMA RestOfCall ==
    ASSUME TypeOK, NEW h \in Handler, handler[h].pc = "merging", NEW ks,
           ks \subseteq handler[h].lists
    PROVE  /\ Rest(handler[h], ks) \in Updating \cup {Idle}
           /\ Rest(handler[h], ks).lists = ks
           /\ Rest(handler[h], ks) # Idle =>
                /\ Rest(handler[h], ks).pc = "merging"
                /\ Rest(handler[h], ks).op = handler[h].op
                /\ Rest(handler[h], ks).ids = handler[h].ids
                /\ Rest(handler[h], ks).seen = handler[h].seen
  <1>1. handler[h] \in Updating
    BY HandlerShape
  <1>2. QED
    BY <1>1 DEF Updating, Idle, Rest

LEMMA WriteListIInv ==
    ASSUME IInv, NEW h \in Handler, NEW key \in Key, WriteList(h, key)
    PROVE  IInv'
  <1>1. TypeOK /\ TimeInv /\ DrawnInv /\ RevokedInv /\ TrackedInv
    BY DEF IInv
  <1> DEFINE ks == handler[h].lists
             list == NewList(h, key)
             c == Rest(handler[h], ks \ {key})
  <1>3. /\ handler[h].pc = "merging"
        /\ key \in ks
        /\ handler' = [handler EXCEPT ![h] = c]
        /\ mapping' = mapping /\ owner' = owner /\ drawn' = drawn
        /\ extended' = extended /\ overlapped' = overlapped
    BY <1>1 DEF WriteList, WorksOn, TypeOK, drawn
  <1>4. handler[h] \in Updating
    BY <1>1, <1>3, HandlerShape
  <1>5. list \in SUBSET OpaqueId
    BY <1>4 DEF NewList, Updating
  <1>6. /\ reverse' \in [Key -> List \cup {None}]
        /\ \A k \in Key : k # key => reverse'[k] = reverse[k]
        /\ list # {} => reverse'[key] = ListEntry(list)
    <2> DEFINE new == IF list # {} THEN ListEntry(list)
                      ELSE IF handler[h].seen[key] # {} THEN None
                      ELSE reverse[key]
    <2>1. reverse' = [reverse EXCEPT ![key] = new]
      BY <1>1 DEF WriteList, TypeOK
    <2>2. new \in List \cup {None}
      BY <1>1, <1>5, NewListEntry DEF TypeOK
    <2>3. list # {} => new = ListEntry(list)
      OBVIOUS
    <2> HIDE DEF new
    <2>4. QED
      BY <1>1, <2>1, <2>2, <2>3 DEF TypeOK
  <1>7. /\ c \in Updating \cup {Idle}
        /\ c.lists = ks \ {key}
        /\ c # Idle => /\ c.pc = "merging" /\ c.op = handler[h].op
                       /\ c.ids = handler[h].ids /\ c.seen = handler[h].seen
    <2>1. ks \ {key} \subseteq handler[h].lists
      OBVIOUS
    <2>2. QED
      BY <1>1, <1>3, <2>1, RestOfCall
  <1> HIDE DEF c
  <1>2. Turns(h, c)
    BY <1>3, <1>7 DEF Turns, Working
  <1>8. /\ handler' \in [Handler -> Call \cup {Idle}]
        /\ handler'[h] = c
        /\ \A g \in Handler : g # h => handler'[g] = handler[g]
    BY <1>1, <1>2, TurnsFacts
  <1>9. /\ \A k \in ks \ overlapped : \A g \in Handler : WorksOn(g, k)' => g = h
        /\ Aside(ks)
        /\ AloneInv'
    <2>1. c.lists \subseteq handler[h].lists
      BY <1>7
    <2>2. QED
      BY <1>2, <1>3, <2>1, WorkFacts
  <1>10. TypeOK' /\ TimeInv'
    BY <1>1, <1>3, <1>6, <1>8 DEF TypeOK, TimeInv, Resolves
  <1>11. DrawnInv'
    BY <1>1, <1>3, <1>7, <1>8 DEF DrawnInv, Resolves, Idle
  <1>12. RevokedInv'
    BY <1>1, <1>3, <1>7, <1>8 DEF RevokedInv, Resolves, Idle
  <1>13. ASSUME NEW o \in OpaqueId, NEW k \in Key, Regular(o, k)'
         PROVE  Tracked(o, k)'
    <2>1. Regular(o, k) /\ Tracked(o, k)
      BY <1>1, <1>3, <1>13, WasTracked
    <2>2. ASSUME k \in ks
          PROVE  /\ \A g \in Handler : WorksOn(g, k)' => g = h
                 /\ Carries(h, o, k)
      BY <1>9, <2>1, <2>2 DEF Regular, Tracked, WorksOn
    <2>3. CASE k = key
      <3>1. \/ o \in handler[h].seen[k]
            \/ handler[h].op = "create" /\ o \in handler[h].ids
        BY <1>3, <2>2, <2>3 DEF Carries
      <3>2. handler[h].op # "create" => o \notin handler[h].ids
        BY <1>1, <1>3, <1>4, <2>1 DEF RevokedInv, Regular, Updating
      <3>3. o \in list
        BY <2>3, <3>1, <3>2 DEF NewList
      <3>4. /\ reverse'[k] # None /\ reverse'[k].ids = list
            /\ reverse'[k].left = MAPPING_TTL
        BY <1>5, <1>6, <2>3, <3>3, NewListEntry
      <3>5. mapping[o].left <= MAPPING_TTL
        BY <1>1, <2>1, DefaultLife DEF TimeInv, Regular
      <3>6. LongListed(o, k)'
        BY <1>3, <3>3, <3>4, <3>5 DEF LongListed
      <3>7. ~WorksOn(h, k)'
        BY <1>7, <1>8, <2>3 DEF WorksOn
      <3>8. QED
        BY <1>3, <2>2, <2>3, <3>6, <3>7, OwnTracked
    <2>4. CASE k \in ks /\ k # key
      <3>1. c # Idle
        BY <1>7, <2>4 DEF Idle
      <3>2. Carries(h, o, k)'
        BY <1>3, <1>7, <1>8, <2>2, <2>4, <3>1 DEF Carries
      <3>3. WorksOn(h, k)'
        BY <1>7, <1>8, <2>4 DEF WorksOn
      <3>4. QED
        BY <2>2, <2>4, <3>2, <3>3, OwnTracked
    <2>5. CASE k \notin ks
      BY <1>3, <1>6, <1>9, <2>1, <2>5, AsideTracked
    <2>6. QED
      BY <2>3, <2>4, <2>5
  <1>14. QED
    BY <1>9, <1>10, <1>11, <1>12, <1>13 DEF IInv, TrackedInv

LEMMA DeleteAllIInv ==
    ASSUME IInv, NEW h \in Handler, DeleteAll(h)
    PROVE  IInv'
  <1>1. TypeOK /\ TimeInv /\ DrawnInv /\ RevokedInv /\ TrackedInv
    BY DEF IInv
  <1>2. PICK ks, ids : ks = handler[h].lists /\ ids = handler[h].ids
    OBVIOUS
  <1> DEFINE c == [handler[h] EXCEPT !.pc = "dropping"]
  <1>3. /\ handler[h].pc = "deleting"
        /\ handler' = [handler EXCEPT ![h] = c]
        /\ mapping' = [o \in OpaqueId |->
                         IF o \in ids THEN None ELSE mapping[o]]
        /\ reverse' = reverse /\ owner' = owner /\ drawn' = drawn
        /\ extended' = extended /\ overlapped' = overlapped
    <2>1. handler' = [handler EXCEPT ![h].pc = "dropping"]
      BY DEF DeleteAll, drawn
    <2>2. handler' = [handler EXCEPT ![h] = c]
      BY <1>1, <2>1 DEF TypeOK
    <2>3. QED
      BY <1>2, <2>2 DEF DeleteAll, drawn
  <1>4. handler[h] \in Sweeping
    BY <1>1, <1>3, HandlerShape
  <1>5. c \in Sweeping /\ c.pc = "dropping" /\ c.lists = ks
    <2>1. c \in Sweeping
      BY <1>4, SweepShape
    <2>2. QED
      BY <1>2, <1>4, <2>1 DEF Sweeping
  <1> HIDE DEF c
  <1>6. Turns(h, c)
    BY <1>3, <1>5 DEF Turns, Working
  <1>8. /\ handler' \in [Handler -> Call \cup {Idle}]
        /\ handler'[h] = c
        /\ \A g \in Handler : g # h => handler'[g] = handler[g]
    BY <1>1, <1>6, TurnsFacts
  <1>9. Aside(ks) /\ AloneInv'
    BY <1>2, <1>3, <1>5, <1>6, WorkFacts
  <1>10. TypeOK' /\ TimeInv'
    BY <1>1, <1>3, <1>8 DEF TypeOK, TimeInv, Resolves
  <1>11. DrawnInv'
    BY <1>1, <1>3, <1>5, <1>8 DEF DrawnInv, Resolves
  <1>12. RevokedInv'
    <2>1. \A g \in Handler : handler[g].pc \in {"listing", "merging"} =>
             handler[g].ids \subseteq OpaqueId
      BY <1>1, HandlerShape DEF Updating
    <2>2. \A o \in OpaqueId : Resolves(o)' => Resolves(o)
      BY <1>3 DEF Resolves
    <2>3. QED
      BY <1>1, <1>3, <1>5, <1>8, <2>1, <2>2 DEF RevokedInv
  <1>13. ASSUME NEW o \in OpaqueId, NEW k \in Key, Regular(o, k)'
         PROVE  Tracked(o, k)'
    <2>1. o \notin ids /\ mapping'[o] = mapping[o]
      BY <1>3, <1>13 DEF Regular, Resolves
    <2>2. Tracked(o, k)
      BY <1>1, <1>3, <1>13, <2>1, WasTracked
    <2>3. k \notin ks
      BY <1>2, <1>3, <2>1, <2>2 DEF Tracked, Carries, WorksOn
    <2>4. QED
      BY <1>3, <1>9, <2>1, <2>2, <2>3, AsideTracked
  <1>14. QED
    BY <1>9, <1>10, <1>11, <1>12, <1>13 DEF IInv, TrackedInv

\* When the list is dropped no id of the real id resolves that is tracked.
LEMMA DropListRevokes ==
    ASSUME IInv, NEW h \in Handler, DropList(h), NEW o \in OpaqueId
    PROVE  ~Regular(o, handler[h].key)
  <1>1. /\ handler[h].pc = "dropping"
        /\ handler[h].key \in Key
        /\ WorksOn(h, handler[h].key)
    BY HandlerShape, SweepShape DEF DropList, IInv, WorksOn
  <1>2. ~Tracked(o, handler[h].key)
    BY <1>1 DEF Tracked, Carries
  <1>3. QED
    BY <1>1, <1>2 DEF IInv, TrackedInv

LEMMA DropListIInv ==
    ASSUME IInv, NEW h \in Handler, DropList(h)
    PROVE  IInv'
  <1>1. TypeOK /\ TimeInv /\ DrawnInv /\ RevokedInv /\ TrackedInv
    BY DEF IInv
  <1>2. PICK key : key = handler[h].key
    OBVIOUS
  <1>3. /\ handler[h].pc = "dropping"
        /\ handler' = [handler EXCEPT ![h] = Idle]
        /\ reverse' = [reverse EXCEPT ![key] = None]
        /\ mapping' = mapping /\ owner' = owner /\ drawn' = drawn
        /\ extended' = extended /\ overlapped' = overlapped
    BY <1>2 DEF DropList, drawn
  <1>4. handler[h].lists = {key} /\ key \in Key
    BY <1>1, <1>2, <1>3, HandlerShape, SweepShape
  <1>5. Idle.lists = {} /\ Idle.pc = "idle"
    BY DEF Idle
  <1>7. Turns(h, Idle)
    BY <1>3 DEF Turns
  <1>8. /\ handler' \in [Handler -> Call \cup {Idle}]
        /\ handler'[h] = Idle
        /\ \A g \in Handler : g # h => handler'[g] = handler[g]
    BY <1>1, <1>7, TurnsFacts
  <1>9. Aside({key}) /\ AloneInv'
    BY <1>3, <1>4, <1>5, <1>7, WorkFacts
  <1>10. TypeOK' /\ TimeInv'
    BY <1>1, <1>3, <1>4, <1>8 DEF TypeOK, TimeInv, Resolves
  <1>11. DrawnInv'
    BY <1>1, <1>3, <1>5, <1>8 DEF DrawnInv, Resolves
  <1>12. RevokedInv'
    BY <1>1, <1>3, <1>5, <1>8 DEF RevokedInv, Resolves
  <1>13. ASSUME NEW o \in OpaqueId, NEW k \in Key, Regular(o, k)'
         PROVE  Tracked(o, k)'
    <2>1. Regular(o, k) /\ Tracked(o, k)
      BY <1>1, <1>3, <1>13, WasTracked
    <2>2. k # key
      BY <1>2, <2>1, DropListRevokes
    <2>3. reverse'[k] = reverse[k]
      BY <1>1, <1>3, <2>2 DEF TypeOK
    <2>4. QED
      BY <1>3, <1>9, <2>1, <2>2, <2>3, AsideTracked
  <1>14. QED
    BY <1>9, <1>10, <1>11, <1>12, <1>13 DEF IInv, TrackedInv

\* An entry that is still there after a tick was there; it stays forever or has
\* one tick less left.
LEMMA OlderEntry ==
    ASSUME NEW entry \in Entry \cup List \cup {None}
    PROVE  /\ entry \in Entry => Older(entry) \in Entry \cup {None}
           /\ entry \in List => Older(entry) \in List \cup {None}
           /\ entry = None => Older(entry) = None
           /\ entry # None /\ entry.left \notin {0, Forever} =>
                Older(entry) = [entry EXCEPT !.left = @ - 1]
           /\ entry # None /\ entry.left = Forever => Older(entry) = entry
           /\ entry # None /\ entry.left = 0 => Older(entry) = None
  BY NoneAssumption, MappingAssumption DEF Older, Entry, List

\* A tick takes time from an entry, never an account.
LEMMA TickEntries ==
    ASSUME TypeOK, Tick, NEW o \in OpaqueId
    PROVE  /\ Resolves(o)' <=> Resolves(o) /\ mapping[o].left # 0
           /\ Resolves(o)' =>
                /\ mapping'[o].account = mapping[o].account
                /\ mapping[o].left = Forever => mapping'[o].left = Forever
                /\ mapping[o].left # Forever =>
                     mapping'[o].left = mapping[o].left - 1
  <1>1. mapping'[o] = Older(mapping[o]) /\ mapping[o] \in Entry \cup {None}
    BY DEF Tick, TypeOK
  <1>2. CASE mapping[o] # None /\ mapping[o].left \notin {0, Forever}
    <2>1. mapping'[o] = [mapping[o] EXCEPT !.left = @ - 1]
      BY <1>1, <1>2, OlderEntry
    <2>2. mapping'[o] # None
      <3>1. mapping'[o] \in Entry
        BY <1>1, <1>2, <2>1 DEF Entry
      <3>2. QED
        BY <3>1, NoneAssumption
    <2>3. QED
      BY <1>1, <1>2, <2>1, <2>2 DEF Resolves, Entry
  <1>3. CASE mapping[o] = None \/ mapping[o].left = 0
    BY <1>1, <1>3 DEF Older, Resolves
  <1>4. CASE mapping[o] # None /\ mapping[o].left = Forever
    BY <1>1, <1>4, OlderEntry, NoneAssumption DEF Resolves
  <1>5. QED
    BY <1>2, <1>3, <1>4

LEMMA TickIInv ==
    ASSUME IInv, Tick
    PROVE  IInv'
  <1>1. TypeOK /\ TimeInv /\ DrawnInv /\ RevokedInv /\ AloneInv /\ TrackedInv
    BY DEF IInv
  <1>2. /\ mapping' = [o \in OpaqueId |-> Older(mapping[o])]
        /\ reverse' = [k \in Key |-> Older(reverse[k])]
        /\ handler' = handler /\ owner' = owner /\ drawn' = drawn
        /\ extended' = extended /\ overlapped' = overlapped
    BY DEF Tick, drawn
  <1>3. TypeOK'
    <2>1. \A o \in OpaqueId : Older(mapping[o]) \in Entry \cup {None}
      BY <1>1, OlderEntry DEF TypeOK
    <2>2. \A k \in Key : Older(reverse[k]) \in List \cup {None}
      BY <1>1, OlderEntry DEF TypeOK
    <2>3. QED
      BY <1>1, <1>2, <2>1, <2>2 DEF TypeOK
  <1>4. \A o \in OpaqueId \ extended : Resolves(o)' =>
           /\ Resolves(o)
           /\ mapping[o].left \in 1..MAPPING_TTL
           /\ mapping'[o].account = mapping[o].account
           /\ mapping'[o].left = mapping[o].left - 1
    <2> SUFFICES ASSUME NEW o \in OpaqueId \ extended, Resolves(o)'
                 PROVE  /\ Resolves(o)
                        /\ mapping[o].left \in 1..MAPPING_TTL
                        /\ mapping'[o].account = mapping[o].account
                        /\ mapping'[o].left = mapping[o].left - 1
      OBVIOUS
    <2>1. Resolves(o) /\ mapping[o].left # 0
      BY <1>1, TickEntries
    <2>2. mapping[o].left \in 1..MAPPING_TTL /\ mapping[o].left # Forever
      BY <1>1, <2>1, DefaultLife, NoneAssumption DEF TimeInv
    <2>3. QED
      BY <1>1, <2>1, <2>2, TickEntries
  <1>5. DrawnInv' /\ RevokedInv' /\ TimeInv'
    <2>1. \A o \in OpaqueId : Resolves(o)' => Resolves(o)
      BY <1>1, TickEntries
    <2>2. DrawnInv'
      BY <1>1, <1>2, <2>1 DEF DrawnInv
    <2>3. \A g \in Handler : handler[g].pc \in {"listing", "merging"} =>
             handler[g].ids \subseteq OpaqueId
      BY <1>1, HandlerShape DEF Updating
    <2>4. RevokedInv'
      BY <1>1, <1>2, <2>1, <2>3 DEF RevokedInv
    <2>5. TimeInv'
      BY <1>2, <1>4, DefaultLife DEF TimeInv
    <2>6. QED
      BY <2>2, <2>4, <2>5
  <1>6. AloneInv'
    BY <1>1, <1>2 DEF AloneInv, WorksOn
  <1>7. ASSUME NEW o \in OpaqueId, NEW k \in Key, Regular(o, k)'
        PROVE  Tracked(o, k)'
    <2>1. /\ Resolves(o) /\ o \notin extended
          /\ mapping[o].left \in 1..MAPPING_TTL
          /\ mapping'[o].account = mapping[o].account
          /\ mapping'[o].left = mapping[o].left - 1
      BY <1>2, <1>4, <1>7 DEF Regular
    <2>2. Tracked(o, k)
      BY <1>1, <1>2, <1>7, <2>1 DEF Regular, TrackedInv
    <2>3. ASSUME LongListed(o, k)
          PROVE  LongListed(o, k)'
      <3>1. PICK list : list = reverse[k]
        OBVIOUS
      <3>2. /\ list \in List /\ list # None /\ o \in list.ids
            /\ mapping[o].left <= list.left
        BY <1>1, <2>3, <3>1 DEF LongListed, TypeOK
      <3>3. list.left \in Nat /\ list.left \notin {0, Forever}
        BY <2>1, <3>2, DefaultLife, NoneAssumption DEF List
      <3>4. Older(list) = [list EXCEPT !.left = @ - 1]
        BY <3>2, <3>3, OlderEntry
      <3>5. /\ Older(list) \in List
            /\ Older(list).ids = list.ids
            /\ Older(list).left = list.left - 1
        BY <3>2, <3>3, <3>4, DefaultLife DEF List
      <3>6. reverse'[k] = Older(list) /\ Older(list) # None
        BY <1>2, <3>1, <3>5, NoneAssumption
      <3>7. QED
        BY <2>1, <3>2, <3>3, <3>5, <3>6, DefaultLife DEF LongListed
    <2>4. \A g \in Handler : Carries(g, o, k) => Carries(g, o, k)'
      BY <1>2, <2>3 DEF Carries
    <2>5. QED
      BY <1>2, <2>2, <2>3, <2>4 DEF Tracked, Settled, WorksOn
  <1>8. QED
    BY <1>3, <1>5, <1>6, <1>7 DEF IInv, TrackedInv

-----------------------------------------------------------------------------
(* Ids keep their account                                                  *)

\* The ids were all drawn for accounts that have the real id of key k.
Owned(own, ids, k) == \A o \in ids : own[o] # None /\ k \in Lists[own[o]]

CallOwned(own, c) ==
    /\ c.pc = "revoke" => \A k \in c.lists : Owned(own, {c.id}, k)
    /\ c.pc = "extend" => own[c.id] = c.account
    /\ c.pc \in {"listing", "merging"} => \A k \in c.lists : Owned(own, c.ids, k)
    /\ c.pc = "merging" => \A k \in c.lists : Owned(own, c.seen[k], k)
    /\ c.pc \in {"deleting", "dropping"} => Owned(own, c.ids, c.key)

\* What entries, lists and calls say about an id agrees with whom it was drawn for.
OwnerInv ==
    /\ \A o \in OpaqueId : Resolves(o) => owner[o] = mapping[o].account
    /\ \A k \in Key : Owned(owner, ListOf(k), k)
    /\ \A h \in Handler : CallOwned(owner, handler[h])

\* An id that has an account keeps it.
LEMMA OwnerStays ==
    ASSUME [Next]_vars
    PROVE  \A o \in OpaqueId : owner[o] # None => owner'[o] = owner[o]
  <1>1. ASSUME NEW h \in Handler, NEW a \in Account, CreateMappings(h, a)
        PROVE  \A o \in OpaqueId : owner[o] # None => owner'[o] = owner[o]
    <2>1. PICK ids \in SUBSET (OpaqueId \ drawn) :
             owner' = [o \in OpaqueId |-> IF o \in ids THEN a ELSE owner[o]]
      BY <1>1 DEF CreateMappings
    <2>2. QED
      BY <2>1 DEF drawn
  <1>2. \/ \E h \in Handler, a \in Account : CreateMappings(h, a)
        \/ owner' = owner
    BY DEF Next, vars, ResolveToRevoke, ResolveToExtend, DeleteMapping,
       ExtendMapping, ReadLists, WriteList, FindAll, DeleteAll, DropList, Tick
  <1>3. QED
    BY <1>1, <1>2

LEMMA OwnedStays ==
    ASSUME [Next]_vars, NEW ids \in SUBSET OpaqueId, NEW k, Owned(owner, ids, k)
    PROVE  Owned(owner', ids, k)
  BY OwnerStays DEF Owned

\* One call turns to something about ids of its real ids, or ends.
LEMMA CallsOwned ==
    ASSUME TypeOK, OwnerInv, [Next]_vars, NEW h \in Handler, NEW c, Turns(h, c),
           CallOwned(owner', c)
    PROVE  \A g \in Handler : CallOwned(owner', handler'[g])
  <1> SUFFICES ASSUME NEW g \in Handler, g # h
               PROVE  CallOwned(owner', handler[g])
    BY TurnsFacts
  <1>1. handler[g] \in Working \cup {Idle} /\ handler[g].lists \in SUBSET Key
    BY HandlerShape
  <1>2. CallOwned(owner, handler[g])
    BY DEF OwnerInv
  <1>3. CASE handler[g] \in Updating
    <2>1. /\ handler[g].pc \in {"listing", "merging"}
          /\ handler[g].ids \in SUBSET OpaqueId
          /\ \A k \in handler[g].lists : handler[g].seen[k] \in SUBSET OpaqueId
      BY <1>1, <1>3 DEF Updating
    <2>2. \A k \in handler[g].lists : Owned(owner', handler[g].ids, k)
      BY <1>2, <2>1, OwnedStays DEF CallOwned
    <2>3. handler[g].pc = "merging" =>
             \A k \in handler[g].lists : Owned(owner', handler[g].seen[k], k)
      BY <1>2, <2>1, OwnedStays DEF CallOwned
    <2>4. QED
      BY <2>1, <2>2, <2>3 DEF CallOwned
  <1>4. CASE handler[g] \in Revoking
    <2>1. handler[g].pc = "revoke" /\ {handler[g].id} \in SUBSET OpaqueId
      BY <1>4 DEF Revoking
    <2>2. QED
      BY <1>2, <2>1, OwnedStays DEF CallOwned
  <1>5. CASE handler[g] \in Extending
    <2>1. /\ handler[g].pc = "extend" /\ handler[g].id \in OpaqueId
          /\ handler[g].account # None
      BY <1>5, NoneAssumption DEF Extending
    <2>2. QED
      BY <1>2, <2>1, OwnerStays DEF CallOwned
  <1>6. CASE handler[g] \in Sweeping
    <2>1. /\ handler[g].pc \in {"deleting", "dropping"}
          /\ handler[g].ids \in SUBSET OpaqueId
      BY <1>6, SweepShape
    <2>2. QED
      BY <1>2, <2>1, OwnedStays DEF CallOwned
  <1>7. CASE handler[g] = Idle
    BY <1>7 DEF CallOwned, Idle
  <1>8. QED
    BY <1>1, <1>3, <1>4, <1>5, <1>6, <1>7 DEF Working

\* Lists that are no longer than they were name ids of their real id yet.
LEMMA ListsOwned ==
    ASSUME OwnerInv, [Next]_vars, TypeOK,
           \A k \in Key :
             \/ reverse'[k] = None
             \/ reverse'[k].ids \subseteq ListOf(k)
             \/ Owned(owner', reverse'[k].ids, k)
    PROVE  \A k \in Key : Owned(owner', ListOf(k)', k)
  <1> SUFFICES ASSUME NEW k \in Key, reverse'[k] # None,
                      reverse'[k].ids \subseteq ListOf(k)
               PROVE  Owned(owner', reverse'[k].ids, k)
    BY DEF ListOf, Owned
  <1>1. Owned(owner, ListOf(k), k) /\ ListOf(k) \in SUBSET OpaqueId
    BY EntryShape DEF OwnerInv
  <1>2. Owned(owner', ListOf(k), k)
    BY <1>1, OwnedStays
  <1>3. QED
    BY <1>2 DEF Owned

\* So do the entries.
LEMMA EntriesOwned ==
    ASSUME OwnerInv, [Next]_vars, TypeOK, NEW o \in OpaqueId, Resolves(o)',
           Resolves(o), mapping'[o].account = mapping[o].account
    PROVE  owner'[o] = mapping'[o].account
  BY EntryShape, OwnerStays, NoneAssumption DEF OwnerInv

LEMMA InitOwnerInv == Init => OwnerInv
  <1> SUFFICES ASSUME Init PROVE OwnerInv
    OBVIOUS
  <1>1. \A k \in Key : ListOf(k) = {}
    BY DEF Init, ListOf
  <1>2. \A h \in Handler : handler[h].pc = "idle"
    BY DEF Init, Idle
  <1>3. QED
    BY <1>1, <1>2 DEF Init, OwnerInv, Resolves, Owned, CallOwned

LEMMA CreateMappingsOwnerInv ==
    ASSUME TypeOK, OwnerInv, [Next]_vars,
           NEW h \in Handler, NEW a \in Account, CreateMappings(h, a)
    PROVE  OwnerInv'
  <1>1. PICK ids \in SUBSET (OpaqueId \ drawn) :
           /\ Cardinality(ids) = 2
           /\ owner' = [o \in OpaqueId |-> IF o \in ids THEN a ELSE owner[o]]
           /\ mapping' = [o \in OpaqueId |->
                            IF o \in ids THEN ForwardEntry(a, MAPPING_TTL)
                            ELSE mapping[o]]
           /\ handler' = [handler EXCEPT ![h] = Listing("create", ids, Lists[a])]
    BY DEF CreateMappings
  <1>2. /\ ids \in (SUBSET OpaqueId) \ {{}} /\ Lists[a] \in (SUBSET Key) \ {{}}
        /\ reverse' = reverse /\ a # None
    <2>1. ids \in (SUBSET OpaqueId) \ {{}}
      BY <1>1, FS_EmptySet
    <2>2. QED
      BY <2>1, ListsShape, NoneAssumption DEF CreateMappings
  <1> DEFINE c == Listing("create", ids, Lists[a])
  <1>3. /\ c \in Updating
        /\ c.pc = "listing" /\ c.lists = Lists[a] /\ c.ids = ids
    BY <1>2, NewListing
  <1>4. Turns(h, c)
    BY <1>1, <1>3 DEF Turns, Working
  <1> HIDE DEF c
  <1>5. CallOwned(owner', c)
    BY <1>1, <1>2, <1>3 DEF CallOwned, Owned
  <1>6. \A g \in Handler : CallOwned(owner', handler'[g])
    BY <1>4, <1>5, CallsOwned
  <1>7. \A k \in Key : Owned(owner', ListOf(k)', k)
    BY <1>2, ListsOwned DEF ListOf
  <1>8. ASSUME NEW o \in OpaqueId, Resolves(o)'
        PROVE  owner'[o] = mapping'[o].account
    <2>1. CASE o \in ids
      BY <1>1, <2>1, NewEntry, DefaultLife
    <2>2. CASE o \notin ids
      BY <1>1, <1>8, <2>2, EntriesOwned DEF Resolves
    <2>3. QED
      BY <2>1, <2>2
  <1>9. QED
    BY <1>6, <1>7, <1>8 DEF OwnerInv

LEMMA ResolveToRevokeOwnerInv ==
    ASSUME TypeOK, OwnerInv, [Next]_vars, NEW h \in Handler, NEW i \in OpaqueId,
           ResolveToRevoke(h, i)
    PROVE  OwnerInv'
  <1>1. PICK a \in Account : a = mapping[i].account
    BY EntryShape DEF ResolveToRevoke
  <1> DEFINE c == [pc |-> "revoke", id |-> i, lists |-> Lists[a]]
  <1>2. /\ Resolves(i)
        /\ mapping' = mapping /\ reverse' = reverse /\ owner' = owner
        /\ handler' = [handler EXCEPT ![h] = c]
    BY <1>1 DEF ResolveToRevoke
  <1>3. c \in Revoking /\ c.pc = "revoke" /\ c.lists = Lists[a] /\ c.id = i
    BY ListsShape DEF Revoking
  <1>4. Turns(h, c)
    BY <1>2, <1>3 DEF Turns, Working
  <1> HIDE DEF c
  <1>5. CallOwned(owner', c)
    BY <1>1, <1>2, <1>3, NoneAssumption DEF CallOwned, Owned, OwnerInv
  <1>6. \A g \in Handler : CallOwned(owner', handler'[g])
    BY <1>4, <1>5, CallsOwned
  <1>7. \A k \in Key : Owned(owner', ListOf(k)', k)
    BY <1>2, ListsOwned DEF ListOf
  <1>8. QED
    BY <1>2, <1>6, <1>7 DEF OwnerInv, Resolves

LEMMA ResolveToExtendOwnerInv ==
    ASSUME TypeOK, OwnerInv, [Next]_vars, NEW h \in Handler, NEW i \in OpaqueId,
           ResolveToExtend(h, i)
    PROVE  OwnerInv'
  <1>1. PICK a \in Account : a = mapping[i].account
    BY EntryShape DEF ResolveToExtend
  <1> DEFINE c == [pc |-> "extend", id |-> i, account |-> a, lists |-> {}]
  <1>2. /\ Resolves(i)
        /\ mapping' = mapping /\ reverse' = reverse /\ owner' = owner
        /\ handler' = [handler EXCEPT ![h] = c]
    BY <1>1 DEF ResolveToExtend
  <1>3. c \in Extending /\ c.pc = "extend" /\ c.account = a /\ c.id = i
    BY DEF Extending
  <1>4. Turns(h, c)
    BY <1>2, <1>3 DEF Turns, Working
  <1> HIDE DEF c
  <1>5. CallOwned(owner', c)
    BY <1>1, <1>2, <1>3 DEF CallOwned, OwnerInv
  <1>6. \A g \in Handler : CallOwned(owner', handler'[g])
    BY <1>4, <1>5, CallsOwned
  <1>7. \A k \in Key : Owned(owner', ListOf(k)', k)
    BY <1>2, ListsOwned DEF ListOf
  <1>8. QED
    BY <1>2, <1>6, <1>7 DEF OwnerInv, Resolves

LEMMA FindAllOwnerInv ==
    ASSUME TypeOK, OwnerInv, [Next]_vars, NEW h \in Handler, NEW key \in Key,
           FindAll(h, key)
    PROVE  OwnerInv'
  <1> DEFINE c == [pc |-> "deleting", key |-> key, ids |-> ListOf(key),
                   lists |-> {key}]
  <1>1. /\ mapping' = mapping /\ reverse' = reverse /\ owner' = owner
        /\ handler' = [handler EXCEPT ![h] = c]
        /\ ListOf(key) \in (SUBSET OpaqueId) \ {{}}
    BY EntryShape DEF FindAll
  <1>2. c.pc = "deleting" /\ c.key = key /\ c.ids = ListOf(key)
    OBVIOUS
  <1>3. Turns(h, c)
    BY <1>1, NewSweep DEF Turns, Working
  <1> HIDE DEF c
  <1>4. CallOwned(owner', c)
    BY <1>1, <1>2 DEF CallOwned, OwnerInv
  <1>5. \A g \in Handler : CallOwned(owner', handler'[g])
    BY <1>3, <1>4, CallsOwned
  <1>6. \A k \in Key : Owned(owner', ListOf(k)', k)
    BY <1>1, ListsOwned DEF ListOf
  <1>7. QED
    BY <1>1, <1>5, <1>6 DEF OwnerInv, Resolves

LEMMA DeleteMappingOwnerInv ==
    ASSUME TypeOK, OwnerInv, [Next]_vars, NEW h \in Handler, DeleteMapping(h)
    PROVE  OwnerInv'
  <1>1. PICK ks, i : ks = handler[h].lists /\ i = handler[h].id
    OBVIOUS
  <1> DEFINE c == Listing("revoke", {i}, ks)
  <1>2. /\ handler[h].pc = "revoke"
        /\ mapping' = [mapping EXCEPT ![i] = None]
        /\ reverse' = reverse /\ owner' = owner
        /\ handler' = [handler EXCEPT ![h] = c]
    BY <1>1 DEF DeleteMapping
  <1>3. ks \in (SUBSET Key) \ {{}} /\ i \in OpaqueId
    BY <1>1, <1>2, HandlerShape DEF Revoking
  <1>4. c \in Updating /\ c.pc = "listing" /\ c.lists = ks /\ c.ids = {i}
    BY <1>3, NewRevocation
  <1>5. Turns(h, c)
    BY <1>2, <1>4 DEF Turns, Working
  <1> HIDE DEF c
  <1>6. CallOwned(owner', c)
    BY <1>1, <1>2, <1>4 DEF CallOwned, OwnerInv
  <1>7. \A g \in Handler : CallOwned(owner', handler'[g])
    BY <1>5, <1>6, CallsOwned
  <1>8. \A k \in Key : Owned(owner', ListOf(k)', k)
    BY <1>2, ListsOwned DEF ListOf
  <1>9. QED
    BY <1>2, <1>7, <1>8 DEF OwnerInv, Resolves, TypeOK

LEMMA ExtendMappingOwnerInv ==
    ASSUME TypeOK, OwnerInv, [Next]_vars, NEW h \in Handler, ExtendMapping(h)
    PROVE  OwnerInv'
  <1>1. PICK a, i : a = handler[h].account /\ i = handler[h].id
    OBVIOUS
  <1>2. /\ handler[h].pc = "extend"
        /\ reverse' = reverse /\ owner' = owner
        /\ handler' = [handler EXCEPT ![h] = Idle]
    BY DEF ExtendMapping
  <1>0. PICK ttl \in ExtraTtl \cup {MAPPING_TTL} :
           mapping' = [mapping EXCEPT ![i] = ForwardEntry(a, ttl)]
    BY <1>1 DEF ExtendMapping
  <1>3. a \in Account /\ i \in OpaqueId
    BY <1>1, <1>2, HandlerShape DEF Extending
  <1>4. owner[i] = a
    BY <1>1, <1>2 DEF OwnerInv, CallOwned
  <1>5. Turns(h, Idle) /\ CallOwned(owner', Idle)
    BY <1>2 DEF Turns, CallOwned, Idle
  <1>6. \A g \in Handler : CallOwned(owner', handler'[g])
    BY <1>5, CallsOwned
  <1>7. \A k \in Key : Owned(owner', ListOf(k)', k)
    BY <1>2, ListsOwned DEF ListOf
  <1>8. \A o \in OpaqueId : Resolves(o)' => owner'[o] = mapping'[o].account
    <2>1. ForwardEntry(a, ttl).account = a
      BY <1>3, NewEntry, MappingAssumption
    <2>2. QED
      BY <1>0, <1>2, <1>3, <1>4, <2>1 DEF OwnerInv, Resolves, TypeOK
  <1>9. QED
    BY <1>6, <1>7, <1>8 DEF OwnerInv

LEMMA ReadListsOwnerInv ==
    ASSUME TypeOK, OwnerInv, [Next]_vars, NEW h \in Handler, ReadLists(h)
    PROVE  OwnerInv'
  <1>1. PICK seen :
           seen = [k \in Key |-> IF WorksOn(h, k) THEN ListOf(k) ELSE {}]
    OBVIOUS
  <1> DEFINE c == [handler[h] EXCEPT !.pc = "merging", !.seen = seen]
  <1>2. /\ handler[h].pc = "listing"
        /\ handler' = [handler EXCEPT ![h] = c]
        /\ mapping' = mapping /\ reverse' = reverse /\ owner' = owner
    <2>1. handler' = [handler EXCEPT ![h].pc = "merging", ![h].seen = seen]
      BY <1>1 DEF ReadLists
    <2>2. handler' = [handler EXCEPT ![h] = c]
      BY <2>1 DEF TypeOK
    <2>3. QED
      BY <2>2 DEF ReadLists
  <1>3. handler[h] \in Updating /\ handler[h].lists \in SUBSET Key
    BY <1>2, HandlerShape
  <1>4. /\ c \in Updating
        /\ c.pc = "merging" /\ c.lists = handler[h].lists
        /\ c.ids = handler[h].ids /\ c.seen = seen
    <2>1. seen \in [Key -> SUBSET OpaqueId]
      BY <1>1, EntryShape
    <2>2. QED
      BY <1>3, <2>1 DEF Updating
  <1> HIDE DEF c
  <1>5. Turns(h, c)
    BY <1>2, <1>4 DEF Turns, Working
  <1>6. CallOwned(owner', c)
    <2>1. \A k \in c.lists : c.seen[k] = ListOf(k) /\ k \in Key
      BY <1>1, <1>3, <1>4 DEF WorksOn
    <2>2. \A k \in c.lists : Owned(owner, c.ids, k)
      BY <1>2, <1>4 DEF OwnerInv, CallOwned
    <2>3. QED
      BY <1>2, <1>4, <2>1, <2>2 DEF CallOwned, OwnerInv
  <1>7. \A g \in Handler : CallOwned(owner', handler'[g])
    BY <1>5, <1>6, CallsOwned
  <1>8. \A k \in Key : Owned(owner', ListOf(k)', k)
    BY <1>2, ListsOwned DEF ListOf
  <1>9. QED
    BY <1>2, <1>7, <1>8 DEF OwnerInv, Resolves

LEMMA WriteListOwnerInv ==
    ASSUME TypeOK, OwnerInv, [Next]_vars, NEW h \in Handler, NEW key \in Key,
           WriteList(h, key)
    PROVE  OwnerInv'
  <1> DEFINE ks == handler[h].lists
             list == NewList(h, key)
             c == Rest(handler[h], ks \ {key})
  <1>2. /\ handler[h].pc = "merging"
        /\ key \in ks
        /\ handler' = [handler EXCEPT ![h] = c]
        /\ mapping' = mapping /\ owner' = owner
    BY DEF WriteList, WorksOn, TypeOK
  <1>3. handler[h] \in Updating
    BY <1>2, HandlerShape
  <1>4. list \in SUBSET OpaqueId /\ Owned(owner', list, key)
    BY <1>2, <1>3 DEF NewList, OwnerInv, CallOwned, Owned, Updating
  <1>5. ASSUME NEW k \in Key, reverse'[k] # None
        PROVE  \/ reverse'[k].ids \subseteq ListOf(k)
               \/ Owned(owner', reverse'[k].ids, k)
    <2>1. CASE k = key /\ list # {}
      <3>1. reverse'[k] = ListEntry(list)
        BY <2>1 DEF WriteList, TypeOK
      <3>2. reverse'[k].ids = list
        BY <1>4, <2>1, <3>1, NewListEntry
      <3>3. QED
        BY <1>4, <2>1, <3>2
    <2>2. CASE k # key \/ list = {}
      <3>1. reverse'[k] = reverse[k]
        BY <1>5, <2>2 DEF WriteList, TypeOK
      <3>2. QED
        BY <1>5, <3>1 DEF ListOf
    <2>3. QED
      BY <2>1, <2>2
  <1>6. \A k \in Key : Owned(owner', ListOf(k)', k)
    BY <1>5, ListsOwned
  <1>7. /\ c \in Updating \cup {Idle}
        /\ c.lists = ks \ {key}
        /\ c # Idle => /\ c.pc = "merging"
                       /\ c.ids = handler[h].ids /\ c.seen = handler[h].seen
    <2>1. ks \ {key} \subseteq handler[h].lists
      OBVIOUS
    <2>2. QED
      BY <1>2, <2>1, RestOfCall
  <1> HIDE DEF c
  <1>8. Turns(h, c)
    BY <1>2, <1>7 DEF Turns, Working
  <1>9. CallOwned(owner', c)
    <2>1. CASE c = Idle
      BY <2>1 DEF CallOwned, Idle
    <2>2. CASE c # Idle
      BY <1>2, <1>7, <2>2 DEF CallOwned, OwnerInv
    <2>3. QED
      BY <2>1, <2>2
  <1>10. \A g \in Handler : CallOwned(owner', handler'[g])
    BY <1>8, <1>9, CallsOwned
  <1>11. QED
    BY <1>2, <1>6, <1>10 DEF OwnerInv, Resolves

LEMMA DeleteAllOwnerInv ==
    ASSUME TypeOK, OwnerInv, [Next]_vars, NEW h \in Handler, DeleteAll(h)
    PROVE  OwnerInv'
  <1> DEFINE c == [handler[h] EXCEPT !.pc = "dropping"]
  <1>1. /\ handler[h].pc = "deleting"
        /\ handler' = [handler EXCEPT ![h] = c]
        /\ mapping' = [o \in OpaqueId |->
                         IF o \in handler[h].ids THEN None ELSE mapping[o]]
        /\ reverse' = reverse /\ owner' = owner
    BY DEF DeleteAll, TypeOK
  <1>2. handler[h] \in Sweeping
    BY <1>1, HandlerShape
  <1>3. /\ c \in Sweeping /\ c.pc = "dropping"
        /\ c.key = handler[h].key /\ c.ids = handler[h].ids
    <2>1. c \in Sweeping
      BY <1>2, SweepShape
    <2>2. QED
      BY <1>2, <2>1 DEF Sweeping
  <1> HIDE DEF c
  <1>4. Turns(h, c)
    BY <1>1, <1>3 DEF Turns, Working
  <1>5. CallOwned(owner', c)
    BY <1>1, <1>3 DEF CallOwned, OwnerInv
  <1>6. \A g \in Handler : CallOwned(owner', handler'[g])
    BY <1>4, <1>5, CallsOwned
  <1>7. \A k \in Key : Owned(owner', ListOf(k)', k)
    BY <1>1, ListsOwned DEF ListOf
  <1>8. \A o \in OpaqueId : Resolves(o)' => owner'[o] = mapping'[o].account
    BY <1>1 DEF OwnerInv, Resolves
  <1>9. QED
    BY <1>6, <1>7, <1>8 DEF OwnerInv

LEMMA DropListOwnerInv ==
    ASSUME TypeOK, OwnerInv, [Next]_vars, NEW h \in Handler, DropList(h)
    PROVE  OwnerInv'
  <1>1. PICK key : key = handler[h].key
    OBVIOUS
  <1>2. /\ handler[h].pc = "dropping"
        /\ handler' = [handler EXCEPT ![h] = Idle]
        /\ reverse' = [reverse EXCEPT ![key] = None]
        /\ mapping' = mapping /\ owner' = owner
    BY <1>1 DEF DropList
  <1>3. ASSUME NEW k \in Key
        PROVE  reverse'[k] = None \/ reverse'[k] = reverse[k]
    BY <1>2 DEF TypeOK
  <1>4. \A k \in Key : Owned(owner', ListOf(k)', k)
    BY <1>3, ListsOwned DEF ListOf
  <1>5. Turns(h, Idle) /\ CallOwned(owner', Idle)
    BY <1>2 DEF Turns, CallOwned, Idle
  <1>6. \A g \in Handler : CallOwned(owner', handler'[g])
    BY <1>5, CallsOwned
  <1>7. QED
    BY <1>2, <1>4, <1>6 DEF OwnerInv, Resolves

LEMMA TickOwnerInv ==
    ASSUME TypeOK, OwnerInv, [Next]_vars, Tick
    PROVE  OwnerInv'
  <1>1. /\ reverse' = [k \in Key |-> Older(reverse[k])]
        /\ handler' = handler /\ owner' = owner
    BY DEF Tick
  <1>2. ASSUME NEW k \in Key, reverse'[k] # None
        PROVE  reverse'[k].ids \subseteq ListOf(k)
    <2>1. PICK list \in List \cup {None} : list = reverse[k]
      BY DEF TypeOK
    <2>2. Older(list) # None /\ reverse'[k] = Older(list)
      BY <1>1, <1>2, <2>1
    <2>3. list # None /\ list.left # 0
      BY <2>2 DEF Older
    <2>4. Older(list).ids = list.ids
      BY <2>1, <2>3, OlderEntry DEF List
    <2>5. QED
      BY <2>1, <2>2, <2>3, <2>4 DEF ListOf
  <1>3. \A k \in Key : Owned(owner', ListOf(k)', k)
    BY <1>2, ListsOwned
  <1>4. \A o \in OpaqueId : Resolves(o)' => owner'[o] = mapping'[o].account
    BY <1>1, TickEntries DEF OwnerInv
  <1>5. QED
    BY <1>1, <1>3, <1>4 DEF OwnerInv

LEMMA NextOwnerInv == TypeOK /\ OwnerInv /\ [Next]_vars => OwnerInv'
  <1> SUFFICES ASSUME TypeOK, OwnerInv, [Next]_vars PROVE OwnerInv'
    OBVIOUS
  <1>1. CASE UNCHANGED vars
    BY <1>1 DEF vars, OwnerInv, Resolves, ListOf
  <1>2. CASE Next
    BY <1>2, CreateMappingsOwnerInv, ResolveToRevokeOwnerInv,
       ResolveToExtendOwnerInv, FindAllOwnerInv, DeleteMappingOwnerInv,
       ExtendMappingOwnerInv, ReadListsOwnerInv, WriteListOwnerInv,
       DeleteAllOwnerInv, DropListOwnerInv, TickOwnerInv
       DEF Next
  <1>3. QED
    BY <1>1, <1>2

-----------------------------------------------------------------------------
(* The refinement of OpaqueIds                                             *)

\* A step that leaves the entries alone.
LEMMA SameLife ==
    ASSUME mapping' = mapping
    PROVE  Life' = Life
  BY DEF Life, Resolves

\* A call that is not a revocation of a real id remains none.
LEMMA SameSweeps ==
    ASSUME TypeOK, NEW h \in Handler, NEW c, Turns(h, c),
           SweepOf(c) = SweepOf(handler[h])
    PROVE  Sweeps' = Sweeps
  BY TurnsFacts DEF Sweeps

LEMMA NextSweep ==
    ASSUME TypeOK, NEW h \in Handler, NEW c, Turns(h, c)
    PROVE  Sweeps' = [Sweeps EXCEPT ![h] = SweepOf(c)]
  BY TurnsFacts DEF Sweeps

LEMMA EnterMeets ==
    ASSUME NEW h \in Handler, NEW ks, Enter(h, ks)
    PROVE  Ids!Meet(ks)
  <1> DEFINE met == {k \in ks : \E g \in Handler \ {h} : WorksOn(g, k)}
  <1>1. met \in SUBSET ks /\ overlapped' = overlapped \cup met
    BY DEF Enter
  <1> HIDE DEF met
  <1>2. QED
    BY <1>1 DEF Ids!Meet

LEMMA InitImplements == Init => Ids!Init
  BY DEF Init, Ids!Init, Life, Sweeps, SweepOf, Resolves, Idle

\* The instance counts as this module does.
LEMMA SameCardinality == \A S : Ids!Cardinality(S) = Cardinality(S)
  BY Zenon DEF Ids!Cardinality, Cardinality

LEMMA CreateMappingsDraws ==
    ASSUME TypeOK, NEW h \in Handler, NEW a \in Account, CreateMappings(h, a)
    PROVE  Ids!Draw(a)
  <1>1. PICK ids \in SUBSET (OpaqueId \ drawn) :
           /\ Cardinality(ids) = 2
           /\ owner' = [o \in OpaqueId |-> IF o \in ids THEN a ELSE owner[o]]
           /\ mapping' = [o \in OpaqueId |->
                            IF o \in ids THEN ForwardEntry(a, MAPPING_TTL)
                            ELSE mapping[o]]
           /\ handler' = [handler EXCEPT ![h] = Listing("create", ids, Lists[a])]
    BY DEF CreateMappings
  <1>2. ids \in SUBSET {o \in OpaqueId : owner[o] = None}
    BY <1>1 DEF drawn
  <1>3. Life' = [o \in OpaqueId |-> IF o \in ids THEN MAPPING_TTL ELSE Life[o]]
    BY <1>1, NewEntry, DefaultLife DEF Life, Resolves
  <1>4. Sweeps' = Sweeps
    <2> DEFINE c == Listing("create", ids, Lists[a])
    <2>0. ids \in (SUBSET OpaqueId) \ {{}}
      BY <1>1, FS_EmptySet
    <2>1. c \in Updating /\ c.pc = "listing"
      BY <2>0, NewListing, ListsShape
    <2>2. Turns(h, c)
      BY <1>1, <2>1 DEF Turns, Working
    <2> HIDE DEF c
    <2>3. SweepOf(c) = None /\ SweepOf(handler[h]) = None
      BY <2>1 DEF SweepOf, CreateMappings, Idle
    <2>4. QED
      BY <2>2, <2>3, SameSweeps
  <1>5. Ids!Meet(Lists[a])
    BY EnterMeets DEF CreateMappings
  <1>6. \E new \in SUBSET {o \in OpaqueId : owner[o] = None} :
           /\ Cardinality(new) = 2
           /\ owner' = [o \in OpaqueId |-> IF o \in new THEN a ELSE owner[o]]
           /\ Life' = [o \in OpaqueId |->
                         IF o \in new THEN MAPPING_TTL ELSE Life[o]]
    BY <1>1, <1>2, <1>3
  <1>7. QED
    BY <1>4, <1>5, <1>6, SameCardinality DEF Ids!Draw, CreateMappings

LEMMA ResolveToRevokeTouches ==
    ASSUME TypeOK, NEW h \in Handler, NEW i \in OpaqueId, ResolveToRevoke(h, i)
    PROVE  \E a \in Account : Ids!Touch(a)
  <1>1. PICK a \in Account : a = mapping[i].account
    BY EntryShape DEF ResolveToRevoke
  <1> DEFINE c == [pc |-> "revoke", id |-> i, lists |-> Lists[a]]
  <1>2. c \in Revoking /\ c.pc = "revoke" /\ handler' = [handler EXCEPT ![h] = c]
    BY <1>1, ListsShape DEF Revoking, ResolveToRevoke
  <1>3. Turns(h, c)
    BY <1>2 DEF Turns, Working
  <1> HIDE DEF c
  <1>4. SweepOf(c) = SweepOf(handler[h])
    BY <1>2 DEF SweepOf, ResolveToRevoke, Idle
  <1>5. Sweeps' = Sweeps /\ Life' = Life
    BY <1>3, <1>4, SameSweeps, SameLife DEF ResolveToRevoke
  <1>6. Ids!Meet(Lists[a])
    BY <1>1, EnterMeets DEF ResolveToRevoke
  <1>7. QED
    BY <1>5, <1>6 DEF Ids!Touch, ResolveToRevoke

LEMMA FindAllBegins ==
    ASSUME TypeOK, NEW h \in Handler, NEW key \in Key, FindAll(h, key)
    PROVE  Ids!BeginSweep(h, key)
  <1> DEFINE c == [pc |-> "deleting", key |-> key, ids |-> ListOf(key),
                   lists |-> {key}]
  <1>1. ListOf(key) \in (SUBSET OpaqueId) \ {{}}
    BY EntryShape DEF FindAll
  <1>2. Turns(h, c)
    BY <1>1, NewSweep DEF Turns, Working, FindAll
  <1>3. SweepOf(c) = [key |-> key, done |-> FALSE]
    BY DEF SweepOf
  <1> HIDE DEF c
  <1>4. Sweeps' = [Sweeps EXCEPT ![h] = [key |-> key, done |-> FALSE]]
    BY <1>2, <1>3, NextSweep
  <1>5. Sweeps[h] = None
    BY DEF Sweeps, SweepOf, FindAll, Idle
  <1>6. Ids!Meet({key}) /\ Life' = Life
    BY EnterMeets, SameLife DEF FindAll
  <1>7. QED
    BY <1>4, <1>5, <1>6 DEF Ids!BeginSweep, FindAll

LEMMA DeleteMappingRevokes ==
    ASSUME TypeOK, DrawnInv, NEW h \in Handler, DeleteMapping(h)
    PROVE  \E i \in OpaqueId : Ids!Revoke(i)
  <1>1. PICK ks, i : ks = handler[h].lists /\ i = handler[h].id
    OBVIOUS
  <1>2. /\ handler[h].pc = "revoke"
        /\ mapping' = [mapping EXCEPT ![i] = None]
        /\ handler' = [handler EXCEPT ![h] = Listing("revoke", {i}, ks)]
    BY <1>1 DEF DeleteMapping
  <1>3. ks \in (SUBSET Key) \ {{}} /\ i \in OpaqueId
    BY <1>1, <1>2, HandlerShape DEF Revoking
  <1>4. owner[i] # None
    BY <1>1, <1>2 DEF DrawnInv, drawn
  <1>5. Life' = [Life EXCEPT ![i] = None]
    BY <1>2, <1>3 DEF Life, Resolves, TypeOK
  <1>6. Sweeps' = Sweeps
    <2> DEFINE c == Listing("revoke", {i}, ks)
    <2>1. c \in Updating /\ c.pc = "listing"
      BY <1>3, NewRevocation
    <2>2. Turns(h, c)
      BY <1>2, <2>1 DEF Turns, Working
    <2> HIDE DEF c
    <2>3. SweepOf(c) = SweepOf(handler[h])
      BY <1>2, <2>1 DEF SweepOf
    <2>4. QED
      BY <2>2, <2>3, SameSweeps
  <1>7. QED
    BY <1>3, <1>4, <1>5, <1>6 DEF Ids!Revoke, DeleteMapping

LEMMA ExtendMappingExtends ==
    ASSUME TypeOK, DrawnInv, NEW h \in Handler, ExtendMapping(h)
    PROVE  \E i \in OpaqueId : Ids!Extend(i)
  <1>1. PICK a, i : a = handler[h].account /\ i = handler[h].id
    OBVIOUS
  <1>2. /\ handler[h].pc = "extend"
        /\ extended' = extended \cup {i}
        /\ handler' = [handler EXCEPT ![h] = Idle]
    BY <1>1 DEF ExtendMapping
  <1>0. PICK ttl \in ExtraTtl \cup {MAPPING_TTL} :
           mapping' = [mapping EXCEPT ![i] = ForwardEntry(a, ttl)]
    BY <1>1 DEF ExtendMapping
  <1>3. a \in Account /\ i \in OpaqueId
    BY <1>1, <1>2, HandlerShape DEF Extending
  <1>4. owner[i] # None
    BY <1>1, <1>2 DEF DrawnInv, drawn
  <1>5. Life' = [Life EXCEPT ![i] = Lasting(ttl)]
    <2>1. ForwardEntry(a, ttl) # None /\ ForwardEntry(a, ttl).left = Lasting(ttl)
      BY <1>3, NewEntry, MappingAssumption
    <2>2. QED
      BY <1>0, <1>3, <2>1 DEF Life, Resolves, TypeOK
  <1>6. Turns(h, Idle) /\ SweepOf(Idle) = SweepOf(handler[h])
    BY <1>2 DEF Turns, SweepOf, Idle
  <1>7. Sweeps' = Sweeps
    BY <1>6, SameSweeps
  <1>8. \E more \in {Lasting(t) : t \in ExtraTtl \cup {MAPPING_TTL}} :
           Life' = [Life EXCEPT ![i] = more]
    BY <1>5
  <1>9. QED
    BY <1>2, <1>3, <1>4, <1>7, <1>8 DEF Ids!Extend, ExtendMapping

\* What a call does to the lists nobody sees, nor that it will extend an id.
LEMMA Unseen ==
    ASSUME TypeOK, NEW h \in Handler, NEW o \in OpaqueId, NEW key \in Key,
           ReadLists(h) \/ WriteList(h, key) \/ ResolveToExtend(h, o)
    PROVE  UNCHANGED Ids!vars
  <1>1. Life' = Life
    BY SameLife DEF ReadLists, WriteList, ResolveToExtend
  <1>2. CASE ReadLists(h)
    <2> DEFINE seen == [k \in Key |-> IF WorksOn(h, k) THEN ListOf(k) ELSE {}]
               c == [handler[h] EXCEPT !.pc = "merging", !.seen = seen]
    <2>1. handler[h].pc = "listing" /\ handler[h] \in Updating
      BY <1>2, HandlerShape DEF ReadLists
    <2>2. handler' = [handler EXCEPT ![h] = c]
      BY <1>2 DEF ReadLists, TypeOK
    <2>3. seen \in [Key -> SUBSET OpaqueId]
      BY EntryShape
    <2> HIDE DEF seen
    <2>4. c \in Updating /\ c.pc = "merging"
      BY <2>1, <2>3 DEF Updating
    <2> HIDE DEF c
    <2>5. Turns(h, c) /\ SweepOf(c) = SweepOf(handler[h])
      BY <2>1, <2>2, <2>4 DEF Turns, Working, SweepOf
    <2>6. Sweeps' = Sweeps
      BY <2>5, SameSweeps
    <2>7. QED
      BY <1>1, <1>2, <2>6 DEF Ids!vars, ReadLists
  <1>3. CASE WriteList(h, key)
    <2> DEFINE ks == handler[h].lists \ {key}
               c == Rest(handler[h], ks)
    <2>1. handler[h].pc = "merging" /\ handler' = [handler EXCEPT ![h] = c]
      BY <1>3 DEF WriteList, TypeOK
    <2>2. ks \subseteq handler[h].lists
      OBVIOUS
    <2>3. c \in Updating \cup {Idle} /\ (c # Idle => c.pc = "merging")
      BY <2>1, <2>2, RestOfCall
    <2> HIDE DEF c
    <2>4. Turns(h, c) /\ SweepOf(c) = SweepOf(handler[h])
      BY <2>1, <2>3 DEF Turns, Working, SweepOf, Idle
    <2>5. Sweeps' = Sweeps
      BY <2>4, SameSweeps
    <2>6. QED
      BY <1>1, <1>3, <2>5 DEF Ids!vars, WriteList
  <1>4. CASE ResolveToExtend(h, o)
    <2> DEFINE c == [pc |-> "extend", id |-> o, account |-> mapping[o].account,
                     lists |-> {}]
    <2>1. c \in Extending /\ handler' = [handler EXCEPT ![h] = c]
      BY <1>4, EntryShape DEF ResolveToExtend, Extending
    <2>2. SweepOf(c) = SweepOf(handler[h])
      BY <1>4 DEF SweepOf, ResolveToExtend, Idle
    <2> HIDE DEF c
    <2>3. Sweeps' = Sweeps
      BY <2>1, <2>2, SameSweeps DEF Turns, Working
    <2>4. QED
      BY <1>1, <1>4, <2>3 DEF Ids!vars, ResolveToExtend
  <1>5. QED
    BY <1>2, <1>3, <1>4

\* A revocation deletes the entries of the ids on the list it has read: of no
\* account without the real id, and of all accounts with it but for the two
\* exceptions.
LEMMA DeleteAllTakes ==
    ASSUME IInv, OwnerInv, NEW h \in Handler, handler[h].pc = "deleting"
    PROVE  /\ handler[h].ids \in SUBSET OpaqueId
           /\ Ids!Takes(handler[h].ids, handler[h].key)
  <1> DEFINE k == handler[h].key
             ids == handler[h].ids
  <1>1. TypeOK /\ handler[h] \in Sweeping
    BY HandlerShape DEF IInv
  <1>2. ids \in SUBSET OpaqueId /\ k \in Key /\ WorksOn(h, k)
    BY <1>1, SweepShape DEF WorksOn
  <1>3. \A o \in ids : Ids!Has(o, k)
    BY <1>1 DEF OwnerInv, CallOwned, Owned, Ids!Has
  <1>4. ASSUME NEW o \in OpaqueId \ ids, Ids!Has(o, k), Life[o] # None
        PROVE  o \in extended \/ k \in overlapped
    <2>1. Resolves(o) /\ k \in Lists[mapping[o].account]
      BY <1>4 DEF Life, OwnerInv, Ids!Has
    <2>2. SUFFICES ASSUME Regular(o, k) PROVE FALSE
      BY <2>1 DEF Regular
    <2>3. Tracked(o, k)
      BY <1>2, <2>2 DEF IInv, TrackedInv
    <2>4. QED
      BY <1>2, <1>4, <2>3 DEF Tracked, Carries
  <1>5. QED
    BY <1>2, <1>3, <1>4 DEF Ids!Takes

LEMMA DeleteAllSweeps ==
    ASSUME IInv, OwnerInv, NEW h \in Handler, DeleteAll(h)
    PROVE  Ids!Sweep(h)
  <1> DEFINE k == handler[h].key
             c == [handler[h] EXCEPT !.pc = "dropping"]
  <1>1. /\ TypeOK
        /\ handler[h].pc = "deleting"
        /\ handler' = [handler EXCEPT ![h] = c]
        /\ mapping' = [o \in OpaqueId |->
                         IF o \in handler[h].ids THEN None ELSE mapping[o]]
    BY DEF IInv, DeleteAll, TypeOK
  <1>2. handler[h] \in Sweeping /\ k \in Key
    BY <1>1, HandlerShape, SweepShape
  <1>3. c \in Sweeping /\ c.pc = "dropping" /\ c.key = k
    <2>1. c \in Sweeping
      BY <1>2, SweepShape
    <2>2. QED
      BY <1>2, <2>1 DEF Sweeping
  <1> HIDE DEF c
  <1>4. Turns(h, c) /\ SweepOf(c) = [key |-> k, done |-> TRUE]
    BY <1>1, <1>3 DEF Turns, Working, SweepOf
  <1>5. Sweeps[h] = [key |-> k, done |-> FALSE] /\ Sweeps[h] \in Revocation
    BY <1>1, <1>2 DEF Sweeps, SweepOf, Revocation
  <1>6. Sweeps[h] # None /\ ~Sweeps[h].done /\ Sweeps[h].key = k
    <2>1. Sweeps[h] # None
      BY <1>5, NoneAssumption
    <2>2. QED
      BY <1>5, <2>1
  <1>7. Sweeps' = [Sweeps EXCEPT ![h] = [key |-> k, done |-> TRUE]]
    BY <1>1, <1>4, NextSweep
  <1>8. Life' = [o \in OpaqueId |->
                   IF o \in handler[h].ids THEN None ELSE Life[o]]
    BY <1>1 DEF Life, Resolves
  <1>9. /\ handler[h].ids \in SUBSET OpaqueId
        /\ Ids!Takes(handler[h].ids, k)
    BY <1>1, DeleteAllTakes
  <1>10. QED
    BY <1>6, <1>7, <1>8, <1>9 DEF Ids!Sweep, DeleteAll

LEMMA DropListEnds ==
    ASSUME TypeOK, NEW h \in Handler, DropList(h)
    PROVE  Ids!EndSweep(h)
  <1> DEFINE k == handler[h].key
  <1>1. handler[h].pc = "dropping" /\ k \in Key
    BY HandlerShape, SweepShape DEF DropList
  <1>2. Sweeps[h] = [key |-> k, done |-> TRUE] /\ Sweeps[h] \in Revocation
    BY <1>1 DEF Sweeps, SweepOf, Revocation
  <1>3. Sweeps[h] # None /\ Sweeps[h].done
    <2>1. Sweeps[h] # None
      BY <1>2, NoneAssumption
    <2>2. QED
      BY <1>2, <2>1
  <1>4. Turns(h, Idle) /\ SweepOf(Idle) = None
    BY DEF Turns, DropList, SweepOf, Idle
  <1>5. Sweeps' = [Sweeps EXCEPT ![h] = None]
    BY <1>4, NextSweep
  <1>6. Life' = Life
    BY SameLife DEF DropList
  <1>7. QED
    BY <1>3, <1>5, <1>6 DEF Ids!EndSweep, DropList

LEMMA TickAges ==
    ASSUME TypeOK, Tick
    PROVE  Ids!Age
  <1>1. ASSUME NEW o \in OpaqueId
        PROVE  Life'[o] = IF Life[o] \in {None, 0} THEN None
                          ELSE IF Life[o] = Forever THEN Forever
                          ELSE Life[o] - 1
    <2>1. CASE Resolves(o)
      <3>1. mapping[o].left # None /\ Forever # 0
        BY <2>1, EntryShape, NoneAssumption
      <3>2. QED
        BY <2>1, <3>1, TickEntries DEF Life
    <2>2. CASE ~Resolves(o)
      BY <2>2, TickEntries DEF Life
    <2>3. QED
      BY <2>1, <2>2
  <1>2. Life' = [o \in OpaqueId |-> IF Life[o] \in {None, 0} THEN None
                                    ELSE IF Life[o] = Forever THEN Forever
                                    ELSE Life[o] - 1]
    BY <1>1 DEF Life
  <1>3. QED
    BY <1>2 DEF Ids!Age, Tick, Sweeps

LEMMA NextImplements == IInv /\ OwnerInv /\ [Next]_vars => [Ids!Next]_(Ids!vars)
  <1> SUFFICES ASSUME IInv, OwnerInv, [Next]_vars PROVE [Ids!Next]_(Ids!vars)
    OBVIOUS
  <1>1. TypeOK /\ DrawnInv
    BY DEF IInv
  <1>2. ASSUME NEW h \in Handler, NEW a \in Account, CreateMappings(h, a)
        PROVE  Ids!Next
    BY <1>1, <1>2, CreateMappingsDraws DEF Ids!Next
  <1>3. ASSUME NEW h \in Handler, NEW o \in OpaqueId, ResolveToRevoke(h, o)
        PROVE  Ids!Next
    BY <1>1, <1>3, ResolveToRevokeTouches DEF Ids!Next
  <1>4. ASSUME NEW h \in Handler, NEW k \in Key, FindAll(h, k)
        PROVE  Ids!Next
    BY <1>1, <1>4, FindAllBegins DEF Ids!Next
  <1>5. ASSUME NEW h \in Handler, DeleteMapping(h) \/ ExtendMapping(h)
        PROVE  Ids!Next
    BY <1>1, <1>5, DeleteMappingRevokes, ExtendMappingExtends DEF Ids!Next
  <1>6. ASSUME NEW h \in Handler, DeleteAll(h) \/ DropList(h)
        PROVE  Ids!Next
    BY <1>1, <1>6, DeleteAllSweeps, DropListEnds DEF Ids!Next
  <1>7. CASE Tick
    BY <1>1, <1>7, TickAges DEF Ids!Next
  <1>8. ASSUME NEW h \in Handler, NEW o \in OpaqueId, ResolveToExtend(h, o)
        PROVE  UNCHANGED Ids!vars
    <2>1. PICK k \in Key : TRUE
      BY <1>1, <1>8, EntryShape, ListsShape DEF ResolveToExtend
    <2>2. QED
      BY <1>1, <1>8, <2>1, Unseen
  <1>9. ASSUME NEW h \in Handler, ReadLists(h)
        PROVE  UNCHANGED Ids!vars
    <2>1. PICK o \in OpaqueId, k \in Key : TRUE
      BY <1>1, <1>9, HandlerShape DEF ReadLists, Updating
    <2>2. QED
      BY <1>1, <1>9, <2>1, Unseen
  <1>10. ASSUME NEW h \in Handler, NEW k \in Key, WriteList(h, k)
         PROVE  UNCHANGED Ids!vars
    <2>1. PICK o \in OpaqueId : TRUE
      BY <1>1, <1>10, HandlerShape DEF WriteList, Updating
    <2>2. QED
      BY <1>1, <1>10, <2>1, Unseen
  <1>11. CASE UNCHANGED vars
    BY <1>11 DEF vars, Ids!vars, Life, Sweeps, Resolves
  <1>12. QED
    BY <1>2, <1>3, <1>4, <1>5, <1>6, <1>7, <1>8, <1>9, <1>10, <1>11 DEF Next

-----------------------------------------------------------------------------
(* The theorems                                                            *)

LEMMA NextIInv == IInv /\ [Next]_vars => IInv'
  <1> SUFFICES ASSUME IInv, [Next]_vars PROVE IInv'
    OBVIOUS
  <1>1. ASSUME NEW h \in Handler, NEW a \in Account, CreateMappings(h, a)
        PROVE  IInv'
    BY <1>1, CreateMappingsIInv
  <1>2. ASSUME NEW h \in Handler, NEW o \in OpaqueId,
               ResolveToRevoke(h, o) \/ ResolveToExtend(h, o)
        PROVE  IInv'
    BY <1>2, ResolveToRevokeIInv, ResolveToExtendIInv
  <1>3. ASSUME NEW h \in Handler, NEW k \in Key, FindAll(h, k) \/ WriteList(h, k)
        PROVE  IInv'
    BY <1>3, FindAllIInv, WriteListIInv
  <1>4. ASSUME NEW h \in Handler,
               \/ DeleteMapping(h) \/ ExtendMapping(h) \/ ReadLists(h)
               \/ DeleteAll(h) \/ DropList(h)
        PROVE  IInv'
    BY <1>4, DeleteMappingIInv, ExtendMappingIInv, ReadListsIInv,
       DeleteAllIInv, DropListIInv
  <1>5. CASE Tick
    BY <1>5, TickIInv
  <1>6. CASE UNCHANGED vars
    BY <1>6 DEF vars, IInv, TypeOK, TimeInv, DrawnInv, RevokedInv, AloneInv,
       TrackedInv, Regular, Tracked, LongListed, Carries, Settled, WorksOn,
       Resolves, drawn
  <1>7. QED
    BY <1>1, <1>2, <1>3, <1>4, <1>5, <1>6 DEF Next

\* The inductive invariant holds in every state the mappings reach: an id without
\* an exception is tracked on the list of each of its real ids, whichever tokens
\* share it.
THEOREM InductiveInvariant == Spec => []IInv
  <1>1. QED
    BY InitIInv, NextIInv, PTL DEF Spec

\* Every variable has its type in every reachable state; no list is empty.
THEOREM TypeCorrect == Spec => []TypeOK
  <1>1. IInv => TypeOK
    BY DEF IInv
  <1>2. QED
    BY InductiveInvariant, <1>1, PTL

\* However many tokens share a real id: an opaque id that still resolves is on the
\* list of each of its real ids once no call is at work there (but for the two
\* exceptions).
THEOREM ListCompleteHolds == Spec => []ListComplete
  <1>1. IInv => ListComplete
    <2> SUFFICES ASSUME IInv, NEW o \in OpaqueId \ extended, Resolves(o),
                        NEW k \in Lists[mapping[o].account] \ overlapped, Settled(k)
                 PROVE  o \in ListOf(k)
      BY DEF ListComplete
    <2>1. k \in Key
      BY EntryShape, ListsShape DEF IInv
    <2>2. LongListed(o, k)
      BY <2>1 DEF IInv, TrackedInv, Regular, Tracked
    <2>3. QED
      BY <2>2 DEF LongListed, ListOf
  <1>2. QED
    BY InductiveInvariant, <1>1, PTL

\* When revokeMappingsByRealId returns no opaque id of that real id resolves any
\* more, of whichever of the tokens that have it (but for the two exceptions).
THEOREM RevocationCompleteHolds == Spec => RevocationComplete
  <1>1. IInv /\ [Next]_vars =>
          [\A h \in Handler :
             /\ DropList(h)
             /\ handler[h].key \notin overlapped
             => \A o \in OpaqueId \ extended : Resolves(o) =>
                  handler[h].key \notin Lists[mapping[o].account]]_vars
    BY DropListRevokes DEF Regular
  <1>2. QED
    BY InductiveInvariant, <1>1, PTL DEF Spec, RevocationComplete

\* Whatever the entries, the lists and the calls at work say about an id agrees
\* with the account it was drawn for: no revocation reaches another real id.
THEOREM OwnersAgree == Spec => []OwnerInv
  <1>1. IInv /\ OwnerInv /\ [Next]_vars => OwnerInv'
    BY NextOwnerInv DEF IInv
  <1>2. QED
    BY InductiveInvariant, InitOwnerInv, <1>1, PTL DEF Spec

\* The service with its separate reads and writes of lists that tokens share, at
\* work on any number of calls, behaves as the one that takes all the opaque ids
\* of a real id at once.
THEOREM OpaqueIdsImplemented == Spec => ImplementsOpaqueIds
  <1>1. QED
    BY InductiveInvariant, OwnersAgree, InitImplements, NextImplements, PTL
    DEF Spec, ImplementsOpaqueIds, Ids!Spec

=============================================================================
