------------------------------ MODULE CrudProofs ------------------------------
(***************************************************************************)
(* What holds of CrudService and PaginationService in every reachable      *)
(* state, for any number of documents, walks and bulk deletions.  Both     *)
(* invariants compare a call in progress with what it saw when it began,   *)
(* under the condition that nothing was removed since, or amended: then    *)
(* the active documents of that time are there still, as they were.        *)
(***************************************************************************)
EXTENDS Crud, FiniteSetTheorems, TLAPS

NumbersOK ==
    now \in Nat /\ calls \in Nat /\ removals \in Nat /\ amendments \in Nat

DocsOK ==
    /\ docs \in [Doc -> Record \cup {None}]
    /\ \A d \in Doc : Exists(d) =>
          /\ docs[d].at <= now
          /\ docs[d].deleted # None => docs[d].deleted \in docs[d].at .. now

TxnOK ==
    /\ txn \in [at : 0 .. now, ids : SUBSET Doc] \cup {None}
    /\ \A d \in InTxn : ~Exists(d)

Walking == [pc : {"find", "count", "done"}, page : Nat, size : PageSize,
            given : BOOLEAN, seen : SUBSET Doc, owed : SUBSET Doc,
            since : 0 .. removals]

Deleting == [pc : {"checked", "done", "failed"}, ids : Ids, filtered : BOOLEAN,
             soft : BOOLEAN, validated : BOOLEAN,
             since : 0 .. removals, amended : 0 .. amendments]

WalksOK ==
    /\ walk = [w \in Walker |-> walk[w]]
    /\ \A w \in Walker : walk[w] # Idle => walk[w] \in Walking

BulksOK ==
    /\ bulk = [b \in Bulk |-> bulk[b]]
    /\ \A b \in Bulk : bulk[b] # Idle => bulk[b] \in Deleting

\* The documents that come before d in every order of a query.
Newer(d) == {e \in ActiveDocs : docs[e].at > docs[d].at}

\* The pages that a walk has been through.
Passed(w) == IF walk[w].pc = "find" THEN SafePage(walk[w].page) - 1
                                    ELSE SafePage(walk[w].page)

\* What a walk that nothing was removed from owes to a document it began with.
Owes(w, d) ==
    /\ Active(d)
    /\ OwnTime(d) /\ d \notin walk[w].seen =>
          /\ walk[w].pc # "done"
          /\ Cardinality(Newer(d)) >= Passed(w) * walk[w].size
          /\ walk[w].pc = "count" => walk[w].size # 0

WalkHonest ==
    \A w \in Walker : walk[w] # Idle /\ walk[w].since = removals =>
        \A d \in walk[w].owed : Owes(w, d)

\* Different ids, all of active documents that meet the filters.
AllThere(ids, filtered) ==
    /\ \A d \in Range(ids) : d \in ActiveDocs /\ Meets(d, filtered)
    /\ Cardinality(Range(ids)) = Len(ids)

\* No other call has come between.
Undisturbed(b) ==
    /\ bulk[b].since = removals
    /\ bulk[b].filtered => bulk[b].amended = amendments

BulkHonest ==
    \A b \in Bulk : bulk[b] # Idle /\ ~bulk[b].validated =>
        /\ bulk[b].pc = "checked" /\ Undisturbed(b)
              => AllThere(bulk[b].ids, bulk[b].filtered)
        /\ bulk[b].pc = "failed" =>
              \/ removals > bulk[b].since + 1
              \/ bulk[b].filtered /\ amendments > bulk[b].amended

IInv == /\ NumbersOK /\ DocsOK /\ TxnOK /\ WalksOK /\ BulksOK
        /\ WalkHonest /\ BulkHonest

\* Nothing was removed: what was active is so, and of the same age.
Grows ==
    /\ removals' = removals
    /\ \A d \in Doc : Active(d) => Active(d)' /\ docs'[d].at = docs[d].at

\* Nothing was amended: what stays active meets the filters as before.
Steady ==
    /\ amendments' = amendments
    /\ \A d \in Doc : Active(d) /\ Active(d)' => docs'[d].meets = docs[d].meets

-----------------------------------------------------------------------------
(* The collection                                                          *)

LEMMA NotRecords ==
    /\ None \notin Record /\ None \notin [at : Nat, ids : SUBSET Doc]
    /\ None \notin Nat
  BY CrudNoneAssumption, CrudAssumption

\* The documents keep their types while others are created now or with the
\* time of the transaction.
LEMMA Created ==
    ASSUME NumbersOK, DocsOK, now' = now, NEW t \in 0 .. now, NEW s \in SUBSET Doc,
           \A d \in s : ~Exists(d),
           docs' = [d \in Doc |-> IF d \in s THEN NewDocument(t) ELSE docs[d]]
    PROVE  DocsOK' /\ \A d \in Doc : Exists(d) => docs'[d] = docs[d]
  <1>1. NewDocument(t) \in Record /\ NewDocument(t).at = t /\ NewDocument(t).deleted = None
    BY DEF NewDocument, Record, NumbersOK
  <1>2. docs' \in [Doc -> Record \cup {None}]
    BY <1>1 DEF DocsOK
  <1>3. \A d \in Doc : Exists(d) => docs'[d] = docs[d]
    OBVIOUS
  <1>4. ASSUME NEW d \in Doc, Exists(d)'
        PROVE  /\ docs'[d].at <= now
               /\ docs'[d].deleted # None => docs'[d].deleted \in docs'[d].at .. now
    <2>1. CASE d \in s
      BY <1>1, <2>1
    <2>2. CASE d \notin s
      BY <1>4, <2>2 DEF DocsOK, Exists
    <2> QED
      BY <2>1, <2>2
  <1> QED
    BY <1>2, <1>3, <1>4 DEF DocsOK, Record

LEMMA Hidden ==
    ASSUME NumbersOK, DocsOK, now' = now, NEW s \in SUBSET Doc, docs' = Hide(s)
    PROVE  /\ DocsOK'
           /\ \A d \in Doc : Exists(d)' <=> Exists(d)
           /\ \A d \in Doc : Exists(d) /\ ~Active(d) => docs'[d].deleted # None
           /\ \A d \in Doc : Exists(d) => docs'[d].meets = docs[d].meets
  <1> USE NotRecords
  <1>1. ASSUME NEW d \in Doc, d \in s, Exists(d)
        PROVE  /\ docs'[d] \in Record /\ docs'[d].at = docs[d].at
               /\ docs'[d].deleted = now /\ docs'[d].meets = docs[d].meets
    <2>1. docs[d] \in Record
      BY <1>1 DEF DocsOK, Exists
    <2>2. docs'[d] = [docs[d] EXCEPT !.deleted = now]
      BY <1>1 DEF Hide
    <2> QED
      BY <2>1, <2>2 DEF Record, NumbersOK
  <1>2. ASSUME NEW d \in Doc, ~(d \in s /\ Exists(d))
        PROVE  docs'[d] = docs[d]
    BY <1>2 DEF Hide
  <1>3. docs' = [d \in Doc |-> docs'[d]]
    BY DEF Hide
  <1>4. docs' \in [Doc -> Record \cup {None}]
    <2>1. \A d \in Doc : docs'[d] \in Record \cup {None}
      BY <1>1, <1>2 DEF DocsOK
    <2> QED
      BY <1>3, <2>1
  <1>5. \A d \in Doc : Exists(d)' <=> Exists(d)
    BY <1>1, <1>2 DEF Exists
  <1>6. ASSUME NEW d \in Doc, Exists(d)
        PROVE  /\ docs'[d].at <= now
               /\ docs'[d].deleted # None => docs'[d].deleted \in docs'[d].at .. now
    <2>1. CASE d \in s
      <3>1. docs[d].at \in Nat /\ docs[d].at <= now
        BY <1>6 DEF DocsOK, Exists, Record
      <3> QED
        BY <1>1, <1>6, <2>1, <3>1 DEF NumbersOK
    <2>2. CASE d \notin s
      BY <1>2, <1>6, <2>2 DEF DocsOK
    <2> QED
      BY <2>1, <2>2
  <1>7. ASSUME NEW d \in Doc, Exists(d), ~Active(d)
        PROVE  docs'[d].deleted # None
    BY <1>1, <1>2, <1>7 DEF Active, NumbersOK
  <1>8. \A d \in Doc : Exists(d) => docs'[d].meets = docs[d].meets
    BY <1>1, <1>2
  <1> QED
    BY <1>4, <1>5, <1>6, <1>7, <1>8 DEF DocsOK, Record

LEMMA Erased ==
    ASSUME DocsOK, now' = now, NEW s, docs' = Erase(s)
    PROVE  /\ DocsOK'
           /\ \A d \in Doc : docs'[d] \in {docs[d], None}
  BY DEF DocsOK, Erase, Exists, Record

\* The transaction keeps its type while no document of it is created.
LEMMA TxnKept ==
    ASSUME TxnOK, UNCHANGED <<now, txn>>, \A d \in Doc : Exists(d)' => Exists(d)
    PROVE  TxnOK'
  BY DEF TxnOK, InTxn

-----------------------------------------------------------------------------
(* Each action: types, and what is removed                                 *)

CollectionStep ==
    \/ \E s \in SUBSET Doc : s # {} /\ (Create(s) \/ BeginTransaction(s))
    \/ Commit \/ Abort
    \/ \E s \in SUBSET Doc, v \in BOOLEAN : Update(s, v)
    \/ \E d \in Doc : SoftDelete(d) \/ RestoreById(d) \/ DeleteOne(d)

\* What is deleted stays so, and what is removed or amended is counted.
Proper ==
    /\ Grows \/ removals' = removals + 1
    /\ Steady \/ (amendments' = amendments + 1 /\ removals' = removals)
    /\ \A d \in Doc : Exists(d) /\ ~Active(d) /\ docs'[d] # None => docs'[d].deleted # None

LEMMA CreateProper ==
    ASSUME NumbersOK, DocsOK, TxnOK, NEW s \in SUBSET Doc, Create(s) \/ BeginTransaction(s)
    PROVE  NumbersOK' /\ DocsOK' /\ TxnOK' /\ Proper
  <1>1. NumbersOK'
    BY CrudAssumption DEF Create, BeginTransaction, Call, NumbersOK
  <1>2. CASE Create(s)
    <2>1. DocsOK' /\ \A d \in Doc : Exists(d) => docs'[d] = docs[d]
      BY <1>2, Created DEF Create, Fresh, NumbersOK
    <2>2. TxnOK'
      BY <1>2, NotRecords DEF Create, Fresh, TxnOK, InTxn, Exists
    <2>3. Proper
      BY <1>2, <2>1 DEF Create, Proper, Grows, Steady, Active, Exists
    <2> QED
      BY <1>1, <2>1, <2>2, <2>3
  <1>3. CASE BeginTransaction(s)
    <2>1. UNCHANGED <<now, docs, removals, amendments>> /\ txn' = [at |-> now, ids |-> s]
      BY <1>3 DEF BeginTransaction
    <2>2. DocsOK' /\ Proper
      BY <2>1 DEF DocsOK, Exists, Proper, Grows, Steady, Active, Record
    <2>3. now \in 0 .. now
      BY DEF NumbersOK
    <2>4. txn' \in [at : 0 .. now, ids : SUBSET Doc]
      BY <2>1, <2>3
    <2>5. TxnOK'
      BY <1>3, <2>1, <2>4, NotRecords DEF TxnOK, InTxn, Exists, BeginTransaction, Fresh
    <2> QED
      BY <1>1, <2>2, <2>5
  <1> QED
    BY <1>2, <1>3

LEMMA CommitProper ==
    ASSUME NumbersOK, DocsOK, TxnOK, Commit \/ Abort
    PROVE  NumbersOK' /\ DocsOK' /\ TxnOK' /\ Proper
  <1>1. NumbersOK' /\ txn' = None
    BY DEF Commit, Abort, NumbersOK
  <1>2. TxnOK'
    BY <1>1 DEF TxnOK, InTxn
  <1>3. CASE Commit
    <2>1. txn.at \in 0 .. now /\ InTxn \in SUBSET Doc /\ \A d \in InTxn : ~Exists(d)
      BY <1>3 DEF Commit, TxnOK, InTxn
    <2>2. DocsOK' /\ \A d \in Doc : Exists(d) => docs'[d] = docs[d]
      BY <1>3, <2>1, Created DEF Commit
    <2>3. Proper
      BY <1>3, <2>2 DEF Commit, Proper, Grows, Steady, Active, Exists
    <2> QED
      BY <1>1, <1>2, <2>2, <2>3
  <1>4. CASE Abort
    <2>1. DocsOK' /\ Proper
      BY <1>4 DEF Abort, DocsOK, Exists, Proper, Grows, Steady, Active, Record
    <2> QED
      BY <1>1, <1>2, <2>1
  <1> QED
    BY <1>3, <1>4

LEMMA DeleteOneProper ==
    ASSUME NumbersOK, DocsOK, TxnOK, NEW d \in Doc,
           SoftDelete(d) \/ RestoreById(d) \/ DeleteOne(d)
    PROVE  NumbersOK' /\ DocsOK' /\ TxnOK' /\ Proper
  <1>1. NumbersOK' /\ UNCHANGED <<now, txn, amendments>>
    BY CrudAssumption DEF SoftDelete, RestoreById, DeleteOne, Call, NumbersOK
  <1>2. CASE SoftDelete(d)
    <2>1. docs' = Hide({d}) /\ removals' = removals + 1
      BY <1>2 DEF SoftDelete
    <2>2. /\ DocsOK' /\ \A e \in Doc : Exists(e)' <=> Exists(e)
          /\ \A e \in Doc : Exists(e) /\ ~Active(e) => docs'[e].deleted # None
          /\ \A e \in Doc : Exists(e) => docs'[e].meets = docs[e].meets
      BY <1>1, <2>1, Hidden
    <2>3. Steady
      BY <1>1, <2>2 DEF Steady, Active
    <2>4. TxnOK'
      BY <1>1, <2>2, TxnKept
    <2> QED
      BY <1>1, <2>1, <2>2, <2>3, <2>4 DEF Proper
  <1>3. CASE RestoreById(d)
    <2>1. docs[d] \in Record /\ docs[d].deleted = None
      BY <1>3 DEF RestoreById, Active, Exists, DocsOK
    <2>2. [docs[d] EXCEPT !.deleted = None] = docs[d]
      BY <2>1 DEF Record
    <2>3. docs' = docs /\ removals' = removals
      BY <1>3, <2>2 DEF RestoreById, DocsOK
    <2>4. DocsOK'
      BY <1>1, <2>3 DEF DocsOK, Exists, Record
    <2>5. Grows /\ Steady
      BY <1>1, <2>3 DEF Grows, Steady, Active, Exists
    <2>6. TxnOK'
      BY <1>1, <2>3, TxnKept DEF Exists
    <2>7. Proper
      BY <2>3, <2>5 DEF Proper, Active
    <2> QED
      BY <1>1, <2>4, <2>6, <2>7
  <1>4. CASE DeleteOne(d)
    <2>1. docs' = Erase({d}) /\ removals' = removals + 1
      BY <1>4 DEF DeleteOne
    <2>2. DocsOK' /\ \A e \in Doc : docs'[e] \in {docs[e], None}
      BY <1>1, <2>1, Erased
    <2>3. Steady
      BY <1>1, <2>2 DEF Steady, Active, Exists
    <2>4. TxnOK'
      BY <1>1, <2>2, TxnKept DEF Exists
    <2> QED
      BY <1>1, <2>1, <2>2, <2>3, <2>4 DEF Proper, Active, Exists
  <1> QED
    BY <1>2, <1>3, <1>4

\* An update leaves alone what is deleted and when it was created.
LEMMA UpdateProper ==
    ASSUME NumbersOK, DocsOK, TxnOK, NEW s \in SUBSET Doc, NEW v \in BOOLEAN, Update(s, v)
    PROVE  NumbersOK' /\ DocsOK' /\ TxnOK' /\ Proper
  <1>1. /\ UNCHANGED <<now, txn, removals>> /\ amendments' = amendments + 1
        /\ NumbersOK'
    BY CrudAssumption DEF Update, Call, NumbersOK
  <1>2. ASSUME NEW d \in Doc, Exists(d)
        PROVE  /\ docs'[d] \in Record /\ docs'[d].at = docs[d].at
               /\ docs'[d].deleted = docs[d].deleted
    <2>1. docs[d] \in Record
      BY <1>2 DEF DocsOK, Exists
    <2>2. docs'[d] = IF d \in s THEN [docs[d] EXCEPT !.meets = v] ELSE docs[d]
      BY DEF Update
    <2> QED
      BY <2>1, <2>2 DEF Record
  <1>3. ASSUME NEW d \in Doc, ~Exists(d) PROVE docs'[d] = None
    BY <1>3 DEF Update, Exists
  <1>4. \A d \in Doc : Exists(d)' <=> Exists(d)
    BY <1>2, <1>3, NotRecords DEF Exists
  <1>5. docs' \in [Doc -> Record \cup {None}]
    <2>1. \A d \in Doc : docs'[d] \in Record \cup {None}
      BY <1>2, <1>3
    <2>2. docs' = [d \in Doc |-> docs'[d]]
      BY DEF Update
    <2> QED
      BY <2>1, <2>2
  <1>6. DocsOK'
    BY <1>1, <1>2, <1>4, <1>5 DEF DocsOK, Record
  <1>7. Proper
    BY <1>1, <1>2, <1>4 DEF Proper, Grows, Active
  <1> QED
    BY <1>1, <1>4, <1>6, <1>7, TxnKept

\* Every id of a bulk deletion is that of a document there may be.
LEMMA IdsOfDocs ==
    ASSUME NEW ids \in Ids
    PROVE  /\ Range(ids) \in SUBSET Doc /\ Len(ids) \in Nat
           /\ IsFiniteSet(Range(ids)) /\ Cardinality(Range(ids)) <= Len(ids)
  <1>1. PICK n \in 1 .. 2 : ids \in [1 .. n -> Doc]
    BY DEF Ids
  <1>2. n \in Nat /\ Len(ids) = n /\ DOMAIN ids = 1 .. n
    BY <1>1
  <1>3. ids \in Surjection(1 .. n, Range(ids))
    BY <1>1 DEF Surjection, Range
  <1>4. ExistsSurjection(1 .. n, Range(ids))
    BY <1>3 DEF ExistsSurjection
  <1>5. Cardinality(Range(ids)) <= n
    BY <1>2, <1>4, FS_SurjCardinalityBound
  <1>6. IsFiniteSet(1 .. n)
    BY <1>2, FS_Interval
  <1>7. IsFiniteSet(Range(ids))
    BY <1>3, <1>6, FS_Surjection
  <1> QED
    BY <1>1, <1>2, <1>5, <1>7 DEF Range

LEMMA ExecuteBulkProper ==
    ASSUME NumbersOK, DocsOK, TxnOK, BulksOK, NEW b \in Bulk, ExecuteBulk(b)
    PROVE  NumbersOK' /\ DocsOK' /\ TxnOK' /\ Proper
  <1>1. bulk[b] \in Deleting
    BY DEF ExecuteBulk, BulksOK, Idle
  <1>2. PICK s \in SUBSET Doc : s = Targets(bulk[b].ids, bulk[b].filtered)
    BY <1>1, IdsOfDocs DEF Deleting, Targets
  <1>3. /\ docs' = IF bulk[b].soft THEN Hide(s) ELSE Erase(s)
        /\ removals' = removals + 1 /\ UNCHANGED <<now, calls, txn, amendments>>
    BY <1>2 DEF ExecuteBulk
  <1>4. NumbersOK'
    BY <1>3 DEF NumbersOK
  <1>5. CASE docs' = Hide(s)
    BY <1>3, <1>4, <1>5, Hidden, TxnKept DEF Proper, Steady, Active
  <1>6. CASE docs' = Erase(s)
    <2>1. DocsOK' /\ \A e \in Doc : docs'[e] \in {docs[e], None}
      BY <1>3, <1>6, Erased
    <2> QED
      BY <1>3, <1>4, <2>1, TxnKept DEF Proper, Steady, Active, Exists
  <1> QED
    BY <1>3, <1>5, <1>6

\* The time passes.
LEMMA TickProper ==
    ASSUME NumbersOK, DocsOK, TxnOK, Tick
    PROVE  NumbersOK' /\ DocsOK' /\ TxnOK' /\ Proper
  <1>1. now' = now + 1 /\ UNCHANGED <<calls, docs, txn, removals, amendments>> /\ now \in Nat
    BY DEF Tick, NumbersOK
  <1>2. NumbersOK'
    BY <1>1 DEF NumbersOK
  <1>3. DocsOK'
    <2>1. \A d \in Doc : Exists(d) => docs[d].at \in Nat
      BY DEF DocsOK, Exists, Record
    <2> QED
      BY <1>1, <2>1 DEF DocsOK, Exists, Record
  <1>4. TxnOK'
    <2>1. \A n \in 0 .. now : n \in 0 .. now + 1
      BY <1>1
    <2> QED
      BY <1>1, <2>1 DEF TxnOK, InTxn, Exists
  <1> QED
    BY <1>1, <1>2, <1>3, <1>4 DEF Proper, Grows, Steady, Active, Exists

\* The other steps of bulk deletions and walks leave the collection alone.
QuietStep ==
    \/ \E b \in Bulk, ids \in Ids, filtered, soft, validated \in BOOLEAN :
          CheckBulk(b, ids, filtered, soft, validated)
    \/ \E b \in Bulk : LeaveBulk(b)
    \/ \E w \in Walker, page \in {0, 1}, size \in PageSize, given \in BOOLEAN :
          BeginWalk(w, page, size, given)
    \/ \E w \in Walker : FindPage(w) \/ CountTotal(w) \/ LeaveWalk(w) \/ FailToCount(w)

LEMMA QuietProper ==
    ASSUME NumbersOK, DocsOK, TxnOK, QuietStep \/ UNCHANGED vars
    PROVE  NumbersOK' /\ DocsOK' /\ TxnOK' /\ Proper
  <1>1. UNCHANGED <<now, docs, txn, removals, amendments>> /\ calls' \in Nat
    <2>1. ASSUME NEW b \in Bulk, NEW ids \in Ids, NEW filtered \in BOOLEAN,
                 NEW soft \in BOOLEAN, NEW validated \in BOOLEAN,
                 CheckBulk(b, ids, filtered, soft, validated)
          PROVE  UNCHANGED <<now, docs, txn, removals, amendments>> /\ calls' = calls + 1
      BY <2>1 DEF CheckBulk, Call
    <2>2. ASSUME NEW b \in Bulk, LeaveBulk(b)
          PROVE  UNCHANGED <<now, docs, txn, removals, amendments, calls>>
      BY <2>2 DEF LeaveBulk
    <2>3. ASSUME NEW w \in Walker, NEW page \in {0, 1}, NEW size \in PageSize,
                 NEW given \in BOOLEAN, BeginWalk(w, page, size, given)
          PROVE  UNCHANGED <<now, docs, txn, removals, amendments>> /\ calls' = calls + 1
      BY <2>3 DEF BeginWalk, Call
    <2>4. ASSUME NEW w \in Walker,
                 FindPage(w) \/ CountTotal(w) \/ LeaveWalk(w) \/ FailToCount(w)
          PROVE  UNCHANGED <<now, docs, txn, removals, amendments, calls>>
      BY <2>4 DEF FindPage, CountTotal, LeaveWalk, FailToCount
    <2>5. \/ UNCHANGED <<now, docs, txn, removals, amendments>> /\ calls' = calls + 1
          \/ UNCHANGED <<now, docs, txn, removals, amendments, calls>>
      BY <2>1, <2>2, <2>3, <2>4 DEF QuietStep, vars
    <2> QED
      BY <2>5 DEF NumbersOK
  <1>2. NumbersOK' /\ DocsOK' /\ TxnOK'
    BY <1>1 DEF NumbersOK, DocsOK, TxnOK, InTxn, Exists, Record
  <1>3. Proper
    BY <1>1 DEF Proper, Grows, Steady, Active, Exists
  <1> QED
    BY <1>2, <1>3

LEMMA NextProper ==
    ASSUME NumbersOK, DocsOK, TxnOK, BulksOK, [Next]_vars
    PROVE  NumbersOK' /\ DocsOK' /\ TxnOK' /\ Proper
  <1>1. CASE CollectionStep
    BY <1>1, CreateProper, CommitProper, UpdateProper, DeleteOneProper DEF CollectionStep
  <1>2. CASE \E b \in Bulk : ExecuteBulk(b)
    BY <1>2, ExecuteBulkProper
  <1> QED
    BY <1>1, <1>2, TickProper, QuietProper DEF Next, CollectionStep, QuietStep
-----------------------------------------------------------------------------
(* Bulk deletions                                                          *)

BulkOK(b) ==
    bulk[b] # Idle =>
        /\ bulk[b] \in Deleting
        /\ ~bulk[b].validated =>
              /\ bulk[b].pc = "checked" /\ Undisturbed(b)
                    => AllThere(bulk[b].ids, bulk[b].filtered)
              /\ bulk[b].pc = "failed" =>
                    \/ removals > bulk[b].since + 1
                    \/ bulk[b].filtered /\ amendments > bulk[b].amended

\* The histories only grow.
LEMMA Counted ==
    ASSUME NumbersOK, Proper
    PROVE  /\ removals \in Nat /\ removals' \in {removals, removals + 1}
           /\ amendments \in Nat /\ amendments' \in {amendments, amendments + 1}
           /\ 0 .. removals \subseteq 0 .. removals'
           /\ 0 .. amendments \subseteq 0 .. amendments'
  <1>1. /\ removals \in Nat /\ removals' \in {removals, removals + 1}
        /\ amendments \in Nat /\ amendments' \in {amendments, amendments + 1}
    BY DEF Proper, Grows, Steady, NumbersOK
  <1> QED
    BY <1>1

LEMMA BulkKept ==
    ASSUME NumbersOK, Proper, NEW b \in Bulk, BulkOK(b), bulk'[b] = bulk[b]
    PROVE  BulkOK(b)'
  <1> SUFFICES ASSUME bulk[b] # Idle PROVE BulkOK(b)'
    BY DEF BulkOK, Idle
  <1>1. bulk[b] \in Deleting
    BY DEF BulkOK
  <1>2. PICK n \in 0 .. removals : n = bulk[b].since
    BY <1>1 DEF Deleting
  <1>3. PICK m \in 0 .. amendments : m = bulk[b].amended
    BY <1>1 DEF Deleting
  <1>4. (bulk[b] \in Deleting)'
    BY <1>1, Counted DEF Deleting, Ids
  <1>5. Undisturbed(b)' => Undisturbed(b) /\ Grows /\ (bulk[b].filtered => Steady)
    BY <1>2, <1>3, Counted DEF Undisturbed, Proper
  <1>6. ASSUME AllThere(bulk[b].ids, bulk[b].filtered), Grows, bulk[b].filtered => Steady
        PROVE  AllThere(bulk[b].ids, bulk[b].filtered)'
    <2>1. \A d \in Range(bulk[b].ids) : d \in ActiveDocs' /\ Meets(d, bulk[b].filtered)'
      BY <1>6 DEF AllThere, ActiveDocs, Grows, Steady, Meets
    <2> QED
      BY <1>6, <2>1 DEF AllThere, Meets
  <1>7. /\ removals > n + 1 => removals' > n + 1
        /\ amendments > m => amendments' > m
    BY <1>2, <1>3, Counted
  <1> QED
    BY <1>2, <1>3, <1>4, <1>5, <1>6, <1>7 DEF BulkOK

LEMMA CheckBulkOK ==
    ASSUME NumbersOK, BulksOK, NEW b \in Bulk, NEW ids \in Ids, NEW filtered \in BOOLEAN,
           NEW soft \in BOOLEAN, NEW validated \in BOOLEAN,
           CheckBulk(b, ids, filtered, soft, validated)
    PROVE  BulkOK(b)'
  <1> DEFINE r == [pc |-> "checked", ids |-> ids, filtered |-> filtered, soft |-> soft,
                   validated |-> validated, since |-> removals, amended |-> amendments]
  <1>1. /\ bulk'[b] = r /\ UNCHANGED <<docs, removals, amendments>>
        /\ validated \/ AllFound(ids, filtered)
    BY DEF CheckBulk, BulksOK
  <1>2. removals \in 0 .. removals /\ amendments \in 0 .. amendments
    BY DEF NumbersOK
  <1>3. r \in Deleting
    BY <1>2 DEF Deleting
  <1>4. AllFound(ids, filtered) => AllThere(ids, filtered)
    <2> SUFFICES ASSUME AllFound(ids, filtered) PROVE AllThere(ids, filtered)
      OBVIOUS
    <2>1. /\ IsFiniteSet(Range(ids)) /\ Cardinality(Range(ids)) <= Len(ids)
          /\ Len(ids) \in Nat
      BY IdsOfDocs
    <2>2. Cardinality(Found(ids, filtered)) = Len(ids)
      BY DEF AllFound
    <2>3. Cardinality(Range(ids)) \in Nat
      BY <2>1, FS_CardinalityType
    <2>4. Found(ids, filtered) \in SUBSET Range(ids)
      BY DEF Found
    <2>5. /\ Cardinality(Found(ids, filtered)) <= Cardinality(Range(ids))
          /\ Cardinality(Range(ids)) = Cardinality(Found(ids, filtered))
                => Range(ids) = Found(ids, filtered)
      BY <2>1, <2>4, FS_Subset
    <2>6. Cardinality(Range(ids)) = Len(ids)
      BY <2>1, <2>2, <2>3, <2>5
    <2>7. Range(ids) = Found(ids, filtered) /\ Range(ids) \in SUBSET Doc
      BY <2>2, <2>5, <2>6, IdsOfDocs
    <2> QED
      BY <2>6, <2>7 DEF AllThere, Found, ActiveDocs
  <1>5. AllThere(ids, filtered)' <=> AllThere(ids, filtered)
    BY <1>1 DEF AllThere, ActiveDocs, Active, Exists, Meets
  <1>6. /\ r.pc = "checked" /\ r.ids = ids /\ r.validated = validated
        /\ r.filtered = filtered /\ r.pc # "failed"
    OBVIOUS
  <1>7. (bulk[b] \in Deleting)'
    BY <1>1, <1>3 DEF Deleting, Ids
  <1> HIDE DEF r
  <1>8. ~validated => AllThere(ids, filtered)'
    BY <1>1, <1>4, <1>5
  <1> QED
    BY <1>1, <1>6, <1>7, <1>8 DEF BulkOK, AllThere, Meets

LEMMA ExecuteBulkOK ==
    ASSUME NumbersOK, BulksOK, NEW b \in Bulk, BulkOK(b), ExecuteBulk(b)
    PROVE  BulkOK(b)'
  <1>1. bulk[b] \in Deleting /\ bulk[b].pc = "checked" /\ bulk[b] # Idle
    BY DEF ExecuteBulk, BulksOK, Idle
  <1>2. PICK ids \in Ids, filtered \in BOOLEAN :
            ids = bulk[b].ids /\ filtered = bulk[b].filtered
    BY <1>1 DEF Deleting
  <1>3. PICK n \in 0 .. removals, m \in 0 .. amendments :
            n = bulk[b].since /\ m = bulk[b].amended
    BY <1>1 DEF Deleting
  <1>4. PICK a : a = Cardinality(Affected(Targets(ids, filtered), bulk[b].soft))
    OBVIOUS
  <1>5. PICK pc \in {"done", "failed"} :
            bulk'[b] = [bulk[b] EXCEPT !.pc = pc] /\ (pc = "failed" => a # Len(ids))
    BY <1>2, <1>4 DEF ExecuteBulk, BulksOK
  <1>6. /\ bulk'[b] \in Deleting /\ bulk'[b].pc = pc
        /\ bulk'[b].since = n /\ bulk'[b].amended = m
        /\ bulk'[b].filtered = filtered /\ bulk'[b].validated = bulk[b].validated
    BY <1>1, <1>2, <1>3, <1>5 DEF Deleting
  <1>7. /\ removals' = removals + 1 /\ removals \in Nat
        /\ amendments' = amendments /\ amendments \in Nat
    BY DEF ExecuteBulk, NumbersOK
  <1>8. (bulk[b] \in Deleting)'
    <2>1. 0 .. removals \subseteq 0 .. removals'
      BY <1>7
    <2> QED
      BY <1>6, <1>7, <2>1 DEF Deleting, Ids
  <1>9. AllThere(ids, filtered) => a = Len(ids)
    <2> SUFFICES ASSUME AllThere(ids, filtered) PROVE a = Len(ids)
      OBVIOUS
    <2>1. \A d \in Range(ids) :
              Exists(d) /\ Meets(d, filtered) /\ docs[d].deleted # now
      BY NotRecords DEF AllThere, ActiveDocs, Active, NumbersOK
    <2>2. Affected(Targets(ids, filtered), bulk[b].soft) = Range(ids)
      BY <2>1 DEF Affected, Targets
    <2> QED
      BY <1>4, <2>2 DEF AllThere
  <1>10. ASSUME ~bulk[b].validated, pc = "failed"
         PROVE  removals' > n + 1 \/ (filtered /\ amendments' > m)
    <2>1. ~Undisturbed(b)
      BY <1>1, <1>2, <1>5, <1>9, <1>10 DEF BulkOK
    <2>2. n # removals \/ (filtered /\ m # amendments)
      BY <1>2, <1>3, <2>1 DEF Undisturbed
    <2> QED
      BY <1>3, <1>7, <2>2
  <1> QED
    BY <1>6, <1>8, <1>10 DEF BulkOK

\* A step starts or continues at most one bulk deletion.
LEMMA BulkStep ==
    ASSUME NumbersOK, DocsOK, TxnOK, BulksOK, BulkHonest, [Next]_vars
    PROVE  BulksOK' /\ BulkHonest'
  <1>1. Proper
    BY NextProper
  <1>2. \A b \in Bulk : BulkOK(b)
    BY DEF BulksOK, BulkHonest, BulkOK
  <1>3. CASE UNCHANGED bulk
    <2>1. \A b \in Bulk : BulkOK(b)'
      BY <1>1, <1>2, <1>3, BulkKept
    <2> QED
      BY <1>3, <2>1 DEF BulksOK, BulkHonest, BulkOK
  <1>4. ASSUME NEW b \in Bulk, NEW r, bulk' = [bulk EXCEPT ![b] = r], BulkOK(b)'
        PROVE  BulksOK' /\ BulkHonest'
    <2>1. \A c \in Bulk : c # b => bulk'[c] = bulk[c]
      BY <1>4 DEF BulksOK
    <2>2. \A c \in Bulk : BulkOK(c)'
      BY <1>1, <1>2, <1>4, <2>1, BulkKept
    <2>3. bulk' = [c \in Bulk |-> bulk'[c]]
      BY <1>4 DEF BulksOK
    <2> QED
      BY <2>2, <2>3 DEF BulksOK, BulkHonest, BulkOK
  <1>5. ASSUME NEW b \in Bulk, NEW ids \in Ids, NEW filtered \in BOOLEAN,
               NEW soft \in BOOLEAN, NEW validated \in BOOLEAN,
               CheckBulk(b, ids, filtered, soft, validated)
        PROVE  BulksOK' /\ BulkHonest'
    BY <1>4, <1>5, CheckBulkOK DEF CheckBulk
  <1>6. ASSUME NEW b \in Bulk, ExecuteBulk(b)
        PROVE  BulksOK' /\ BulkHonest'
    <2>1. PICK r : bulk' = [bulk EXCEPT ![b] = r]
      BY <1>6 DEF ExecuteBulk
    <2> QED
      BY <1>2, <1>4, <1>6, <2>1, ExecuteBulkOK
  <1>7. ASSUME NEW b \in Bulk, LeaveBulk(b)
        PROVE  BulksOK' /\ BulkHonest'
    <2>1. bulk' = [bulk EXCEPT ![b] = Idle]
      BY <1>7 DEF LeaveBulk
    <2>2. bulk'[b] = Idle
      BY <2>1 DEF BulksOK
    <2>3. BulkOK(b)'
      BY <2>2 DEF BulkOK, Idle
    <2> QED
      BY <1>4, <2>1, <2>3
  <1>8. ASSUME CollectionStep \/ Tick PROVE UNCHANGED bulk
    BY <1>8 DEF CollectionStep, Tick, Create, BeginTransaction, Commit, Abort, Update, SoftDelete,
       RestoreById, DeleteOne
  <1>9. ASSUME NEW w \in Walker, NEW page \in {0, 1}, NEW size \in PageSize,
               NEW given \in BOOLEAN, BeginWalk(w, page, size, given)
        PROVE  UNCHANGED bulk
    BY <1>9 DEF BeginWalk
  <1>10. ASSUME NEW w \in Walker,
                FindPage(w) \/ CountTotal(w) \/ LeaveWalk(w) \/ FailToCount(w)
         PROVE  UNCHANGED bulk
    BY <1>10 DEF FindPage, CountTotal, LeaveWalk, FailToCount
  <1>11. UNCHANGED vars => UNCHANGED bulk
    BY DEF vars
  <1> QED
    BY <1>3, <1>5, <1>6, <1>7, <1>8, <1>9, <1>10, <1>11 DEF Next, CollectionStep
-----------------------------------------------------------------------------
(* Walks                                                                   *)

LEMMA ActiveFinite ==
    /\ IsFiniteSet(ActiveDocs) /\ Cardinality(ActiveDocs) \in Nat
    /\ Cardinality(Doc) \in Nat /\ Cardinality(ActiveDocs) <= Cardinality(Doc)
  <1>1. IsFiniteSet(Doc) /\ ActiveDocs \in SUBSET Doc
    BY CrudAssumption DEF ActiveDocs
  <1> QED
    BY <1>1, FS_Subset, FS_CardinalityType

LEMMA NewerFinite ==
    ASSUME NEW d \in Doc, Active(d), DocsOK
    PROVE  /\ IsFiniteSet(Newer(d)) /\ Cardinality(Newer(d)) \in Nat
           /\ Cardinality(Newer(d)) < Cardinality(ActiveDocs)
  <1>1. docs[d].at \in Nat
    BY DEF DocsOK, Record, Active, Exists
  <1>2. Newer(d) \in SUBSET ActiveDocs /\ d \in ActiveDocs /\ d \notin Newer(d)
    BY <1>1 DEF Newer, ActiveDocs
  <1>3. /\ IsFiniteSet(Newer(d)) /\ Cardinality(Newer(d)) \in Nat
        /\ Cardinality(Newer(d)) <= Cardinality(ActiveDocs)
        /\ Cardinality(ActiveDocs) = Cardinality(Newer(d)) => ActiveDocs = Newer(d)
    BY <1>2, ActiveFinite, FS_Subset, FS_CardinalityType
  <1> QED
    BY <1>2, <1>3, ActiveFinite

\* A document with a time of its own has one place in every order.
LEMMA Position ==
    ASSUME DocsOK, NEW s \in Orders, NEW d \in Doc, Active(d), OwnTime(d)
    PROVE  \E i \in DOMAIN s : s[i] = d /\ i \in Nat /\ i = Cardinality(Newer(d)) + 1
  <1>1. PICK n \in Nat : n = Cardinality(ActiveDocs)
    BY ActiveFinite
  <1>2. s \in [1 .. n -> ActiveDocs] /\ \A i, j \in 1 .. n : i # j => s[i] # s[j]
    BY <1>1 DEF Orders, SetToSeqs
  <1>3. \A i, j \in 1 .. n : i < j => docs[s[i]].at >= docs[s[j]].at
    BY <1>2 DEF Orders
  <1>4. s \in Injection(1 .. n, ActiveDocs)
    BY <1>2 DEF Injection, IsInjective
  <1>5. Cardinality(1 .. n) = n
    BY <1>1, FS_Interval
  <1>6. s \in Surjection(1 .. n, ActiveDocs)
    BY <1>1, <1>4, <1>5, ActiveFinite, FS_Injection
  <1>7. \A e \in ActiveDocs : \E i \in 1 .. n : s[i] = e
    BY <1>6 DEF Surjection
  <1>8. PICK i \in 1 .. n : s[i] = d
    BY <1>7 DEF ActiveDocs
  <1>9. \A e \in ActiveDocs : docs[e].at \in Nat
    BY DEF ActiveDocs, Active, Exists, DocsOK, Record
  <1>10. \A j \in 1 .. i - 1 : s[j] \in Newer(d)
    <2> SUFFICES ASSUME NEW j \in 1 .. i - 1 PROVE s[j] \in Newer(d)
      OBVIOUS
    <2>1. j \in 1 .. n /\ j < i
      BY <1>8
    <2>2. s[j] \in ActiveDocs /\ s[j] # d /\ docs[s[j]].at >= docs[d].at
      BY <1>2, <1>3, <1>8, <2>1
    <2>3. docs[s[j]].at # docs[d].at
      BY <2>2 DEF OwnTime
    <2> QED
      BY <1>9, <2>2, <2>3 DEF Newer, ActiveDocs
  <1>11. \A e \in Newer(d) : \E j \in 1 .. i - 1 : s[j] = e
    <2> SUFFICES ASSUME NEW e \in Newer(d) PROVE \E j \in 1 .. i - 1 : s[j] = e
      OBVIOUS
    <2>1. e \in ActiveDocs /\ docs[e].at > docs[d].at
      BY DEF Newer
    <2>2. PICK j \in 1 .. n : s[j] = e
      BY <1>7, <2>1
    <2>3. docs[e].at \in Nat /\ docs[d].at \in Nat
      BY <1>9, <2>1 DEF ActiveDocs
    <2>4. ~(i < j) /\ j # i
      BY <1>3, <1>8, <2>1, <2>2, <2>3
    <2> QED
      BY <1>8, <2>2, <2>4
  <1> DEFINE f == [j \in 1 .. i - 1 |-> s[j]]
  <1>12. f \in Bijection(1 .. i - 1, Newer(d))
    <2>1. f \in [1 .. i - 1 -> Newer(d)]
      BY <1>10
    <2>2. \A j, k \in 1 .. i - 1 : f[j] = f[k] => j = k
      <3>1. \A j \in 1 .. i - 1 : j \in 1 .. n /\ f[j] = s[j]
        BY <1>8
      <3> QED
        BY <1>2, <3>1
    <2>3. \A e \in Newer(d) : \E j \in 1 .. i - 1 : f[j] = e
      BY <1>11
    <2> QED
      BY <2>1, <2>2, <2>3 DEF Bijection, Injection, Surjection, IsInjective
  <1>13. IsFiniteSet(1 .. i - 1) /\ Cardinality(1 .. i - 1) = i - 1
    BY <1>8, FS_Interval
  <1>14. Cardinality(Newer(d)) = i - 1
    BY <1>12, <1>13, FS_Bijection DEF ExistsBijection
  <1> QED
    BY <1>2, <1>8, <1>14

\* While nothing is removed, a document keeps its place or moves back, and a
\* time that is its own was so before.
LEMMA MovesBack ==
    ASSUME DocsOK, DocsOK', Grows, NEW d \in Doc, Active(d)
    PROVE  /\ Active(d)'
           /\ OwnTime(d)' => OwnTime(d)
           /\ Cardinality(Newer(d)) <= Cardinality(Newer(d)')
  <1>1. \A e \in ActiveDocs : docs'[e].at = docs[e].at /\ e \in ActiveDocs'
    BY DEF Grows, ActiveDocs
  <1>2. Active(d)' /\ docs'[d].at = docs[d].at
    BY DEF Grows
  <1>3. Newer(d) \subseteq Newer(d)'
    BY <1>1, <1>2 DEF Newer
  <1>4. IsFiniteSet(Newer(d)')
    <2>1. Newer(d)' \in SUBSET Doc
      BY DEF Newer, ActiveDocs
    <2> QED
      BY <2>1, CrudAssumption, FS_Subset
  <1>5. Cardinality(Newer(d)) <= Cardinality(Newer(d)')
    BY <1>3, <1>4, FS_Subset
  <1> QED
    BY <1>1, <1>2, <1>5 DEF OwnTime
WalkOK(w) ==
    walk[w] # Idle =>
        /\ walk[w] \in Walking
        /\ walk[w].since = removals => \A d \in walk[w].owed : Owes(w, d)

LEMMA WalkFields ==
    ASSUME NEW w \in Walker, walk[w] \in Walking
    PROVE  /\ walk[w].page \in Nat /\ walk[w].size \in Nat /\ walk[w].owed \in SUBSET Doc
           /\ SafePage(walk[w].page) \in Nat \ {0}
           /\ Passed(w) \in Nat /\ Passed(w) * walk[w].size \in Nat
  <1>1. walk[w].page \in Nat /\ walk[w].size \in Nat /\ walk[w].owed \in SUBSET Doc
    BY CrudAssumption DEF Walking
  <1>2. SafePage(walk[w].page) \in Nat \ {0} /\ Passed(w) \in Nat
    BY <1>1 DEF SafePage, Passed
  <1> QED
    BY <1>1, <1>2

LEMMA WalkKept ==
    ASSUME NumbersOK, DocsOK, DocsOK', Proper, NEW w \in Walker, WalkOK(w),
           walk'[w] = walk[w]
    PROVE  WalkOK(w)'
  <1> SUFFICES ASSUME walk[w] # Idle PROVE WalkOK(w)'
    BY DEF WalkOK, Idle
  <1>1. walk[w] \in Walking
    BY DEF WalkOK
  <1>2. PICK n \in 0 .. removals : n = walk[w].since
    BY <1>1 DEF Walking
  <1>3. removals' \in {removals, removals + 1} /\ removals \in Nat /\ n \in Nat
    BY DEF Proper, Grows, NumbersOK
  <1>4. 0 .. removals \subseteq 0 .. removals'
    BY <1>3
  <1>5. (walk[w] \in Walking)'
    BY <1>1, <1>4 DEF Walking
  <1>6. removals' = n => Grows /\ removals = n
    BY <1>2, <1>3 DEF Proper
  <1>7. ASSUME NEW d \in walk[w].owed, Owes(w, d), Grows
        PROVE  Owes(w, d)'
    <2>1. d \in Doc /\ Active(d) /\ Passed(w) * walk[w].size \in Nat
      BY <1>1, <1>7, WalkFields DEF Owes
    <2>2. PICK m \in Nat : m = Passed(w) * walk[w].size
      BY <2>1
    <2>3. /\ Active(d)' /\ (OwnTime(d)' => OwnTime(d))
          /\ Cardinality(Newer(d)) <= Cardinality(Newer(d)')
      BY <1>7, <2>1, MovesBack
    <2>4. Cardinality(Newer(d)) \in Nat
      BY <2>1, NewerFinite
    <2>5. Cardinality(Newer(d)') \in Nat
      <3>1. Newer(d)' \in SUBSET Doc
        BY DEF Newer, ActiveDocs
      <3> QED
        BY <3>1, CrudAssumption, FS_Subset, FS_CardinalityType
    <2>6. Passed(w)' * walk'[w].size = m
      BY <2>2 DEF Passed, SafePage
    <2>7. Cardinality(Newer(d)) >= m => Cardinality(Newer(d)') >= m
      BY <2>3, <2>4, <2>5
    <2>8. CASE OwnTime(d)' /\ d \notin walk[w].seen
      <3>1. /\ walk[w].pc # "done" /\ Cardinality(Newer(d)) >= m
            /\ walk[w].pc = "count" => walk[w].size # 0
        BY <1>7, <2>2, <2>3, <2>8 DEF Owes
      <3> QED
        BY <2>3, <2>6, <2>7, <3>1 DEF Owes
    <2>9. CASE ~(OwnTime(d)' /\ d \notin walk[w].seen)
      BY <2>3, <2>9 DEF Owes
    <2> QED
      BY <2>8, <2>9
  <1> QED
    BY <1>2, <1>5, <1>6, <1>7 DEF WalkOK

LEMMA BeginWalkOK ==
    ASSUME NumbersOK, DocsOK, WalksOK, NEW w \in Walker, NEW page \in {0, 1},
           NEW size \in PageSize, NEW given \in BOOLEAN, BeginWalk(w, page, size, given)
    PROVE  WalkOK(w)'
  <1> DEFINE r == [pc |-> "find", page |-> page, size |-> size, given |-> given,
                   seen |-> {}, owed |-> ActiveDocs, since |-> removals]
  <1>1. walk'[w] = r /\ UNCHANGED <<docs, removals>>
    BY DEF BeginWalk, WalksOK
  <1>2. removals \in 0 .. removals
    BY DEF NumbersOK
  <1>3. r \in Walking
    BY <1>2 DEF Walking, ActiveDocs
  <1>4. r.pc = "find" /\ r.page \in {0, 1} /\ r.size = size /\ r.owed = ActiveDocs
    OBVIOUS
  <1> HIDE DEF r
  <1>5. (walk[w] \in Walking)'
    BY <1>1, <1>3 DEF Walking
  <1>6. Passed(w)' * walk'[w].size = 0
    <2>1. Passed(w)' = 0
      BY <1>1, <1>4 DEF Passed, SafePage
    <2>2. size \in Nat
      BY CrudAssumption
    <2> QED
      BY <1>1, <1>4, <2>1, <2>2
  <1>7. ASSUME NEW d \in ActiveDocs PROVE Owes(w, d)'
    <2>1. d \in Doc /\ Active(d) /\ Active(d)'
      BY <1>1 DEF ActiveDocs, Active, Exists
    <2>2. Newer(d)' = Newer(d)
      BY <1>1 DEF Newer, ActiveDocs, Active, Exists
    <2>3. Cardinality(Newer(d)') \in Nat
      BY <2>1, <2>2, NewerFinite
    <2> QED
      BY <1>1, <1>4, <1>6, <2>1, <2>3 DEF Owes
  <1> QED
    BY <1>1, <1>4, <1>5, <1>7 DEF WalkOK

LEMMA FindPageOK ==
    ASSUME NumbersOK, DocsOK, WalksOK, NEW w \in Walker, WalkOK(w), FindPage(w)
    PROVE  WalkOK(w)'
  <1>1. walk[w] \in Walking /\ walk[w].pc = "find" /\ walk[w] # Idle
    BY DEF FindPage, WalksOK, Idle
  <1>2. PICK s \in Orders :
            walk' = [walk EXCEPT ![w].pc = "count",
                       ![w].seen = @ \cup Slice(s, walk[w].page, walk[w].size)]
    BY DEF FindPage
  <1>3. UNCHANGED <<docs, removals>>
    BY DEF FindPage
  <1>4. PICK n \in Nat : n = walk[w].size
    BY <1>1, WalkFields
  <1>5. PICK p \in Nat \ {0} : p = SafePage(walk[w].page)
    BY <1>1, WalkFields
  <1>6. PICK sl : sl = Slice(s, walk[w].page, walk[w].size)
    OBVIOUS
  <1>7. walk'[w] = [walk[w] EXCEPT !.pc = "count", !.seen = walk[w].seen \cup sl]
    BY <1>2, <1>6 DEF WalksOK
  <1>8. /\ walk'[w].pc = "count" /\ walk'[w].seen = walk[w].seen \cup sl
        /\ walk'[w].page = walk[w].page /\ walk'[w].size = n
        /\ walk'[w].owed = walk[w].owed /\ walk'[w].since = walk[w].since
    BY <1>1, <1>4, <1>7 DEF Walking
  <1>9. \A x : x \in sl => x \in Doc
    <2>1. \A i \in DOMAIN s : s[i] \in ActiveDocs
      BY DEF Orders, SetToSeqs
    <2> QED
      BY <1>6, <2>1 DEF Slice, ActiveDocs
  <1>10. walk'[w] \in Walking
    BY <1>1, <1>7, <1>9 DEF Walking
  <1>11. (walk[w] \in Walking)'
    BY <1>3, <1>10 DEF Walking
  <1>12. PICK skip \in Nat : skip = (p - 1) * n
    <2>1. p - 1 \in Nat
      OBVIOUS
    <2> QED
      BY <2>1
  <1>13. Passed(w) * walk[w].size = skip
    BY <1>1, <1>4, <1>5, <1>12 DEF Passed
  <1>14. Passed(w)' * walk'[w].size = skip + n
    <2>1. Passed(w)' = p
      BY <1>5, <1>8 DEF Passed
    <2>2. p * n = (p - 1) * n + n
      OBVIOUS
    <2> QED
      BY <1>8, <1>12, <2>1, <2>2
  <1>15. ASSUME NEW d \in walk[w].owed, Owes(w, d)
         PROVE  Owes(w, d)'
    <2>1. d \in Doc /\ Active(d) /\ Active(d)'
      BY <1>1, <1>3, <1>15, WalkFields DEF Owes, Active, Exists
    <2>2. (OwnTime(d)' <=> OwnTime(d)) /\ Newer(d)' = Newer(d)
      BY <1>3 DEF OwnTime, Newer, ActiveDocs, Active, Exists
    <2>3. CASE OwnTime(d) /\ d \notin walk'[w].seen
      <3>1. PICK c \in Nat : c = Cardinality(Newer(d))
        BY <2>1, NewerFinite
      <3>2. c >= skip
        BY <1>8, <1>13, <1>15, <2>3, <3>1 DEF Owes
      <3>3. PICK i \in DOMAIN s : s[i] = d /\ i = c + 1
        BY <2>1, <2>3, <3>1, Position
      <3>4. ~(i > skip /\ (n = 0 \/ i <= skip + n))
        <4>1. s[i] \notin sl
          BY <1>8, <2>3, <3>3
        <4> QED
          BY <1>4, <1>5, <1>6, <1>12, <4>1 DEF Slice
      <3>5. n # 0 /\ c >= skip + n
        BY <3>2, <3>3, <3>4
      <3> QED
        BY <1>8, <1>14, <2>1, <2>2, <3>1, <3>5 DEF Owes
    <2>4. CASE ~(OwnTime(d) /\ d \notin walk'[w].seen)
      BY <2>1, <2>2, <2>4 DEF Owes
    <2> QED
      BY <2>3, <2>4
  <1> QED
    BY <1>1, <1>3, <1>8, <1>11, <1>15 DEF WalkOK

LEMMA CountTotalOK ==
    ASSUME NumbersOK, DocsOK, WalksOK, NEW w \in Walker, WalkOK(w), CountTotal(w)
    PROVE  WalkOK(w)'
  <1>1. walk[w] \in Walking /\ walk[w].pc = "count" /\ walk[w] # Idle
    BY DEF CountTotal, WalksOK, Idle
  <1>2. UNCHANGED <<docs, removals>>
    BY DEF CountTotal
  <1>3. PICK n \in Nat : n = walk[w].size
    BY <1>1, WalkFields
  <1>4. PICK p \in Nat \ {0} : p = SafePage(walk[w].page)
    BY <1>1, WalkFields
  <1>5. PICK total \in Nat : total = Cardinality(ActiveDocs)
    BY ActiveFinite
  <1>6. PICK most \in Nat : most = Cardinality(Doc) /\ total <= most
    BY <1>5, ActiveFinite
  <1>7. PICK q \in Nat : q = IF p < most THEN p + 1 ELSE p
    OBVIOUS
  <1>8. PICK pc \in {"find", "done"} :
            /\ pc = IF MorePages(p, n, total) THEN "find" ELSE "done"
            /\ walk'[w] = [walk[w] EXCEPT !.pc = pc, !.page = q]
    BY <1>3, <1>4, <1>5, <1>6, <1>7 DEF CountTotal, WalksOK
  <1>9. /\ walk'[w].pc = pc /\ walk'[w].seen = walk[w].seen
        /\ walk'[w].page = q /\ walk'[w].size = n
        /\ walk'[w].owed = walk[w].owed /\ walk'[w].since = walk[w].since
    BY <1>1, <1>3, <1>8 DEF Walking
  <1>10. walk'[w] \in Walking
    BY <1>1, <1>8 DEF Walking
  <1>11. (walk[w] \in Walking)'
    BY <1>2, <1>10 DEF Walking
  <1>12. PICK m \in Nat : m = p * n
    OBVIOUS
  <1>13. Passed(w) * walk[w].size = m
    BY <1>1, <1>3, <1>4, <1>12 DEF Passed
  <1>14. ASSUME NEW d \in walk[w].owed, Owes(w, d)
         PROVE  Owes(w, d)'
    <2>1. d \in Doc /\ Active(d) /\ Active(d)'
      BY <1>1, <1>2, <1>14, WalkFields DEF Owes, Active, Exists
    <2>2. (OwnTime(d)' <=> OwnTime(d)) /\ Newer(d)' = Newer(d)
      BY <1>2 DEF OwnTime, Newer, ActiveDocs, Active, Exists
    <2>3. CASE OwnTime(d) /\ d \notin walk[w].seen
      <3>1. PICK c \in Nat : c = Cardinality(Newer(d)) /\ c < total
        BY <1>5, <2>1, NewerFinite
      <3>2. c >= m /\ n # 0
        BY <1>1, <1>3, <1>13, <1>14, <2>3, <3>1 DEF Owes
      <3>3. m < total /\ m >= p
        <4>1. p * n >= p
          BY <3>2
        <4> QED
          BY <1>12, <3>1, <3>2, <4>1
      <3>4. pc = "find"
        BY <1>8, <1>12, <3>2, <3>3 DEF MorePages
      <3>5. q = p + 1
        BY <1>6, <1>7, <3>3
      <3>6. Passed(w)' = p
        BY <1>9, <3>4, <3>5 DEF Passed, SafePage
      <3> QED
        BY <1>9, <1>12, <2>1, <2>2, <3>1, <3>2, <3>4, <3>6 DEF Owes
    <2>4. CASE ~(OwnTime(d) /\ d \notin walk[w].seen)
      BY <1>9, <2>1, <2>2, <2>4 DEF Owes
    <2> QED
      BY <2>3, <2>4
  <1> QED
    BY <1>1, <1>2, <1>9, <1>11, <1>14 DEF WalkOK
\* A step starts or continues at most one walk.
LEMMA WalkStep ==
    ASSUME NumbersOK, DocsOK, TxnOK, BulksOK, WalksOK, WalkHonest, [Next]_vars
    PROVE  WalksOK' /\ WalkHonest'
  <1>1. Proper /\ DocsOK'
    BY NextProper
  <1>2. \A w \in Walker : WalkOK(w)
    BY DEF WalksOK, WalkHonest, WalkOK
  <1>3. CASE UNCHANGED walk
    <2>1. \A w \in Walker : WalkOK(w)'
      BY <1>1, <1>2, <1>3, WalkKept
    <2> QED
      BY <1>3, <2>1 DEF WalksOK, WalkHonest, WalkOK
  <1>4. ASSUME NEW w \in Walker, NEW r, walk' = [walk EXCEPT ![w] = r], WalkOK(w)'
        PROVE  WalksOK' /\ WalkHonest'
    <2>1. \A v \in Walker : v # w => walk'[v] = walk[v]
      BY <1>4 DEF WalksOK
    <2>2. \A v \in Walker : WalkOK(v)'
      BY <1>1, <1>2, <1>4, <2>1, WalkKept
    <2>3. walk' = [v \in Walker |-> walk'[v]]
      BY <1>4 DEF WalksOK
    <2> QED
      BY <2>2, <2>3 DEF WalksOK, WalkHonest, WalkOK
  <1>5. ASSUME NEW w \in Walker, NEW page \in {0, 1}, NEW size \in PageSize,
               NEW given \in BOOLEAN, BeginWalk(w, page, size, given)
        PROVE  WalksOK' /\ WalkHonest'
    BY <1>4, <1>5, BeginWalkOK DEF BeginWalk
  <1>6. ASSUME NEW w \in Walker, FindPage(w)
        PROVE  WalksOK' /\ WalkHonest'
    <2>1. PICK r : walk' = [walk EXCEPT ![w] = r]
      BY <1>6 DEF FindPage
    <2> QED
      BY <1>2, <1>4, <1>6, <2>1, FindPageOK
  <1>7. ASSUME NEW w \in Walker, CountTotal(w)
        PROVE  WalksOK' /\ WalkHonest'
    <2>1. PICK r : walk' = [walk EXCEPT ![w] = r]
      BY <1>7 DEF CountTotal
    <2> QED
      BY <1>2, <1>4, <1>7, <2>1, CountTotalOK
  <1>8. ASSUME NEW w \in Walker, LeaveWalk(w) \/ FailToCount(w)
        PROVE  WalksOK' /\ WalkHonest'
    <2>1. walk' = [walk EXCEPT ![w] = Idle]
      BY <1>8 DEF LeaveWalk, FailToCount
    <2>2. walk'[w] = Idle
      BY <2>1 DEF WalksOK
    <2>3. WalkOK(w)'
      BY <2>2 DEF WalkOK, Idle
    <2> QED
      BY <1>4, <2>1, <2>3
  <1>9. ASSUME CollectionStep \/ Tick PROVE UNCHANGED walk
    BY <1>9 DEF CollectionStep, Tick, Create, BeginTransaction, Commit, Abort, Update, SoftDelete,
       RestoreById, DeleteOne
  <1>10. ASSUME NEW b \in Bulk, NEW ids \in Ids, NEW filtered \in BOOLEAN,
                NEW soft \in BOOLEAN, NEW validated \in BOOLEAN,
                CheckBulk(b, ids, filtered, soft, validated)
         PROVE  UNCHANGED walk
    BY <1>10 DEF CheckBulk
  <1>11. ASSUME NEW b \in Bulk, ExecuteBulk(b) \/ LeaveBulk(b)
         PROVE  UNCHANGED walk
    BY <1>11 DEF ExecuteBulk, LeaveBulk
  <1>12. UNCHANGED vars => UNCHANGED walk
    BY DEF vars
  <1> QED
    BY <1>3, <1>5, <1>6, <1>7, <1>8, <1>9, <1>10, <1>11, <1>12 DEF Next, CollectionStep

-----------------------------------------------------------------------------
(* The theorems                                                            *)

LEMMA InitHolds == Init => IInv
  <1> SUFFICES ASSUME Init PROVE IInv
    OBVIOUS
  <1>1. NumbersOK /\ DocsOK /\ TxnOK
    BY DEF Init, NumbersOK, DocsOK, TxnOK, Exists, InTxn
  <1>2. WalksOK /\ WalkHonest
    BY DEF Init, WalksOK, WalkHonest
  <1>3. BulksOK /\ BulkHonest
    BY DEF Init, BulksOK, BulkHonest
  <1> QED
    BY <1>1, <1>2, <1>3 DEF IInv

LEMMA StepHolds == IInv /\ [Next]_vars => IInv'
  BY NextProper, WalkStep, BulkStep DEF IInv

\* In every reachable state a call in progress that no removal has overtaken
\* finds the documents that it knows about as they were.
THEOREM CrudInductiveInvariant == Spec => []IInv
  BY InitHolds, StepHolds, PTL DEF Spec

\* Every variable keeps its type; no document is deleted before it was created
\* or is both in the transaction and in the collection.
THEOREM CrudTypeCorrect == Spec => []TypeOK
  <1>1. IInv => TypeOK
    <2> SUFFICES ASSUME IInv PROVE TypeOK
      OBVIOUS
    <2>1. \A d \in Doc : Exists(d) =>
              docs[d].at <= now /\ (~Active(d) => docs[d].deleted \in docs[d].at .. now)
      BY DEF IInv, DocsOK, Active
    <2> QED
      BY <2>1 DEF IInv, NumbersOK, DocsOK, TxnOK, WalksOK, BulksOK, Walking, Deleting, TypeOK
  <1> QED
    BY <1>1, CrudInductiveInvariant, PTL

\* What is softly deleted never becomes visible again: restoreById, which is to
\* revert that, looks for active documents only (mongoose.types l.141,
\* mongoose-schema.utils l.147).
THEOREM NothingRestoredHolds == Spec => NothingRestored
  <1>1. IInv /\ [Next]_vars =>
            [\A d \in Doc : Exists(d) /\ ~Active(d) /\ docs'[d] # None
                               => docs'[d].deleted # None]_vars
    BY NextProper DEF IInv, Proper
  <1> QED
    BY <1>1, CrudInductiveInvariant, PTL DEF Spec, NothingRestored

\* A checked bulk deletion fails half-way only if another call removed something
\* between its check and its execution, or amended what its filters look at
\* (mongoose.utils l.422-524).
THEOREM FailureHasRivalHolds == Spec => []FailureHasRival
  <1>1. IInv => FailureHasRival
    BY DEF IInv, BulkHonest, FailureHasRival
  <1> QED
    BY <1>1, CrudInductiveInvariant, PTL

\* A walk through the pages misses nothing that was there from its beginning,
\* has a creation time of its own, and saw no removal (pagination.service).
THEOREM NothingMissedHolds == Spec => []NothingMissed
  <1>1. IInv => NothingMissed
    BY DEF IInv, WalkHonest, Owes, NothingMissed
  <1> QED
    BY <1>1, CrudInductiveInvariant, PTL
=============================================================================
