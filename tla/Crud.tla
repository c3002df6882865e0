--------------------------------- MODULE Crud ---------------------------------
(***************************************************************************)
(* CrudService and PaginationService on one collection with soft deletion: *)
(* documents are created, alone, in bulk or in a transaction, updated, and *)
(* deleted, softly or for good, one or many at a time, while clients walk  *)
(* through the pages of what is left.                                      *)
(*                                                                         *)
(* A filter that the middleware of createSchema reaches (find, findOne,    *)
(* countDocuments, findOneAndUpdate) sees the active documents only; one   *)
(* of updateMany, deleteOne or deleteMany sees all.  Of the other fields   *)
(* only one thing is told: whether they meet the filters that bulk         *)
(* deletions may be given.  New documents do.                              *)
(*                                                                         *)
(* The operators whose names end in _Bug are plausible mistakes in the     *)
(* definition that follows them; only the mutation runs use them.          *)
(***************************************************************************)
EXTENDS Integers, FiniteSets, SequencesExt

CONSTANTS
    Doc,            \* the ids the database may draw (a bound)
    Walker, Bulk,   \* walks and bulk deletions in progress at the same time
    PageSize,       \* the page sizes that clients ask for
    None,           \* no document, no time
    MaxTime,        \* bound on the clock, in ms
    MaxCalls        \* bound on the calls

ASSUME CrudAssumption ==
    /\ IsFiniteSet(Doc)
    /\ PageSize \subseteq Nat
    /\ MaxTime \in Nat /\ MaxCalls \in Nat
    /\ None \notin Nat

VARIABLES
    now, calls,
    docs,       \* the collection
    txn,        \* what the open transaction has created and when, or None
    walk,       \* the state of each walk
    bulk,       \* the state of each bulk deletion
    removals,   \* history: how many calls have removed or hidden a document
    amendments  \* history: how many have changed whether one meets the filters

vars == <<now, calls, docs, txn, walk, bulk, removals, amendments>>

Record == [at : Nat, deleted : Nat \cup {None}, meets : BOOLEAN]

ASSUME CrudNoneAssumption == None \notin Record /\ None \notin [at : Nat, ids : SUBSET Doc]

Idle == [pc |-> "idle"]

Exists(d) == docs[d] # None
Active(d) == Exists(d) /\ docs[d].deleted = None

ActiveDocs == {d \in Doc : Active(d)}

InTxn == IF txn = None THEN {} ELSE txn.ids

Fresh(d) == ~Exists(d) /\ d \notin InTxn

-----------------------------------------------------------------------------
Init ==
    /\ now = 0 /\ calls = 0 /\ removals = 0 /\ amendments = 0
    /\ docs = [d \in Doc |-> None]
    /\ txn = None
    /\ walk = [w \in Walker |-> Idle]
    /\ bulk = [b \in Bulk |-> Idle]

Tick ==
    /\ now < MaxTime
    /\ now' = now + 1
    /\ UNCHANGED <<calls, docs, txn, walk, bulk, removals, amendments>>

\* Every call that a caller may make or not.
Call == calls < MaxCalls /\ calls' = calls + 1

NewDocument(t) == [at |-> t, deleted |-> None, meets |-> TRUE]

\* create, createMany and bulkWrite: whatever the database has inserted of
\* them, for an insertion in bulk stops at the first document it refuses.
Create(s) ==
    /\ Call
    /\ \A d \in s : Fresh(d)
    /\ docs' = [d \in Doc |-> IF d \in s THEN NewDocument(now) ELSE docs[d]]
    /\ UNCHANGED <<now, txn, walk, bulk, removals, amendments>>

\* withTransaction, and in it creations that are given the session.
BeginTransaction(s) ==
    /\ Call
    /\ txn = None
    /\ \A d \in s : Fresh(d)
    /\ txn' = [at |-> now, ids |-> s]
    /\ UNCHANGED <<now, docs, walk, bulk, removals, amendments>>

\* mutant: the session stays open
Commit_Bug ==
    /\ txn # None
    /\ docs' = [d \in Doc |-> IF d \in InTxn THEN NewDocument(txn.at)
                                          ELSE docs[d]]
    /\ UNCHANGED <<now, calls, txn, walk, bulk, removals, amendments>>

Commit ==
    /\ txn # None
    /\ docs' = [d \in Doc |-> IF d \in InTxn THEN NewDocument(txn.at)
                                          ELSE docs[d]]
    /\ txn' = None
    /\ UNCHANGED <<now, calls, walk, bulk, removals, amendments>>

\* The callback or the commit throws.
Abort ==
    /\ txn # None
    /\ txn' = None
    /\ UNCHANGED <<now, calls, docs, walk, bulk, removals, amendments>>

\* findByIdAndUpdate, findOneAndUpdate and updateMany: one or many documents
\* come to meet the filters, or no longer do.  Only updateMany reaches what is
\* deleted, or more than one.
Update(s, v) ==
    /\ Call
    /\ s # {} /\ \A d \in s : Exists(d) /\ docs[d].meets # v
    /\ docs' = [d \in Doc |-> IF d \in s THEN [docs[d] EXCEPT !.meets = v] ELSE docs[d]]
    /\ amendments' = amendments + 1
    /\ UNCHANGED <<now, txn, walk, bulk, removals>>

-----------------------------------------------------------------------------
(* Deleting one                                                            *)

Hide(s) == [d \in Doc |-> IF d \in s /\ Exists(d)
                          THEN [docs[d] EXCEPT !.deleted = now] ELSE docs[d]]

Erase(s) == [d \in Doc |-> IF d \in s THEN None ELSE docs[d]]

\* softDelete and softDeleteById, through findOneAndUpdate.
SoftDelete(d) ==
    /\ Call
    /\ Active(d)
    /\ docs' = Hide({d})
    /\ removals' = removals + 1
    /\ UNCHANGED <<now, txn, walk, bulk, amendments>>

\* restoreById, through findOneAndUpdate as well: it finds only what is active.
RestoreById(d) ==
    /\ Call
    /\ Active(d)
    /\ docs' = [docs EXCEPT ![d].deleted = None]
    /\ UNCHANGED <<now, txn, walk, bulk, removals, amendments>>

DeleteOne(d) ==
    /\ Call
    /\ Exists(d)
    /\ docs' = Erase({d})
    /\ removals' = removals + 1
    /\ UNCHANGED <<now, txn, walk, bulk, amendments>>

-----------------------------------------------------------------------------
(* buildValidatedMongoFilter and executeDeleteOrSoftDelete                 *)

\* Lists of one or two ids, the same one twice among them; an empty list is
\* refused before anything is read.
Ids == UNION {[1 .. n -> Doc] : n \in 1 .. 2}

Meets(d, filtered) == filtered => docs[d].meets

\* The active documents of these ids that meet the filters, if there are any.
Found(ids, filtered) == {d \in Range(ids) : Active(d) /\ Meets(d, filtered)}

\* mutant: the ids found are compared with the different ids asked for
AllFound_Bug(ids, filtered) == Range(ids) = Found(ids, filtered)

AllFound(ids, filtered) == Cardinality(Found(ids, filtered)) = Len(ids)

\* Refused here, a bulk deletion changes nothing.
CheckBulk(b, ids, filtered, soft, validated) ==
    /\ Call
    /\ bulk[b] = Idle
    /\ validated \/ AllFound(ids, filtered)
    /\ bulk' = [bulk EXCEPT ![b] =
           [pc |-> "checked", ids |-> ids, filtered |-> filtered, soft |-> soft,
            validated |-> validated, since |-> removals, amended |-> amendments]]
    /\ UNCHANGED <<now, docs, txn, walk, removals, amendments>>

\* What the same filter finds in updateMany or deleteMany: deleted documents too.
Targets(ids, filtered) == {d \in Range(ids) : Exists(d) /\ Meets(d, filtered)}

\* What is modified of it: not what was deleted in this very millisecond.
Affected(s, soft) == {d \in s : soft => docs[d].deleted # now}

\* The deletion is not undone when fewer were affected than asked for.
ExecuteBulk(b) ==
    /\ bulk[b].pc = "checked"
    /\ LET s == Targets(bulk[b].ids, bulk[b].filtered)
           n == Cardinality(Affected(s, bulk[b].soft))
       IN  /\ docs' = IF bulk[b].soft THEN Hide(s) ELSE Erase(s)
           /\ bulk' = [bulk EXCEPT ![b].pc =
                          IF n = Len(bulk[b].ids) THEN "done" ELSE "failed"]
    /\ removals' = removals + 1
    /\ UNCHANGED <<now, calls, txn, walk, amendments>>

\* The caller is answered, and may come again.
LeaveBulk(b) ==
    /\ bulk[b].pc \in {"done", "failed"}
    /\ bulk' = [bulk EXCEPT ![b] = Idle]
    /\ UNCHANGED <<now, calls, docs, txn, walk, removals, amendments>>

-----------------------------------------------------------------------------
(* findPaginated, page after page                                          *)

\* The orders of sort({createdAt: -1}): documents of one millisecond come as
\* they come, in one query so and in the next one otherwise.
Orders ==
    {s \in SetToSeqs(ActiveDocs) :
        \A i, j \in DOMAIN s : i < j => docs[s[i]].at >= docs[s[j]].at}

\* calculatePaginate: a page below 1 is the first; a page size of 0 is kept,
\* and a limit of 0 is none.
SafePage(page) == IF page < 1 THEN 1 ELSE page

\* mutant: pages are counted from 0
Slice_Bug(s, page, size) ==
    LET skip == SafePage(page) * size
    IN  {s[i] : i \in {j \in DOMAIN s : j > skip /\ (size = 0 \/ j <= skip + size)}}

Slice(s, page, size) ==
    LET skip == (SafePage(page) - 1) * size
    IN  {s[i] : i \in {j \in DOMAIN s : j > skip /\ (size = 0 \/ j <= skip + size)}}

\* The first page is asked for by its number, or by 0, of a service that was
\* given a PaginationService or was not.
BeginWalk(w, page, size, given) ==
    /\ Call
    /\ walk[w] = Idle
    /\ walk' = [walk EXCEPT ![w] =
           [pc |-> "find", page |-> page, size |-> size, given |-> given, seen |-> {},
            owed |-> ActiveDocs, since |-> removals]]
    /\ UNCHANGED <<now, docs, txn, bulk, removals, amendments>>

FindPage(w) ==
    /\ walk[w].pc = "find"
    /\ \E s \in Orders :
          walk' = [walk EXCEPT ![w].pc = "count",
                      ![w].seen = @ \cup Slice(s, walk[w].page, walk[w].size)]
    /\ UNCHANGED <<now, calls, docs, txn, bulk, removals, amendments>>

\* Is the page before the last one, of Math.ceil(total / size)?
MorePages(page, size, total) ==
    IF size = 0 THEN total > 0 ELSE page * size < total

\* Bound: a walk of infinitely many pages is followed over as many as there
\* are documents.
CountTotal(w) ==
    /\ walk[w].pc = "count" /\ walk[w].given
    /\ LET page == SafePage(walk[w].page)
       IN  walk' = [walk EXCEPT ![w].pc =
                       IF MorePages(page, walk[w].size, Cardinality(ActiveDocs))
                       THEN "find" ELSE "done",
                       ![w].page = IF page < Cardinality(Doc) THEN page + 1 ELSE page]
    /\ UNCHANGED <<now, calls, docs, txn, bulk, removals, amendments>>

LeaveWalk(w) ==
    /\ walk[w].pc = "done"
    /\ walk' = [walk EXCEPT ![w] = Idle]
    /\ UNCHANGED <<now, calls, docs, txn, bulk, removals, amendments>>

\* The fallback of findPaginated counts with Model.count, which the installed
\* mongoose does not have: after the query the call throws.
FailToCount(w) ==
    /\ walk[w].pc = "count" /\ ~walk[w].given
    /\ walk' = [walk EXCEPT ![w] = Idle]
    /\ UNCHANGED <<now, calls, docs, txn, bulk, removals, amendments>>

-----------------------------------------------------------------------------
Next ==
    \/ Tick
    \/ \E s \in SUBSET Doc : s # {} /\ (Create(s) \/ BeginTransaction(s))
    \/ Commit \/ Abort
    \/ \E s \in SUBSET Doc, v \in BOOLEAN : Update(s, v)
    \/ \E d \in Doc : SoftDelete(d) \/ RestoreById(d) \/ DeleteOne(d)
    \/ \E b \in Bulk, ids \in Ids, filtered, soft, validated \in BOOLEAN :
          CheckBulk(b, ids, filtered, soft, validated)
    \/ \E b \in Bulk : ExecuteBulk(b) \/ LeaveBulk(b)
    \/ \E w \in Walker, page \in {0, 1}, size \in PageSize, given \in BOOLEAN :
          BeginWalk(w, page, size, given)
    \/ \E w \in Walker : FindPage(w) \/ CountTotal(w) \/ LeaveWalk(w) \/ FailToCount(w)

Spec == Init /\ [][Next]_vars

-----------------------------------------------------------------------------
(* Properties                                                              *)

\* Every variable has its type; no document is deleted before it was created,
\* and what is in the transaction is not in the collection.
TypeOK ==
    /\ now \in Nat /\ calls \in Nat /\ removals \in Nat /\ amendments \in Nat
    /\ docs \in [Doc -> Record \cup {None}]
    /\ \A d \in Doc : Exists(d) =>
          docs[d].at <= now /\ (~Active(d) => docs[d].deleted \in docs[d].at .. now)
    /\ txn \in [at : 0 .. now, ids : SUBSET Doc] \cup {None}
    /\ \A d \in InTxn : ~Exists(d)
    /\ \A w \in Walker : walk[w] # Idle =>
          walk[w] \in [pc : {"find", "count", "done"}, page : Nat, size : PageSize,
                       given : BOOLEAN, seen : SUBSET Doc, owed : SUBSET Doc, since : 0 .. removals]
    /\ \A b \in Bulk : bulk[b] # Idle =>
          bulk[b] \in [pc : {"checked", "done", "failed"}, ids : Ids, filtered : BOOLEAN,
                       soft : BOOLEAN, validated : BOOLEAN,
                       since : 0 .. removals, amended : 0 .. amendments]

\* restoreById "Reverts the soft-deletion" (mongoose.types l.141), but goes
\* through the middleware that hides what is deleted (mongoose-schema.utils
\* l.147, l.170): no step makes a document visible again.
NothingRestored ==
    [][\A d \in Doc : Exists(d) /\ ~Active(d) /\ docs'[d] # None
                        => docs'[d].deleted # None]_vars

\* A bulk deletion that has checked its ids fails, having deleted the others,
\* only if another call removed something between the check and the deletion or,
\* where it is given filters, changed what they look at (mongoose.utils
\* l.422-445, l.478-524).
FailureHasRival ==
    \A b \in Bulk :
        bulk[b] # Idle /\ bulk[b].pc = "failed" /\ ~bulk[b].validated =>
            \/ removals > bulk[b].since + 1
            \/ bulk[b].filtered /\ amendments > bulk[b].amended

\* No other document was created in the same millisecond.
OwnTime(d) == \A e \in ActiveDocs : docs[e].at = docs[d].at => e = d

\* Whoever walks through the pages, whatever is created meanwhile, has seen in
\* the end every document of before the walk with a creation time of its own,
\* if nothing was deleted on the way (pagination.service l.45-74).
NothingMissed ==
    \A w \in Walker :
        walk[w] # Idle /\ walk[w].pc = "done" /\ walk[w].since = removals =>
            \A d \in walk[w].owed : OwnTime(d) => d \in walk[w].seen
=============================================================================
