-------------------------------- MODULE Audit --------------------------------
(***************************************************************************)
(* The audit trail of one request: trackProcess around the function that   *)
(* does the work, and AuditTrailInterceptor around the handler that calls  *)
(* it.  Each writes an entry that nobody waits for.                        *)
(*                                                                         *)
(* A datum is told by its flaws: JSON.stringify throws on a "cyclic" one,  *)
(* and sanitizeData on an "odd" one, which has a password that is no       *)
(* string.                                                                 *)
(*                                                                         *)
(* The operators whose names end in _Bug are plausible mistakes in the     *)
(* definition that follows them; only the mutation runs use them.          *)
(***************************************************************************)
EXTENDS Integers, FiniteSets

Data == SUBSET {"cyclic", "odd"}

Plain == {}

\* Of maxRequestSize or maxResponseSize: not set, not reached, or exceeded.
Limit == {"none", "kept", "cut"}

\* TrackProcessOptions, as far as they can make trackProcess throw, and the
\* arguments and the result of the function: extract is what the extractors and
\* requestDataTransformer do, transform what responseDataTransformer does, and
\* transformed and failed are what it makes of the result and of an error.
Tracking ==
    [extract : {"ok", "throws"}, transform : {"none", "ok", "throws"},
     maxRequestSize : Limit, maxResponseSize : Limit,
     trackDataSize : BOOLEAN, includeFullResponse : BOOLEAN,
     request : Data, result : Data, transformed : Data, failed : Data]

CONSTANT Trackings     \* those that this request may be tracked with

ASSUME TrackingAssumption == Trackings \subseteq Tracking

VARIABLES
    tracking,   \* the options and data of this call
    stage,      \* outside, inside, told
    told,       \* what trackProcess tells its caller
    answered,   \* what the interceptor lets through to the client
    trail       \* the entries, being written, stored or lost

auditVars == <<tracking, stage, told, answered, trail>>

Verdict == {"success", "failure"}

Entry == [by : {"process", "request"}, verdict : Verdict,
          at : {"writing", "stored", "lost"}]

AuditInit ==
    /\ tracking \in Trackings
    /\ stage = "outside"
    /\ told = "pending"
    /\ answered = "pending"
    /\ trail = {}

\* createAuditEntryAsync: the insertion is started, and the call goes on.
Log(by, v) == trail' = trail \cup {[by |-> by, verdict |-> v, at |-> "writing"]}

-----------------------------------------------------------------------------
(* trackProcess                                                            *)

\* Before the try: an exception here leaves no entry and the function unrun.
PrologueThrows ==
    \/ tracking.extract = "throws"
    \/ tracking.maxRequestSize # "none" /\ "cyclic" \in tracking.request

\* What is too long is replaced by the first part of its text.
Limited(limit, data) == IF limit = "cut" THEN Plain ELSE data

Request == Limited(tracking.maxRequestSize, tracking.request)

EnterProcess ==
    /\ stage = "outside"
    /\ IF PrologueThrows THEN stage' = "told" /\ told' = "failure"
                         ELSE stage' = "inside" /\ UNCHANGED told
    /\ UNCHANGED <<tracking, answered, trail>>

\* What responseDataTransformer makes of the result, and what is kept of it.
Transformed ==
    IF tracking.transform = "ok" THEN tracking.transformed ELSE tracking.result

Response ==
    IF tracking.includeFullResponse
    THEN Limited(tracking.maxResponseSize, Transformed) ELSE Plain

\* What it makes of an error; its own exceptions are ignored here.
ErrorResponse == IF tracking.transform = "none" THEN Plain ELSE tracking.failed

\* JSON.stringify for the sizes of the data, and sanitizeData for the entry.
EntryThrows(request, response) ==
    \/ tracking.trackDataSize /\ "cyclic" \in request \cup response
    \/ "odd" \in request \cup response

\* Inside the try, after the function has returned.
SuccessThrows ==
    \/ tracking.transform = "throws"
    \/ tracking.maxResponseSize # "none" /\ "cyclic" \in Transformed
    \/ EntryThrows(Request, Response)

\* Inside the catch.
FailureThrows == EntryThrows(Request, ErrorResponse)

\* mutant: success is logged as soon as the function has returned
LeaveProcess_Bug(v) ==
    /\ stage = "inside"
    /\ stage' = "told"
    /\ told' = IF v = "success" /\ SuccessThrows THEN "failure" ELSE v
    /\ Log("process", v)
    /\ UNCHANGED <<tracking, answered>>

\* The function has settled.  An exception in the rest of the try is reported
\* as a failure of the function; one in the catch leaves no entry.
LeaveProcess(v) ==
    /\ stage = "inside"
    /\ stage' = "told"
    /\ told' = IF v = "success" /\ SuccessThrows THEN "failure" ELSE v
    /\ IF told' = "failure" /\ FailureThrows THEN UNCHANGED trail
                                             ELSE Log("process", told')
    /\ UNCHANGED <<tracking, answered>>

-----------------------------------------------------------------------------
(* AuditTrailInterceptor and the insertions                                *)

\* The handler goes on with what it was told, and may fail after all.
AnswerRequest ==
    /\ stage = "told" /\ answered = "pending"
    /\ answered' \in {"failure"} \cup {told}
    /\ Log("request", answered')
    /\ UNCHANGED <<tracking, stage, told>>

\* An insertion ends; a rejection is logged and goes no further.
WriteEntry ==
    /\ \E e \in trail, s \in {"stored", "lost"} :
          /\ e.at = "writing"
          /\ trail' = (trail \ {e}) \cup {[e EXCEPT !.at = s]}
    /\ UNCHANGED <<tracking, stage, told, answered>>

AuditStep == EnterProcess \/ AnswerRequest \/ WriteEntry

-----------------------------------------------------------------------------
(* Properties                                                              *)

AuditTypeOK ==
    /\ tracking \in Trackings
    /\ stage \in {"outside", "inside", "told"}
    /\ told \in Verdict \cup {"pending"} /\ answered \in Verdict \cup {"pending"}
    /\ trail \subseteq Entry

Entries(by) == {e \in trail : e.by = by}

\* The trail says of a request and of its process what their callers were told,
\* once each, whatever throws in between: a process without an entry has not
\* run, or its data could not be written (audit-trails.utils l.258-281, l.448).
TrailHonest ==
    /\ \A e \in trail :
          e.verdict = IF e.by = "process" THEN told ELSE answered
    /\ Cardinality(Entries("request")) = IF answered = "pending" THEN 0 ELSE 1
    /\ Cardinality(Entries("process")) <= 1
    /\ stage = "told" /\ Entries("process") = {}
           => told = "failure" /\ (PrologueThrows \/ FailureThrows)
=============================================================================
