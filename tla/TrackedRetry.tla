----------------------------- MODULE TrackedRetry -----------------------------
(***************************************************************************)
(* A request whose process trackProcess tracks and whose work is retried:  *)
(* the composition of Audit and Retry.  What the retries settle for is     *)
(* what trackProcess is told by the function it tracks.                    *)
(***************************************************************************)
EXTENDS Retry, Audit

trackedVars == <<vars, auditVars>>

TrackedInit == Init /\ AuditInit

\* What the retried function returns, or throws.
Settled == outcome # "pending"
Returned == IF outcome \in {"value", "fallback"} THEN "success" ELSE "failure"

\* mutant: the entry is written when the process is entered, not when it ends
Leave_Bug == LeaveProcess("success")

\* The function settles, and trackProcess with it.
Leave == Settled /\ LeaveProcess(Returned)

\* The signal may be given before the work begins; an operation that has timed
\* out goes on when all is told.
Work == Next /\ (stage = "inside" \/ Settled \/ Abort)

TrackedNext ==
    \/ Work /\ UNCHANGED auditVars
    \/ Leave /\ UNCHANGED vars
    \/ AuditStep /\ UNCHANGED vars

TrackedSpec == TrackedInit /\ [][TrackedNext]_trackedVars

\* Timers fire and the event loop goes on with the handler, which awaits nothing
\* but its process; whether an operation or the caller's fallback ever answers is
\* not in the hands of this code.
TrackedFairSpec ==
    /\ TrackedSpec
    /\ WF_trackedVars(EnterProcess /\ UNCHANGED vars)
    /\ WF_trackedVars(Leave /\ UNCHANGED vars)
    /\ WF_trackedVars(AnswerRequest /\ UNCHANGED vars)
    /\ WF_trackedVars(StartAttempt /\ stage = "inside" /\ UNCHANGED auditVars)
    /\ WF_trackedVars(TimeOut /\ stage = "inside" /\ UNCHANGED auditVars)
    /\ WF_trackedVars(WaitOver /\ stage = "inside" /\ UNCHANGED auditVars)

-----------------------------------------------------------------------------
(* Properties                                                              *)

\* The retries and the audit have their types, and no work is done, or entry
\* written, for a process that has not been entered.
TrackedTypeOK ==
    /\ TypeOK /\ AuditTypeOK
    /\ stage = "outside" => attempt = 0 /\ ~Settled /\ trail = {}

\* The client hears of a failure, and the trail says so, although the work was
\* done, only where the audit's own handling of the result throws or the rest
\* of the handler does (audit-trails.utils l.264-349); and never the reverse.
DoneIsToldDone ==
    /\ told = "success" => Settled /\ Returned = "success"
    /\ told = "failure" /\ Settled /\ Returned = "success" => SuccessThrows
    /\ answered = "success" => told = "success"

\* "Timeout per attempt" (global.utils l.270): with one, the client is answered
\* in the end, whether or not the operations ever answer and whatever the audit
\* makes of them.  Only the caller's own fallback, which is awaited without a
\* timer (l.373), can keep it waiting.
RequestAnswered ==
    options.timeout => <>[](answered # "pending" \/ pc = "fallback")

-----------------------------------------------------------------------------
(* The abstract call that this one implements                              *)

Terms ==
    [limit |-> options.retries + 1, choosy |-> ~options.simple,
     substitute |-> options.fallback, signal |-> options.signal]

Trouble ==
    {p \in {"entry", "result", "error"} :
        \/ p = "entry" /\ PrologueThrows
        \/ p = "result" /\ SuccessThrows
        \/ p = "error" /\ FailureThrows}

Said == {[by |-> e.by, verdict |-> e.verdict] : e \in trail}

Call == INSTANCE TrackedCall WITH
    terms <- Terms, trouble <- Trouble, tries <- attempt, halted <- aborted,
    said <- Said

\* Although attempts that have timed out run beside the next and answer late, the
\* signal comes at any moment, and entries are built inside the try of what they
\* are about (global.utils l.287-395, audit-trails.utils l.258-281), client,
\* caller and trail cannot tell the request from a TrackedCall.
ImplementsTrackedCall == Call!Spec
=============================================================================
