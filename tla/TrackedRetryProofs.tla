-------------------------- MODULE TrackedRetryProofs --------------------------
(***************************************************************************)
(* Proofs about TrackedRetry for all values of its constants: any number   *)
(* of retries, any waits and any ways to track a request.                  *)
(***************************************************************************)
EXTENDS TrackedRetry, FiniteSetTheorems, TLAPS

\* Another attempt is due only while the limit allows it.
Bounded == pc \in {"run", "wait"} => attempt <= options.retries

\* The attempt that is awaited has been started and not been given up.
AwaitedIsLast == pc = "attempt" => attempt >= 1 /\ attempt \notin timedOut

\* What still runs is awaited or has been given up.
RunningKnown == \A a \in running : Awaited(a) \/ a \in timedOut

NoTimeouts == ~options.timeout => timedOut = {}

\* A call has an outcome when it is settled, and a winner of its last attempt.
SettledOnce ==
    /\ pc = "settled" <=> outcome # "pending"
    /\ winner # 0 => pc = "settled" /\ winner = attempt /\ winner \notin timedOut

RetryInv ==
    TypeOK /\ Bounded /\ AwaitedIsLast /\ RunningKnown /\ NoTimeouts /\ SettledOnce

\* What AwaitedAnswer and AbortHonoured say of a step.
RightStep ==
    /\ winner' # 0 => winner' = attempt /\ winner' \notin timedOut
    /\ outcome # "pending" => UNCHANGED <<outcome, winner>>
    /\ aborted => attempt' = attempt

\* The types of what the calls compare.
LEMMA Shape ==
    ASSUME TypeOK
    PROVE  /\ options.retries \in Nat /\ attempt \in Nat
           /\ options.signal \in BOOLEAN /\ options.simple \in BOOLEAN
           /\ options.timeout \in BOOLEAN /\ aborted \in BOOLEAN
  <1>1. options \in [retries : 0 .. MaxRetries, timeout : BOOLEAN, jitter : BOOLEAN,
                     fallback : BOOLEAN, signal : BOOLEAN, simple : BOOLEAN]
    BY DEF TypeOK, Options
  <1>2. /\ options.retries \in 0 .. MaxRetries
        /\ options.signal \in BOOLEAN /\ options.simple \in BOOLEAN
        /\ options.timeout \in BOOLEAN
    BY <1>1
  <1>3. options.retries \in Nat /\ attempt \in Nat
    BY <1>2, RetryAssumption DEF TypeOK
  <1>4. aborted \in BOOLEAN
    BY <1>2, Zenon DEF TypeOK
  <1>5. QED
    BY <1>2, <1>3, <1>4

\* TypeOK by the kind of its parts, which the provers deal with one at a time.
Flags ==
    /\ options \in Options /\ aborted \in {FALSE, options.signal}
    /\ options.simple \/ wait <= MaxDelay

Labels ==
    /\ pc \in {"run", "attempt", "wait", "fallback", "settled"}
    /\ outcome \in Outcome \cup {"pending"}
    /\ pc = "settled" <=> outcome # "pending"

Numbers ==
    /\ attempt \in 0 .. options.retries + 1
    /\ running \subseteq 1 .. attempt /\ timedOut \subseteq 1 .. attempt
    /\ delay \in Nat
    /\ wait \in Nat
    /\ winner \in 0 .. attempt

LEMMA InitRetryInv == Init => RetryInv
  <1> SUFFICES ASSUME Init PROVE RetryInv
    OBVIOUS
  <1>1. Flags /\ Labels /\ Numbers
    <2>1. Flags
      <3>1. wait <= MaxDelay
        BY RetryAssumption DEF Init
      <3>2. QED
        BY <3>1, Zenon DEF Init, Flags
    <2>2. Labels
      BY DEF Init, Labels
    <2>3. options.retries \in Nat
      BY <2>1, RetryAssumption DEF Flags, Options
    <2>4. Numbers
      BY <2>3, RetryAssumption DEF Init, Numbers
    <2>5. QED
      BY <2>1, <2>2, <2>4
  <1>2. TypeOK
    BY <1>1, Zenon DEF TypeOK, Flags, Labels, Numbers
  <1>3. QED
    BY <1>2, Shape DEF Init, RetryInv, Bounded, AwaitedIsLast, RunningKnown, NoTimeouts,
       SettledOnce

LEMMA StartAttemptStep ==
    ASSUME RetryInv, StartAttempt
    PROVE  RetryInv' /\ RightStep
  <1> USE DEF RetryInv, StartAttempt, Settle, Pending
  <1>1. TypeOK'
    <2>1. Flags'
      BY DEF TypeOK, Flags
    <2>2. Labels'
      BY DEF TypeOK, Labels, Outcome
    <2>3. ASSUME aborted PROVE Numbers'
      <3>1. winner' = 0 /\ UNCHANGED <<options, attempt, running, timedOut, delay, wait>>
        BY <2>3
      <3>2. QED
        BY <3>1, Shape DEF TypeOK, Numbers
    <2>4. ASSUME ~aborted PROVE Numbers'
      <3>1. attempt' = attempt + 1 /\ attempt + 1 \in 0 .. options.retries + 1
        BY <2>4, Shape DEF Bounded
      <3>2. running' = running \cup {attempt + 1} /\ UNCHANGED <<options, timedOut>>
        BY <2>4
      <3>3. UNCHANGED <<delay, wait, winner>>
        BY <2>4
      <3>4. QED
        BY <3>1, <3>2, <3>3, Shape DEF TypeOK, Numbers
    <2>5. QED
      BY <2>1, <2>2, <2>3, <2>4, Zenon DEF TypeOK, Flags, Labels, Numbers
  <1>2. Bounded' /\ AwaitedIsLast' /\ NoTimeouts' /\ SettledOnce'
    BY DEF TypeOK, Bounded, AwaitedIsLast, NoTimeouts, SettledOnce
  <1>3. RunningKnown'
    BY DEF TypeOK, RunningKnown, Awaited
  <1>4. RightStep
    BY DEF RightStep, SettledOnce
  <1>5. QED
    BY <1>1, <1>2, <1>3, <1>4

\* The waits are natural numbers, and short enough.
LEMMA WaitsBounded ==
    ASSUME TypeOK, NEW w \in Waits
    PROVE  w \in Nat /\ (options.simple \/ w <= MaxDelay)
  <1>1. \A d \in delay \div 2 .. delay + delay \div 2 : d \in Nat
    BY DEF TypeOK
  <1>2. QED
    BY <1>1, RetryAssumption DEF Waits, TypeOK

\* The catch block keeps the invariant, whoever stops running and whoever is
\* given up.
LEMMA RecoverStep ==
    ASSUME RetryInv, pc = "attempt", Recover,
           UNCHANGED <<options, attempt, delay, aborted>>,
           \/ running' = running \ {attempt} /\ UNCHANGED timedOut
           \/ /\ options.timeout /\ UNCHANGED running
              /\ timedOut' = timedOut \cup {attempt}
    PROVE  RetryInv' /\ RightStep
  <1>1. /\ winner = 0 /\ outcome = "pending" /\ winner' = 0
        /\ \/ pc' = "fallback" /\ outcome' = "pending" /\ wait' = wait
           \/ pc' = "settled" /\ outcome' = "error" /\ wait' = wait
           \/ /\ pc' = "wait" /\ outcome' = "pending" /\ attempt <= options.retries
              /\ wait' \in Waits
    BY DEF RetryInv, SettledOnce, Recover, GiveUp, Settle, Pending, Exhausted, TypeOK,
           Options
  <1>2. /\ wait' \in Nat
        /\ options.simple \/ wait' <= MaxDelay
    BY <1>1, WaitsBounded DEF RetryInv, TypeOK
  <1>3. TypeOK'
    <2>1. Flags'
      BY <1>2 DEF RetryInv, TypeOK, Flags
    <2>2. Labels'
      BY <1>1 DEF Labels, Outcome
    <2>3. attempt \in 1 .. attempt
      BY Shape DEF RetryInv, AwaitedIsLast
    <2>4. running' \subseteq 1 .. attempt /\ timedOut' \subseteq 1 .. attempt
      BY <2>3 DEF RetryInv, TypeOK
    <2>5. Numbers'
      BY <1>1, <1>2, <2>4, Shape DEF RetryInv, TypeOK, Numbers
    <2>6. QED
      BY <2>1, <2>2, <2>5, Zenon DEF TypeOK, Flags, Labels, Numbers
  <1>4. Bounded' /\ AwaitedIsLast' /\ NoTimeouts' /\ SettledOnce'
    BY <1>1 DEF RetryInv, Bounded, AwaitedIsLast, NoTimeouts, SettledOnce
  <1>5. RunningKnown'
    BY <1>1 DEF RetryInv, RunningKnown, Awaited
  <1>6. RightStep
    BY <1>1 DEF RightStep
  <1>7. QED
    BY <1>3, <1>4, <1>5, <1>6 DEF RetryInv

\* An answer to nobody changes only what runs.
LEMMA LateAnswerStep ==
    ASSUME RetryInv, NEW a \in running, ~Awaited(a), running' = running \ {a},
           UNCHANGED <<options, pc, attempt, timedOut, delay, wait, aborted, outcome,
                       winner>>
    PROVE  RetryInv' /\ RightStep
  <1>1. TypeOK'
    BY DEF RetryInv, TypeOK
  <1>2. QED
    BY <1>1 DEF RetryInv, Bounded, AwaitedIsLast, RunningKnown, NoTimeouts, SettledOnce,
       Awaited, RightStep, TypeOK

LEMMA SucceedStep ==
    ASSUME RetryInv, NEW a \in 1 .. MaxRetries + 1, Succeed(a)
    PROVE  RetryInv' /\ RightStep
  <1>1. CASE Awaited(a)
    <2>1. /\ pc = "attempt" /\ a = attempt /\ pc' = "settled" /\ outcome' = "value"
          /\ winner' = attempt /\ winner = 0 /\ outcome = "pending"
          /\ running' = running \ {attempt}
          /\ UNCHANGED <<options, attempt, timedOut, delay, wait, aborted>>
      BY <1>1 DEF RetryInv, Succeed, Awaited, Settle, SettledOnce
    <2>2. TypeOK'
      <3>1. Flags'
        BY <2>1 DEF RetryInv, TypeOK, Flags
      <3>2. Labels'
        BY <2>1 DEF Labels, Outcome
      <3>3. Numbers'
        BY <2>1, Shape DEF RetryInv, TypeOK, Numbers, AwaitedIsLast
      <3>4. QED
        BY <3>1, <3>2, <3>3, Zenon DEF TypeOK, Flags, Labels, Numbers
    <2>3. QED
      BY <2>1, <2>2 DEF RetryInv, Bounded, AwaitedIsLast, RunningKnown, NoTimeouts,
         SettledOnce, Awaited, RightStep
  <1>2. CASE ~Awaited(a)
    BY <1>2, LateAnswerStep DEF Succeed
  <1>3. QED
    BY <1>1, <1>2

LEMMA RejectStep ==
    ASSUME RetryInv, NEW a \in 1 .. MaxRetries + 1, Reject(a)
    PROVE  RetryInv' /\ RightStep
  <1>1. CASE Awaited(a)
    BY <1>1, RecoverStep DEF Reject, Awaited
  <1>2. CASE ~Awaited(a)
    BY <1>2, LateAnswerStep DEF Reject
  <1>3. QED
    BY <1>1, <1>2

LEMMA TimeOutStep ==
    ASSUME RetryInv, TimeOut
    PROVE  RetryInv' /\ RightStep
  BY RecoverStep DEF TimeOut

LEMMA WaitOverStep ==
    ASSUME RetryInv, WaitOver
    PROVE  RetryInv' /\ RightStep
  <1>1. TypeOK'
    <2>1. Flags'
      BY DEF RetryInv, TypeOK, Flags, WaitOver
    <2>2. Labels'
      BY DEF RetryInv, TypeOK, Labels, WaitOver
    <2>3. Numbers'
      BY Shape DEF RetryInv, TypeOK, Numbers, WaitOver
    <2>4. QED
      BY <2>1, <2>2, <2>3, Zenon DEF TypeOK, Flags, Labels, Numbers
  <1>2. QED
    BY <1>1 DEF RetryInv, WaitOver, Bounded, AwaitedIsLast, RunningKnown, NoTimeouts,
       SettledOnce, Awaited, RightStep

\* Of a call that waits, the signal settles it; of another only the flag is set.
LEMMA AbortStep ==
    ASSUME RetryInv, Abort
    PROVE  RetryInv' /\ RightStep
  <1>1. TypeOK'
    <2>1. Flags'
      BY Shape DEF RetryInv, TypeOK, Flags, Abort
    <2>2. Labels'
      BY DEF RetryInv, TypeOK, Labels, Abort, Settle, Outcome
    <2>3. Numbers'
      BY Shape DEF RetryInv, TypeOK, Numbers, Abort, Settle
    <2>4. QED
      BY <2>1, <2>2, <2>3, Zenon DEF TypeOK, Flags, Labels, Numbers
  <1>2. QED
    BY <1>1 DEF RetryInv, Abort, Settle, Bounded, AwaitedIsLast, RunningKnown, NoTimeouts,
       SettledOnce, Awaited, RightStep

LEMMA FallbackStep ==
    ASSUME RetryInv, Fallback
    PROVE  RetryInv' /\ RightStep
  <1>1. TypeOK'
    <2>1. Flags'
      BY DEF RetryInv, TypeOK, Flags, Fallback
    <2>2. Labels'
      BY DEF RetryInv, TypeOK, Labels, Fallback, Settle, Outcome
    <2>3. winner' = 0 /\ UNCHANGED <<options, attempt, running, timedOut, delay, wait>>
      BY DEF Fallback, Settle
    <2>4. Numbers'
      BY <2>3, Shape DEF RetryInv, TypeOK, Numbers
    <2>5. QED
      BY <2>1, <2>2, <2>4, Zenon DEF TypeOK, Flags, Labels, Numbers
  <1>2. QED
    BY <1>1 DEF RetryInv, Fallback, Settle, Bounded, AwaitedIsLast, RunningKnown,
       NoTimeouts, SettledOnce, Awaited, RightStep

LEMMA RetryStutter ==
    ASSUME RetryInv, UNCHANGED vars
    PROVE  RetryInv' /\ RightStep
  BY DEF vars, RetryInv, TypeOK, Bounded, AwaitedIsLast, RunningKnown, NoTimeouts,
     SettledOnce, Awaited, RightStep

LEMMA RetryStep ==
    ASSUME RetryInv, [Next]_vars
    PROVE  RetryInv' /\ RightStep
  <1>1. CASE \E a \in 1 .. MaxRetries + 1 : Succeed(a) \/ Reject(a)
    BY <1>1, SucceedStep, RejectStep
  <1>2. QED
    BY <1>1, StartAttemptStep, TimeOutStep, WaitOverStep, AbortStep, FallbackStep,
       RetryStutter DEF Next

-----------------------------------------------------------------------------
(* The audit                                                               *)

\* Nothing has begun before the process is entered.
Outside == stage = "outside" => pc = "run" /\ attempt = 0 /\ trail = {}

\* A request is answered after its process, and not better than it.
AnsweredAfter ==
    /\ stage = "told" <=> told # "pending"
    /\ answered # "pending" => stage = "told"
    /\ answered = "success" => told = "success"

\* Each of the two entries is there once, when its time has come, and right.
OneEntry ==
    /\ stage # "told" => trail = {}
    /\ answered = "pending" => Entries("request") = {}
    /\ answered # "pending" =>
          \E e \in Entry : Entries("request") = {e} /\ e.verdict = answered
    /\ \/ Entries("process") = {}
       \/ \E e \in Entry : Entries("process") = {e} /\ e.verdict = told

Unlogged ==
    stage = "told" /\ Entries("process") = {}
        => told = "failure" /\ (PrologueThrows \/ FailureThrows)

\* What throws is settled by the options and the data of the call.
LEMMA SameTracking ==
    ASSUME UNCHANGED tracking
    PROVE  /\ PrologueThrows' <=> PrologueThrows
           /\ SuccessThrows' <=> SuccessThrows
           /\ FailureThrows' <=> FailureThrows
  BY DEF PrologueThrows, SuccessThrows, FailureThrows, EntryThrows, Request, Response,
         ErrorResponse, Transformed, Limited

\* The inductive invariant.
IInv ==
    RetryInv /\ AuditTypeOK /\ Outside /\ AnsweredAfter /\ OneEntry /\ Unlogged
    /\ DoneIsToldDone

LEMMA InitIInv == TrackedInit => IInv
  <1> SUFFICES ASSUME TrackedInit PROVE IInv
    OBVIOUS
  <1>1. RetryInv
    BY InitRetryInv DEF TrackedInit
  <1>2. pc = "run" /\ attempt = 0 /\ outcome = "pending"
    BY DEF TrackedInit, Init
  <1>3. /\ tracking \in Trackings /\ stage = "outside" /\ told = "pending"
        /\ answered = "pending" /\ trail = {}
    BY DEF TrackedInit, AuditInit
  <1>4. QED
    BY <1>1, <1>2, <1>3
       DEF IInv, AuditTypeOK, Verdict, Outside, AnsweredAfter, OneEntry, Unlogged, Entries,
           DoneIsToldDone, Settled

\* The steps of the retries leave the audit alone; what has been told stays
\* true, for an outcome is final, and before it only the signal may come.
LEMMA WorkStep ==
    ASSUME IInv, Work, UNCHANGED auditVars
    PROVE  IInv' /\ RightStep
  <1>1. RetryInv' /\ RightStep
    BY RetryStep DEF IInv, Work
  <1>2. /\ AuditTypeOK' /\ AnsweredAfter' /\ OneEntry' /\ Unlogged'
    BY SameTracking DEF IInv, auditVars, AuditTypeOK, AnsweredAfter, OneEntry, Entries, Unlogged
  <1>3. Settled => UNCHANGED outcome
    BY <1>1 DEF RightStep, Settled
  <1>4. stage # "inside" /\ ~Settled
            => /\ UNCHANGED attempt
               /\ UNCHANGED <<pc, outcome>> \/ (pc = "wait" /\ outcome' = "aborted")
    <2>1. stage # "inside" /\ ~Settled => Abort
      BY Zenon DEF Work
    <2>2. Abort => /\ UNCHANGED attempt
                   /\ UNCHANGED <<pc, outcome>> \/ (pc = "wait" /\ outcome' = "aborted")
      BY DEF Abort, Settle
    <2>3. QED
      BY <2>1, <2>2
  <1>5. Outside'
    BY <1>3, <1>4 DEF IInv, Outside, auditVars, RetryInv, SettledOnce, Settled
  <1>6. DoneIsToldDone'
    BY <1>3, <1>4, SameTracking, Zenon
       DEF IInv, DoneIsToldDone, AnsweredAfter, auditVars, Settled, Returned
  <1>7. QED
    BY <1>1, <1>2, <1>5, <1>6 DEF IInv

LEMMA EnterProcessStep ==
    ASSUME IInv, EnterProcess, UNCHANGED vars
    PROVE  IInv' /\ RightStep
  <1>1. RetryInv' /\ RightStep
    BY RetryStutter DEF IInv
  <1>2. /\ stage = "outside" /\ told = "pending" /\ answered = "pending" /\ trail = {}
        /\ outcome = "pending"
    BY DEF IInv, EnterProcess, Outside, AnsweredAfter, RetryInv, SettledOnce
  <1>3. /\ UNCHANGED <<tracking, answered, trail, outcome>>
        /\ \/ PrologueThrows /\ stage' = "told" /\ told' = "failure"
           \/ stage' = "inside" /\ told' = "pending"
    BY <1>2, Zenon DEF EnterProcess, vars
  <1>4. PrologueThrows' <=> PrologueThrows
    BY <1>3, SameTracking
  <1>5. /\ AuditTypeOK' /\ Outside' /\ AnsweredAfter' /\ OneEntry'
    BY <1>2, <1>3 DEF IInv, AuditTypeOK, Verdict, Outside, AnsweredAfter, OneEntry, Entries
  <1>6. Unlogged'
    BY <1>2, <1>3, <1>4, Zenon DEF Unlogged
  <1>7. DoneIsToldDone'
    BY <1>2, <1>3 DEF DoneIsToldDone, Settled
  <1>8. QED
    BY <1>1, <1>5, <1>6, <1>7 DEF IInv

LEMMA LeaveStep ==
    ASSUME IInv, Leave, UNCHANGED vars
    PROVE  IInv' /\ RightStep
  <1>1. RetryInv' /\ RightStep
    BY RetryStutter DEF IInv
  <1>2. /\ stage = "inside" /\ Settled /\ stage' = "told"
        /\ trail = {} /\ answered = "pending"
        /\ UNCHANGED <<tracking, answered, outcome>>
    BY DEF IInv, Leave, LeaveProcess, OneEntry, AnsweredAfter, vars
  <1>3. /\ told' \in Verdict
        /\ told' = "success" => Returned = "success"
        /\ told' = "failure" /\ Returned = "success" => SuccessThrows
    BY Zenon DEF Leave, LeaveProcess, Returned, Verdict
  <1>4. \/ told' = "failure" /\ FailureThrows /\ trail' = {}
        \/ trail' = {[by |-> "process", verdict |-> told', at |-> "writing"]}
    BY <1>2, Zenon DEF Leave, LeaveProcess, Log
  <1>5. FailureThrows' <=> FailureThrows
    BY <1>2, SameTracking
  <1>6. AuditTypeOK'
    BY <1>2, <1>3, <1>4 DEF IInv, AuditTypeOK, Verdict, Entry
  <1>7. Outside' /\ AnsweredAfter'
    BY <1>2, <1>3 DEF IInv, Outside, AnsweredAfter, Verdict
  <1>8. OneEntry'
    <2>1. CASE trail' = {}
      BY <1>2, <2>1 DEF OneEntry, Entries
    <2>2. CASE trail' = {[by |-> "process", verdict |-> told', at |-> "writing"]}
      <3> DEFINE e == [by |-> "process", verdict |-> told', at |-> "writing"]
      <3>1. e \in Entry /\ e.by = "process" /\ e.verdict = told'
        BY <1>3 DEF Entry
      <3>2. Entries("process")' = {e} /\ Entries("request")' = {}
        BY <2>2, <3>1 DEF Entries
      <3>3. QED
        BY <1>2, <3>1, <3>2 DEF OneEntry
    <2>3. QED
      BY <1>4, <2>1, <2>2
  <1>9. Unlogged'
    <2>1. CASE trail' = {[by |-> "process", verdict |-> told', at |-> "writing"]}
      <3>1. [by |-> "process", verdict |-> told', at |-> "writing"] \in Entries("process")'
        BY <2>1 DEF Entries
      <3>2. QED
        BY <3>1, Zenon DEF Unlogged
    <2>2. QED
      BY <1>4, <1>5, <2>1, Zenon DEF Unlogged
  <1>10. DoneIsToldDone'
    BY <1>2, <1>3, SameTracking, Zenon DEF DoneIsToldDone, Settled, Returned
  <1>11. QED
    BY <1>1, <1>6, <1>7, <1>8, <1>9, <1>10 DEF IInv

LEMMA AnswerRequestStep ==
    ASSUME IInv, AnswerRequest, UNCHANGED vars
    PROVE  IInv' /\ RightStep
  <1> DEFINE e == [by |-> "request", verdict |-> answered', at |-> "writing"]
  <1>1. RetryInv' /\ RightStep
    BY RetryStutter DEF IInv
  <1>2. /\ stage = "told" /\ answered = "pending" /\ trail' = trail \cup {e}
        /\ answered' \in {"failure", told} /\ told \in Verdict
        /\ UNCHANGED <<tracking, stage, told, outcome>>
    BY DEF IInv, AnswerRequest, Log, AnsweredAfter, AuditTypeOK, vars
  <1>3. e \in Entry /\ e.by = "request" /\ e.verdict = answered'
    BY <1>2 DEF Entry, Verdict
  <1>4. Entries("request")' = {e} /\ UNCHANGED Entries("process")
    BY <1>2, <1>3 DEF IInv, OneEntry, Entries
  <1> HIDE DEF e
  <1>5. AuditTypeOK'
    BY <1>2, <1>3 DEF IInv, AuditTypeOK, Verdict
  <1>6. Outside' /\ AnsweredAfter'
    BY <1>2 DEF IInv, Outside, AnsweredAfter, Verdict
  <1>7. OneEntry'
    BY <1>2, <1>3, <1>4 DEF IInv, OneEntry, Verdict
  <1>8. Unlogged'
    BY <1>2, <1>4, SameTracking, Zenon DEF IInv, Unlogged
  <1>9. DoneIsToldDone'
    BY <1>2, SameTracking, Zenon DEF IInv, DoneIsToldDone, Settled, Returned, Verdict
  <1>10. QED
    BY <1>1, <1>5, <1>6, <1>7, <1>8, <1>9 DEF IInv

LEMMA WriteEntryStep ==
    ASSUME IInv, WriteEntry, UNCHANGED vars
    PROVE  IInv' /\ RightStep
  <1>1. RetryInv' /\ RightStep
    BY RetryStutter DEF IInv
  <1>2. PICK e \in trail, s \in {"stored", "lost"} :
            trail' = (trail \ {e}) \cup {[e EXCEPT !.at = s]}
    BY DEF WriteEntry
  <1> DEFINE f == [e EXCEPT !.at = s]
  <1>3. /\ e \in Entry /\ f \in Entry /\ f.by = e.by /\ f.verdict = e.verdict
    BY DEF IInv, AuditTypeOK, Entry
  <1> HIDE DEF f
  <1>4. UNCHANGED <<tracking, stage, told, answered, outcome>>
    BY DEF WriteEntry, vars
  <1>5. \A by : Entries(by)' = IF by = e.by THEN (Entries(by) \ {e}) \cup {f} ELSE Entries(by)
    BY <1>2, <1>3 DEF Entries, f
  <1>6. stage = "told" /\ e \in Entries(e.by) /\ e.by \in {"process", "request"}
    BY <1>3 DEF IInv, OneEntry, Entries, Entry
  <1>7. AuditTypeOK' /\ Outside' /\ AnsweredAfter'
    BY <1>2, <1>3, <1>4, <1>6 DEF IInv, AuditTypeOK, Outside, AnsweredAfter, f
  <1>8. OneEntry'
    <2>1. CASE e.by = "request"
      <3>1. Entries("request")' = {f} /\ f.verdict = answered /\ answered # "pending"
        BY <1>3, <1>5, <1>6, <2>1 DEF IInv, OneEntry
      <3>2. UNCHANGED Entries("process")
        BY <1>5, <2>1
      <3>3. QED
        BY <1>3, <1>4, <1>6, <3>1, <3>2 DEF IInv, OneEntry
    <2>2. CASE e.by = "process"
      <3>1. Entries("process")' = {f} /\ f.verdict = told
        BY <1>3, <1>5, <1>6, <2>2 DEF IInv, OneEntry
      <3>2. UNCHANGED Entries("request")
        BY <1>5, <2>2
      <3>3. QED
        BY <1>3, <1>4, <1>6, <3>1, <3>2 DEF IInv, OneEntry
    <2>3. QED
      BY <1>6, <2>1, <2>2
  <1>9. Unlogged'
    <2>1. Entries("process")' = {} => Entries("process") = {}
      BY <1>5, <1>6
    <2>2. QED
      BY <1>4, <2>1, SameTracking, Zenon DEF IInv, Unlogged
  <1>10. DoneIsToldDone'
    BY <1>4, SameTracking, Zenon DEF IInv, DoneIsToldDone, Settled, Returned
  <1>11. QED
    BY <1>1, <1>7, <1>8, <1>9, <1>10 DEF IInv

LEMMA NextIInv ==
    ASSUME IInv, [TrackedNext]_trackedVars
    PROVE  IInv' /\ RightStep
  <1>1. CASE Work /\ UNCHANGED auditVars
    BY <1>1, WorkStep
  <1>2. CASE Leave /\ UNCHANGED vars
    BY <1>2, LeaveStep
  <1>3. CASE AuditStep /\ UNCHANGED vars
    BY <1>3, EnterProcessStep, AnswerRequestStep, WriteEntryStep DEF AuditStep
  <1>4. CASE UNCHANGED trackedVars
    <2>1. RetryInv' /\ RightStep
      BY <1>4, RetryStutter DEF IInv, trackedVars
    <2>2. UNCHANGED <<tracking, stage, told, answered, trail, pc, attempt, outcome>>
      BY <1>4 DEF trackedVars, auditVars, vars
    <2>3. AuditTypeOK' /\ Outside' /\ AnsweredAfter' /\ OneEntry' /\ Unlogged' /\ DoneIsToldDone'
      BY <2>2, SameTracking, Zenon DEF IInv, AuditTypeOK, Outside, AnsweredAfter, OneEntry,
         Entries, Unlogged, DoneIsToldDone, Settled, Returned
    <2>4. QED
      BY <2>1, <2>3 DEF IInv
  <1>5. QED
    BY <1>1, <1>2, <1>3, <1>4 DEF TrackedNext

-----------------------------------------------------------------------------
\* IInv holds in every reachable state.
THEOREM InductiveInvariant == TrackedSpec => []IInv
  <1>1. IInv /\ [TrackedNext]_trackedVars => IInv'
    BY NextIInv
  <1>2. QED
    BY <1>1, InitIInv, PTL DEF TrackedSpec

\* Every variable keeps its type, and nothing begins before the process is
\* entered.
THEOREM TypeCorrect == TrackedSpec => []TrackedTypeOK
  <1>1. IInv => TrackedTypeOK
    BY DEF IInv, RetryInv, TrackedTypeOK, Outside, SettledOnce, Settled
  <1>2. QED
    BY <1>1, InductiveInvariant, PTL

\* No operation runs beside the one awaited, nor after the answer, but those
\* that have timed out.
THEOREM NoOverlapHolds == TrackedSpec => []NoOverlap
  <1>1. IInv => NoOverlap
    <2> SUFFICES ASSUME IInv PROVE NoOverlap
      OBVIOUS
    <2>1. \A a \in running : Awaited(a) \/ a \in timedOut
      BY DEF IInv, RetryInv, RunningKnown
    <2>2. ~options.timeout => running = {} \/ running = {attempt}
      BY <2>1 DEF IInv, RetryInv, NoTimeouts, Awaited
    <2>3. Cardinality({}) = 0 /\ Cardinality({attempt}) = 1
      BY FS_EmptySet, FS_Singleton
    <2>4. ~options.timeout => Cardinality(running) <= 1
      BY <2>2, <2>3
    <2>5. ~options.timeout /\ pc = "settled" => running = {}
      BY <2>1 DEF IInv, RetryInv, NoTimeouts, Awaited
    <2>6. QED
      BY <2>1, <2>4, <2>5, Zenon DEF NoOverlap
  <1>2. QED
    BY <1>1, InductiveInvariant, PTL

\* The trail says what the callers were told, once each.
THEOREM TrailHonestHolds == TrackedSpec => []TrailHonest
  <1>1. IInv => TrailHonest
    <2> SUFFICES ASSUME IInv PROVE TrailHonest
      OBVIOUS
    <2>1. \A e \in trail : e.by \in {"process", "request"} /\ e \in Entries(e.by)
      BY DEF IInv, AuditTypeOK, Entry, Entries
    <2>2. \A e \in trail : e.verdict = IF e.by = "process" THEN told ELSE answered
      BY <2>1 DEF IInv, OneEntry
    <2>3. Cardinality({}) = 0 /\ \A e : Cardinality({e}) = 1
      BY FS_EmptySet, FS_Singleton
    <2>4. Cardinality(Entries("request")) = IF answered = "pending" THEN 0 ELSE 1
      BY <2>3 DEF IInv, OneEntry
    <2>5. Cardinality(Entries("process")) <= 1
      <3>1. Cardinality(Entries("process")) \in {0, 1}
        BY <2>3, Zenon DEF IInv, OneEntry
      <3>2. QED
        BY <3>1
    <2>6. QED
      BY <2>2, <2>4, <2>5, Zenon DEF IInv, Unlogged, TrailHonest
  <1>2. QED
    BY <1>1, InductiveInvariant, PTL

\* A success is told only of work that succeeded, a failure of work done only
\* where the handling of the result throws.
THEOREM DoneIsToldDoneHolds == TrackedSpec => []DoneIsToldDone
  <1>1. IInv => DoneIsToldDone
    BY DEF IInv
  <1>2. QED
    BY <1>1, InductiveInvariant, PTL

\* The answer is that of the last attempt, which has not timed out, and final.
THEOREM AwaitedAnswerHolds == TrackedSpec => AwaitedAnswer
  <1>1. IInv /\ [TrackedNext]_trackedVars
            => [/\ winner' # 0 => winner' = attempt /\ winner' \notin timedOut
                /\ outcome # "pending" => UNCHANGED <<outcome, winner>>]_vars
    BY NextIInv DEF RightStep
  <1>2. QED
    BY <1>1, InductiveInvariant, PTL DEF TrackedSpec, AwaitedAnswer

\* No attempt starts once the signal has been given.
THEOREM AbortHonouredHolds == TrackedSpec => AbortHonoured
  <1>1. IInv /\ [TrackedNext]_trackedVars => [aborted => attempt' = attempt]_vars
    BY NextIInv DEF RightStep
  <1>2. QED
    BY <1>1, InductiveInvariant, PTL DEF TrackedSpec, AbortHonoured

-----------------------------------------------------------------------------
(* The implementation of TrackedCall                                       *)

\* The process goes in only where the prologue lets it, and what has been told
\* before the call settled was told by the prologue.
Entered ==
    /\ stage = "inside" => ~PrologueThrows
    /\ stage = "told" /\ ~Settled => pc = "run"

\* A call at its fallback has one, and is past its last attempt, or past an
\* error that its caller may have refused to retry.
Desperate ==
    pc = "fallback" =>
        options.fallback /\ attempt >= 1 /\ (Exhausted \/ ~options.simple)

CallInv == Entered /\ Desperate

LEMMA TroubleFacts ==
    /\ "entry" \in Trouble <=> PrologueThrows
    /\ "result" \in Trouble <=> SuccessThrows
    /\ "error" \in Trouble <=> FailureThrows
    /\ UNCHANGED tracking => UNCHANGED Trouble
  <1>1. /\ "entry" \in Trouble <=> PrologueThrows
        /\ "result" \in Trouble <=> SuccessThrows
        /\ "error" \in Trouble <=> FailureThrows
    BY DEF Trouble
  <1>2. UNCHANGED tracking => UNCHANGED Trouble
    BY SameTracking DEF Trouble
  <1>3. QED
    BY <1>1, <1>2

LEMMA TermsFacts ==
    /\ Terms.limit = options.retries + 1 /\ Terms.choosy = ~options.simple
    /\ Terms.substitute = options.fallback /\ Terms.signal = options.signal
    /\ UNCHANGED options => UNCHANGED Terms
  BY DEF Terms

\* Of the work on a call that has not settled only the signal is not inside.
LEMMA WorkInside ==
    ASSUME IInv, CallInv, Work, ~Abort, ~Settled
    PROVE  /\ stage = "inside" /\ told = "pending" /\ outcome = "pending"
           /\ "entry" \notin Trouble
  <1>1. stage = "inside"
    BY Zenon DEF Work
  <1>2. told = "pending" /\ outcome = "pending"
    BY <1>1 DEF IInv, AnsweredAfter, Settled
  <1>3. "entry" \notin Trouble
    BY <1>1, TroubleFacts DEF CallInv, Entered
  <1>4. QED
    BY <1>1, <1>2, <1>3

\* What the work leaves alone.
LEMMA AuditSame ==
    ASSUME UNCHANGED auditVars
    PROVE  UNCHANGED <<Trouble, told, answered, Said>>
  BY TroubleFacts DEF auditVars, Said

LEMMA StartAttemptImplements ==
    ASSUME IInv, CallInv, StartAttempt, Work, ~Abort, UNCHANGED auditVars
    PROVE  [Call!Next]_(Call!vars)
  <1>1. ~Settled /\ pc = "run"
    BY DEF StartAttempt, IInv, RetryInv, SettledOnce, Settled
  <1>2. /\ told = "pending" /\ outcome = "pending" /\ "entry" \notin Trouble
        /\ UNCHANGED <<Trouble, told, answered, Said>>
    BY <1>1, WorkInside, AuditSame
  <1>3. UNCHANGED <<Terms, aborted>>
    BY TermsFacts DEF StartAttempt
  <1>4. CASE aborted
    <2>1. Terms.signal /\ aborted'
      BY <1>3, <1>4, TermsFacts, Zenon DEF IInv, RetryInv, TypeOK
    <2>2. outcome' = "aborted" /\ winner' = 0 /\ attempt' = attempt
      BY <1>4 DEF StartAttempt, Settle
    <2>3. Call!Stop
      BY <1>2, <1>3, <1>4, <2>1, <2>2, Shape
         DEF Call!Stop, Call!Settle, Call!AtWork, IInv, RetryInv
    <2>4. QED
      BY <2>3 DEF Call!Next
  <1>5. CASE ~aborted
    <2>1. attempt' = attempt + 1 /\ UNCHANGED <<outcome, winner>>
      BY <1>5 DEF StartAttempt, Pending
    <2>2. attempt < Terms.limit
      BY <1>1, TermsFacts, Shape DEF IInv, RetryInv, Bounded
    <2>3. Call!Try
      BY <1>2, <1>3, <1>5, <2>1, <2>2 DEF Call!Try, Call!AtWork
    <2>4. QED
      BY <2>3 DEF Call!Next
  <1>6. QED
    BY <1>4, <1>5

\* Where the retries give up, TrackedCall may.
LEMMA LastTry ==
    ASSUME RetryInv, attempt >= 1, Exhausted \/ ~options.simple
    PROVE  attempt > 0 /\ (attempt = Terms.limit \/ Terms.choosy)
  <1>1. attempt \in 0 .. options.retries + 1 /\ options.retries \in Nat
    BY Shape DEF RetryInv, TypeOK
  <1>2. Exhausted => attempt = options.retries + 1
    BY <1>1 DEF Exhausted
  <1>3. attempt > 0
    BY <1>1
  <1>4. QED
    BY <1>2, <1>3, TermsFacts, Zenon

\* The catch block ends the call for an error, or nobody notices it.
LEMMA RecoverImplements ==
    ASSUME IInv, CallInv, pc = "attempt", Recover, Work, ~Abort, UNCHANGED auditVars,
           UNCHANGED <<options, attempt, aborted>>
    PROVE  [Call!Next]_(Call!vars)
  <1>1. ~Settled
    BY DEF IInv, RetryInv, SettledOnce, Settled
  <1>2. /\ told = "pending" /\ outcome = "pending" /\ "entry" \notin Trouble
        /\ UNCHANGED <<Trouble, told, answered, Said, Terms>>
    BY <1>1, WorkInside, AuditSame, TermsFacts
  <1>3. CASE UNCHANGED <<outcome, winner>>
    BY <1>2, <1>3 DEF Call!vars
  <1>4. CASE ~UNCHANGED <<outcome, winner>>
    <2>1. /\ outcome' = "error" /\ winner' = 0
          /\ Exhausted \/ ~options.simple
          /\ ~options.fallback \/ ~Exhausted
      BY <1>4, Zenon DEF Recover, GiveUp, Settle, Pending
    <2>2. Call!Settle("error", 0)
      BY <1>2, <2>1 DEF Call!Settle, Call!AtWork
    <2>3. CASE ~options.fallback
      <3>1. attempt > 0 /\ (attempt = Terms.limit \/ Terms.choosy)
        BY <2>1, LastTry DEF IInv, RetryInv, AwaitedIsLast
      <3>2. Call!Despair
        BY <2>2, <2>3, <3>1, TermsFacts DEF Call!Despair
      <3>3. QED
        BY <3>2 DEF Call!Next
    <2>4. CASE ~Exhausted
      <3>1. Terms.choosy
        BY <2>1, <2>4, TermsFacts, Zenon
      <3>2. attempt \in Nat /\ options.retries \in Nat /\ attempt >= 1
        BY Shape DEF IInv, RetryInv, AwaitedIsLast
      <3>3. attempt \in 1 .. Terms.limit - 1
        BY <2>4, <3>2, TermsFacts DEF Exhausted
      <3>4. Call!Blunder
        BY <2>2, <3>1, <3>3 DEF Call!Blunder
      <3>5. QED
        BY <3>4 DEF Call!Next
    <2>5. QED
      BY <2>1, <2>3, <2>4
  <1>5. QED
    BY <1>3, <1>4

\* An answer that nobody waits for is not noticed either.
LEMMA SucceedImplements ==
    ASSUME IInv, CallInv, NEW a \in 1 .. MaxRetries + 1, Succeed(a), Work, ~Abort,
           UNCHANGED auditVars
    PROVE  [Call!Next]_(Call!vars)
  <1>1. UNCHANGED <<Trouble, told, answered, Said, Terms, attempt, aborted>>
    BY AuditSame, TermsFacts DEF Succeed
  <1>2. CASE Awaited(a)
    <2>1. /\ pc = "attempt" /\ attempt >= 1 /\ ~Settled
          /\ outcome' = "value" /\ winner' = attempt
      BY <1>2 DEF Succeed, Awaited, Settle, Settled, IInv, RetryInv, AwaitedIsLast, SettledOnce
    <2>2. told = "pending" /\ outcome = "pending" /\ "entry" \notin Trouble
      BY <2>1, WorkInside
    <2>3. Call!Achieve
      BY <1>1, <2>1, <2>2, Shape
         DEF Call!Achieve, Call!Settle, Call!AtWork, IInv, RetryInv
    <2>4. QED
      BY <2>3 DEF Call!Next
  <1>3. CASE ~Awaited(a)
    BY <1>1, <1>3 DEF Succeed, Call!vars
  <1>4. QED
    BY <1>2, <1>3

LEMMA RejectImplements ==
    ASSUME IInv, CallInv, NEW a \in 1 .. MaxRetries + 1, Reject(a), Work, ~Abort,
           UNCHANGED auditVars
    PROVE  [Call!Next]_(Call!vars)
  <1>1. CASE Awaited(a)
    BY <1>1, RecoverImplements DEF Reject, Awaited
  <1>2. CASE ~Awaited(a)
    BY <1>2, AuditSame, TermsFacts DEF Reject, Call!vars
  <1>3. QED
    BY <1>1, <1>2

LEMMA FallbackImplements ==
    ASSUME IInv, CallInv, Fallback, Work, ~Abort, UNCHANGED auditVars
    PROVE  [Call!Next]_(Call!vars)
  <1>1. pc = "fallback" /\ ~Settled
    BY DEF Fallback, IInv, RetryInv, SettledOnce, Settled
  <1>2. PICK o \in {"fallback", "fallback failed"} : outcome' = o /\ winner' = 0
    BY DEF Fallback, Settle
  <1>3. /\ told = "pending" /\ outcome = "pending" /\ "entry" \notin Trouble
        /\ UNCHANGED <<Trouble, told, answered, Said, Terms, attempt, aborted>>
    BY <1>1, WorkInside, AuditSame, TermsFacts DEF Fallback
  <1>4. Terms.substitute /\ attempt > 0 /\ (attempt = Terms.limit \/ Terms.choosy)
    BY <1>1, TermsFacts, LastTry DEF IInv, CallInv, Desperate
  <1>5. Call!Settle(o, 0)
    BY <1>2, <1>3 DEF Call!Settle, Call!AtWork
  <1>6. Call!Despair
    BY <1>3, <1>4, <1>5 DEF Call!Despair
  <1>7. QED
    BY <1>6 DEF Call!Next

\* The signal stops a call that waits, which is inside then; another one will
\* look at the flag.
LEMMA AbortImplements ==
    ASSUME IInv, CallInv, Abort, UNCHANGED auditVars
    PROVE  [Call!Next]_(Call!vars)
  <1>1. /\ Terms.signal /\ aborted' = TRUE
        /\ UNCHANGED <<Trouble, told, answered, Said, Terms, attempt>>
    BY AuditSame, TermsFacts DEF Abort
  <1>2. CASE pc = "wait"
    <2>1. /\ outcome' = "aborted" /\ winner' = 0 /\ outcome = "pending"
      BY <1>2 DEF Abort, Settle, IInv, RetryInv, SettledOnce
    <2>2. stage = "inside"
      BY <1>2, <2>1 DEF IInv, Outside, AuditTypeOK, CallInv, Entered, Settled
    <2>3. told = "pending" /\ "entry" \notin Trouble
      BY <2>2, TroubleFacts DEF IInv, AnsweredAfter, CallInv, Entered
    <2>4. Call!Stop
      BY <1>1, <2>1, <2>3 DEF Call!Stop, Call!Settle, Call!AtWork
    <2>5. QED
      BY <2>4 DEF Call!Next
  <1>3. CASE pc # "wait"
    <2>1. UNCHANGED <<outcome, winner>>
      BY <1>3 DEF Abort
    <2>2. Call!Halt
      BY <1>1, <2>1 DEF Call!Halt
    <2>3. QED
      BY <2>2 DEF Call!Next
  <1>4. QED
    BY <1>2, <1>3

LEMMA WorkImplements ==
    ASSUME IInv, CallInv, Work, UNCHANGED auditVars
    PROVE  [Call!Next]_(Call!vars)
  <1>1. CASE Abort
    BY <1>1, AbortImplements
  <1>2. CASE ~Abort
    <2>1. CASE StartAttempt
      BY <1>2, <2>1, StartAttemptImplements
    <2>2. CASE TimeOut
      BY <1>2, <2>2, RecoverImplements DEF TimeOut
    <2>3. CASE WaitOver
      BY <2>3, AuditSame, TermsFacts DEF WaitOver, Call!vars
    <2>4. CASE Fallback
      BY <1>2, <2>4, FallbackImplements
    <2>5. CASE \E a \in 1 .. MaxRetries + 1 : Succeed(a) \/ Reject(a)
      BY <1>2, <2>5, SucceedImplements, RejectImplements
    <2>6. Next
      BY Zenon DEF Work
    <2>7. QED
      BY <1>2, <2>1, <2>2, <2>3, <2>4, <2>5, <2>6 DEF Next
  <1>3. QED
    BY <1>1, <1>2

\* A new entry, and one whose insertion has ended.
LEMMA LogSays ==
    ASSUME NEW by, NEW v, Log(by, v)
    PROVE  Said' = Said \cup {[by |-> by, verdict |-> v]}
  <1> DEFINE e == [by |-> by, verdict |-> v, at |-> "writing"]
  <1>1. trail' = trail \cup {e} /\ e.by = by /\ e.verdict = v
    BY DEF Log
  <1> HIDE DEF e
  <1>2. QED
    BY <1>1 DEF Said

LEMMA WriteEntrySame ==
    ASSUME AuditTypeOK, WriteEntry
    PROVE  Said' = Said
  <1>1. PICK e \in trail, s \in {"stored", "lost"} :
            trail' = (trail \ {e}) \cup {[e EXCEPT !.at = s]}
    BY DEF WriteEntry
  <1> DEFINE f == [e EXCEPT !.at = s]
  <1>2. f.by = e.by /\ f.verdict = e.verdict
    BY DEF AuditTypeOK, Entry
  <1>3. trail' = (trail \ {e}) \cup {f}
    BY <1>1
  <1> HIDE DEF f
  <1>4. QED
    BY <1>2, <1>3 DEF Said

LEMMA LeaveTells ==
    ASSUME IInv, Leave, UNCHANGED vars
    PROVE  Call!Tell
  <1>1. /\ told = "pending" /\ outcome # "pending"
        /\ UNCHANGED <<Terms, Trouble, attempt, aborted, outcome, winner, answered>>
    BY TermsFacts, TroubleFacts
       DEF Leave, LeaveProcess, Settled, vars, IInv, AnsweredAfter
  <1>2. Call!Well <=> Returned = "success" /\ ~SuccessThrows
    BY TroubleFacts DEF Call!Well, Returned
  <1>3. told' = IF Call!Well THEN "success" ELSE "failure"
    BY <1>2, Zenon DEF Leave, LeaveProcess, Returned
  <1>4. CASE told' = "failure" /\ FailureThrows
    <2>1. Said' = Said
      BY <1>4 DEF Leave, LeaveProcess, Said
    <2>2. ~Call!Well /\ "error" \in Trouble
      BY <1>3, <1>4, TroubleFacts
    <2>3. QED
      BY <1>1, <1>3, <2>1, <2>2 DEF Call!Tell
  <1>5. CASE ~(told' = "failure" /\ FailureThrows)
    <2>1. Call!Says("process", told')
      BY <1>5, LogSays, Zenon DEF Leave, LeaveProcess, Call!Says
    <2>2. Call!Well \/ "error" \notin Trouble
      BY <1>3, <1>5, TroubleFacts
    <2>3. QED
      BY <1>1, <1>3, <2>1, <2>2 DEF Call!Tell
  <1>6. QED
    BY <1>4, <1>5

LEMMA AuditImplements ==
    ASSUME IInv, AuditStep, UNCHANGED vars
    PROVE  [Call!Next]_(Call!vars)
  <1>1. UNCHANGED <<Terms, Trouble, attempt, aborted, outcome, winner>>
    BY TermsFacts, TroubleFacts DEF AuditStep, EnterProcess, AnswerRequest, WriteEntry, vars
  <1>2. CASE EnterProcess
    <2>1. UNCHANGED <<answered, Said>> /\ told = "pending"
      BY <1>2 DEF EnterProcess, Said, IInv, AnsweredAfter
    <2>2. CASE PrologueThrows
      <3>1. Call!Spurn
        BY <1>1, <1>2, <2>1, <2>2, TroubleFacts DEF EnterProcess, Call!Spurn
      <3>2. QED
        BY <3>1 DEF Call!Next
    <2>3. CASE ~PrologueThrows
      BY <1>1, <1>2, <2>1, <2>3 DEF EnterProcess, Call!vars
    <2>4. QED
      BY <2>2, <2>3
  <1>3. CASE AnswerRequest
    <2>1. Call!Says("request", answered')
      BY <1>3, LogSays DEF AnswerRequest, Call!Says
    <2>2. Call!Answer
      BY <1>1, <1>3, <2>1 DEF AnswerRequest, Call!Answer, IInv, AnsweredAfter
    <2>3. QED
      BY <2>2 DEF Call!Next
  <1>4. CASE WriteEntry
    BY <1>1, <1>4, WriteEntrySame DEF WriteEntry, Call!vars, IInv
  <1>5. QED
    BY <1>2, <1>3, <1>4 DEF AuditStep

LEMMA InitImplements == TrackedInit => Call!Init /\ CallInv
  <1> SUFFICES ASSUME TrackedInit PROVE Call!Init /\ CallInv
    OBVIOUS
  <1>1. RetryInv /\ Init /\ AuditInit
    BY InitRetryInv DEF TrackedInit
  <1>2. Terms \in Call!Terms
    <2>1. options.fallback \in BOOLEAN
      BY <1>1 DEF RetryInv, TypeOK, Options
    <2>2. QED
      BY <1>1, <2>1, Shape DEF RetryInv, Terms, Call!Terms
  <1>3. Trouble \in Call!Trouble /\ Said = {}
    BY <1>1 DEF Trouble, Call!Trouble, AuditInit, Said
  <1>4. Call!Init
    BY <1>1, <1>2, <1>3, TermsFacts DEF Init, AuditInit, Call!Init
  <1>5. CallInv
    BY <1>1 DEF Init, AuditInit, CallInv, Entered, Desperate
  <1>6. QED
    BY <1>4, <1>5

LEMMA WorkKeepsCallInv ==
    ASSUME IInv, CallInv, Work, UNCHANGED auditVars
    PROVE  CallInv'
  <1>1. UNCHANGED <<stage, options>> /\ (PrologueThrows' <=> PrologueThrows)
    <2>1. UNCHANGED options
      BY DEF Work, Next, StartAttempt, TimeOut, WaitOver, Abort, Fallback, Succeed, Reject
    <2>2. QED
      BY <2>1, SameTracking DEF auditVars
  <1>2. stage = "told" /\ ~Settled' => pc' = "run"
    <2>1. Settled => Settled'
      BY WorkStep DEF RightStep, Settled
    <2>2. stage # "inside" /\ ~Settled => Abort
      BY Zenon DEF Work
    <2>3. QED
      BY <2>1, <2>2 DEF CallInv, Entered, Abort
  <1>3. Desperate'
    <2>1. CASE pc = "fallback"
      <3>1. pc' = "fallback" => UNCHANGED attempt
        BY <2>1 DEF Work, Next, StartAttempt, TimeOut, WaitOver, Abort, Fallback, Succeed,
                    Reject, Awaited, Settle
      <3>2. QED
        BY <1>1, <2>1, <3>1 DEF CallInv, Desperate, Exhausted
    <2>2. CASE pc # "fallback" /\ pc' = "fallback"
      <3>1. pc = "attempt" /\ Recover /\ UNCHANGED attempt
        BY <2>2, Zenon DEF Work, Next, StartAttempt, TimeOut, WaitOver, Abort, Fallback,
                           Succeed, Reject, Awaited, Settle
      <3>2. options.fallback /\ (Exhausted \/ ~options.simple)
        BY <2>2, <3>1, Zenon DEF Recover, GiveUp, Settle
      <3>3. QED
        BY <1>1, <3>1, <3>2 DEF Desperate, Exhausted, IInv, RetryInv, AwaitedIsLast
    <2>3. QED
      BY <2>1, <2>2 DEF Desperate
  <1>4. QED
    BY <1>1, <1>2, <1>3 DEF CallInv, Entered

LEMMA NextImplements ==
    ASSUME IInv, CallInv, [TrackedNext]_trackedVars
    PROVE  CallInv' /\ [Call!Next]_(Call!vars)
  <1>1. CASE Work /\ UNCHANGED auditVars
    BY <1>1, WorkKeepsCallInv, WorkImplements
  <1>2. CASE Leave /\ UNCHANGED vars
    <2>1. CallInv'
      BY <1>2 DEF CallInv, Entered, Desperate, Exhausted, Leave, LeaveProcess, Settled, vars
    <2>2. QED
      BY <1>2, <2>1, LeaveTells DEF Call!Next
  <1>3. CASE AuditStep /\ UNCHANGED vars
    <2>1. Desperate'
      BY <1>3 DEF CallInv, Desperate, Exhausted, vars
    <2>2. UNCHANGED tracking /\ (PrologueThrows' <=> PrologueThrows)
      BY <1>3, SameTracking DEF AuditStep, EnterProcess, AnswerRequest, WriteEntry
    <2>3. Entered'
      BY <1>3, <2>2, Zenon DEF CallInv, Entered, AuditStep, EnterProcess, AnswerRequest,
         WriteEntry, Settled, vars, IInv, Outside
    <2>4. QED
      BY <1>3, <2>1, <2>3, AuditImplements DEF CallInv
  <1>4. CASE UNCHANGED trackedVars
    <2>1. UNCHANGED <<vars, auditVars>>
      BY <1>4 DEF trackedVars
    <2>2. UNCHANGED <<Terms, Trouble, Said>>
      BY <2>1, TermsFacts, TroubleFacts DEF vars, auditVars, Said
    <2>3. QED
      BY <2>1, <2>2, SameTracking DEF vars, auditVars, CallInv, Entered, Desperate, Exhausted,
         Settled, Call!vars
  <1>5. QED
    BY <1>1, <1>2, <1>3, <1>4 DEF TrackedNext

\* Retries, timeouts, late answers, the signal and the audit around them are,
\* to the client, the caller and the trail, one abstract call.
THEOREM TrackedCallImplemented == TrackedSpec => ImplementsTrackedCall
  <1>1. IInv /\ CallInv /\ [TrackedNext]_trackedVars => CallInv' /\ [Call!Next]_(Call!vars)
    BY NextImplements
  <1>2. QED
    BY <1>1, InitImplements, InductiveInvariant, PTL
       DEF TrackedSpec, ImplementsTrackedCall, Call!Spec
=============================================================================
