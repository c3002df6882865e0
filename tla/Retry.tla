-------------------------------- MODULE Retry --------------------------------
(***************************************************************************)
(* retryWithBackoffAdvanced and retryWithBackoff: one call that runs an    *)
(* operation until it succeeds, with a timeout for each attempt, a wait    *)
(* between attempts and a signal that aborts.  An attempt that has timed   *)
(* out is not stopped: it runs on and answers late, to nobody.             *)
(*                                                                         *)
(* The operators whose names end in _Bug are plausible mistakes in the     *)
(* definition that follows them; only the mutation runs use them.          *)
(***************************************************************************)
EXTENDS Integers, FiniteSets

CONSTANTS
    MaxRetries,     \* bound on the retries that callers ask for
    Delay,          \* the first wait, in units that a half of it still counts
    MaxDelay        \* the longest wait

ASSUME RetryAssumption ==
    /\ MaxRetries \in Nat
    /\ Delay \in Nat /\ MaxDelay \in Nat

\* simple: the call is of retryWithBackoff, which has none of the options.
Options ==
    {o \in [retries : 0 .. MaxRetries, timeout : BOOLEAN, jitter : BOOLEAN,
            fallback : BOOLEAN, signal : BOOLEAN, simple : BOOLEAN] :
        o.simple => ~(o.timeout \/ o.jitter \/ o.fallback \/ o.signal)}

VARIABLES
    options,
    pc,         \* run, attempt, wait, fallback, settled
    attempt,    \* how many attempts have been started
    running,    \* the attempts whose operation has not answered
    timedOut,   \* history: the attempts given up
    delay,      \* the base of the next wait
    wait,       \* the time that the present or last wait takes
    aborted,
    outcome,    \* what the caller is answered
    winner      \* the attempt whose value that is, or 0

vars == <<options, pc, attempt, running, timedOut, delay, wait, aborted,
          outcome, winner>>

Outcome == {"value", "aborted", "error", "fallback", "fallback failed"}

Init ==
    /\ options \in Options
    /\ pc = "run"
    /\ attempt = 0
    /\ running = {}
    /\ timedOut = {}
    /\ delay = Delay
    /\ wait = 0
    /\ aborted \in {FALSE, options.signal}
    /\ outcome = "pending"
    /\ winner = 0

Settle(o, a) == pc' = "settled" /\ outcome' = o /\ winner' = a

Pending == UNCHANGED <<outcome, winner>>

-----------------------------------------------------------------------------
(* The attempts                                                            *)

\* mutant: the signal is looked at during the waits only
StartAttempt_Bug ==
    /\ pc = "run"
    /\ attempt' = attempt + 1
    /\ running' = running \cup {attempt + 1}
    /\ pc' = "attempt"
    /\ UNCHANGED <<options, timedOut, delay, wait, aborted, outcome,
                   winner>>

\* The start of run: an abort counts here, and during a wait.
StartAttempt ==
    /\ pc = "run"
    /\ \/ /\ aborted
          /\ Settle("aborted", 0)
          /\ UNCHANGED <<attempt, running>>
       \/ /\ ~aborted
          /\ attempt' = attempt + 1
          /\ running' = running \cup {attempt + 1}
          /\ pc' = "attempt"
          /\ Pending
    /\ UNCHANGED <<options, timedOut, delay, wait, aborted>>

\* Does run wait for this attempt?
Awaited(a) == pc = "attempt" /\ a = attempt

\* mutant: whichever attempt answers first settles the call
Succeed_Bug(a) ==
    /\ a \in running
    /\ running' = running \ {a}
    /\ IF pc = "settled" THEN UNCHANGED <<pc, outcome, winner>> ELSE Settle("value", a)
    /\ UNCHANGED <<options, attempt, timedOut, delay, wait, aborted>>

\* The operation of an attempt resolves.
Succeed(a) ==
    /\ a \in running
    /\ running' = running \ {a}
    /\ IF Awaited(a) THEN Settle("value", a) ELSE UNCHANGED <<pc, outcome, winner>>
    /\ UNCHANGED <<options, attempt, timedOut, delay, wait, aborted>>

\* mutant: the limit counts the retries, and the first attempt among them
Exhausted_Bug == attempt > options.retries + 1

Exhausted == attempt > options.retries

\* Half the delay to one and a half with jitter, and no more than MaxDelay.
Waits ==
    LET capped(d) == IF ~options.simple /\ d > MaxDelay THEN MaxDelay ELSE d
    IN  IF options.jitter
        THEN {capped(d) : d \in delay \div 2 .. delay + delay \div 2}
        ELSE {capped(delay)}

GiveUp ==
    /\ UNCHANGED wait
    /\ IF options.fallback THEN pc' = "fallback" /\ Pending
                           ELSE Settle("error", 0)

\* The catch block: an attempt too many, or an error that the caller does not
\* want retried, ends the call; so does, without the fallback, what the caller's
\* retryable or onRetry throws itself; otherwise the wait begins.
Recover ==
    \/ /\ Exhausted \/ ~options.simple
       /\ GiveUp
    \/ /\ ~Exhausted /\ ~options.simple
       /\ UNCHANGED wait
       /\ Settle("error", 0)
    \/ /\ ~Exhausted
       /\ wait' \in Waits
       /\ pc' = "wait"
       /\ Pending

\* The operation of an attempt rejects.
Reject(a) ==
    /\ a \in running
    /\ running' = running \ {a}
    /\ IF Awaited(a) THEN Recover ELSE UNCHANGED <<pc, wait, outcome, winner>>
    /\ UNCHANGED <<options, attempt, timedOut, delay, aborted>>

\* mutant: the timer is armed whether or not the caller asked for one
TimeOut_Bug ==
    /\ pc = "attempt"
    /\ timedOut' = timedOut \cup {attempt}
    /\ Recover
    /\ UNCHANGED <<options, attempt, running, delay, aborted>>

\* The timer of the attempt rejects first; the operation runs on.
TimeOut ==
    /\ pc = "attempt" /\ options.timeout
    /\ timedOut' = timedOut \cup {attempt}
    /\ Recover
    /\ UNCHANGED <<options, attempt, running, delay, aborted>>

-----------------------------------------------------------------------------
(* The wait, the signal and the fallback                                   *)

WaitOver ==
    /\ pc = "wait"
    /\ pc' = "run"
    /\ delay' = 2 * delay
    /\ UNCHANGED <<options, attempt, running, timedOut, wait, aborted, outcome,
                   winner>>

\* mutant: the timer of the wait is cleared and nothing is rejected
Abort_Bug ==
    /\ options.signal /\ ~aborted
    /\ aborted' = TRUE
    /\ pc' = IF pc = "wait" THEN "settled" ELSE pc
    /\ UNCHANGED <<options, attempt, running, timedOut, delay, wait, outcome,
                   winner>>

\* The signal: a wait that began before it ends at once.  One that began after
\* it listens in vain, for the event is over, and the next run finds the flag.
Abort ==
    /\ options.signal /\ ~aborted
    /\ aborted' = TRUE
    /\ IF pc = "wait" THEN Settle("aborted", 0) ELSE UNCHANGED <<pc, outcome, winner>>
    /\ UNCHANGED <<options, attempt, running, timedOut, delay, wait>>

Fallback ==
    /\ pc = "fallback"
    /\ \E o \in {"fallback", "fallback failed"} : Settle(o, 0)
    /\ UNCHANGED <<options, attempt, running, timedOut, delay, wait, aborted>>

Next ==
    \/ StartAttempt \/ TimeOut \/ WaitOver \/ Abort \/ Fallback
    \/ \E a \in 1 .. MaxRetries + 1 : Succeed(a) \/ Reject(a)

Spec == Init /\ [][Next]_vars

-----------------------------------------------------------------------------
(* Properties                                                              *)

\* Every variable has its type; a call has an outcome when it is settled and not
\* before, and the waits of the advanced function keep to its longest.  There is
\* one attempt more than retries, though l.284 calls that number "Max attempts":
\* it is compared with > after the attempt (l.372).
TypeOK ==
    /\ options \in Options
    /\ pc \in {"run", "attempt", "wait", "fallback", "settled"}
    /\ attempt \in 0 .. options.retries + 1
    /\ running \subseteq 1 .. attempt /\ timedOut \subseteq 1 .. attempt
    /\ delay \in Nat
    /\ wait \in Nat /\ (options.simple \/ wait <= MaxDelay)
    /\ aborted \in {FALSE, options.signal}
    /\ outcome \in Outcome \cup {"pending"}
    /\ pc = "settled" <=> outcome # "pending"
    /\ winner \in 0 .. attempt

\* Whatever answers late, the caller is given the answer of the attempt that
\* was awaited, the last one, once and for good (global.utils l.361).
AwaitedAnswer ==
    [][/\ winner' # 0 => winner' = attempt /\ winner' \notin timedOut
       /\ outcome # "pending" => UNCHANGED <<outcome, winner>>]_vars

\* An operation runs beside the one awaited, or after the call was answered,
\* only if it has timed out (l.361-369): without timeouts it need not be ready
\* to meet itself.
NoOverlap ==
    /\ \A a \in running : Awaited(a) \/ a \in timedOut
    /\ ~options.timeout =>
           Cardinality(running) <= 1 /\ (pc = "settled" => running = {})

\* "Abort support" (l.270): once the signal is given no attempt starts, be it
\* given before the call, during an attempt, during a wait that began before
\* it or between a wait and the next attempt (l.349, l.386).
AbortHonoured == [][aborted => attempt' = attempt]_vars
=============================================================================
