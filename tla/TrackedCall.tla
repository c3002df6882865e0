----------------------------- MODULE TrackedCall -----------------------------
(***************************************************************************)
(* What is promised of an operation that is retried inside a tracked       *)
(* request, as if nothing ran beside the call: attempts are made one after *)
(* the other up to a limit, and none after the signal; the call settles    *)
(* once, for the value of its last attempt or for what stands in for it;   *)
(* then the caller is told and after that the client answered, once each,  *)
(* no better than it went, and the trail says the same.  How long anything *)
(* takes, which attempts are given up and what those answer is not told.   *)
(***************************************************************************)
EXTENDS Integers

VARIABLES
    terms,      \* what the caller asked for
    trouble,    \* where the audit's own handling throws
    tries,      \* the attempts made
    halted,     \* whether the signal has been given
    outcome,    \* what the call settles for
    winner,     \* the attempt whose value that is, or 0
    told,       \* what the tracked process tells its caller
    answered,   \* what the client is answered
    said        \* what the trail says, and of whom

vars == <<terms, trouble, tries, halted, outcome, winner, told, answered, said>>

\* choosy: the caller looks at an error before it is retried.
Terms == [limit : Nat \ {0}, choosy : BOOLEAN, substitute : BOOLEAN, signal : BOOLEAN]

\* Before the work, in what is made of its result, or of its error.
Trouble == SUBSET {"entry", "result", "error"}

Init ==
    /\ terms \in Terms
    /\ trouble \in Trouble
    /\ tries = 0
    /\ halted \in {FALSE, terms.signal}
    /\ outcome = "pending" /\ winner = 0
    /\ told = "pending" /\ answered = "pending"
    /\ said = {}

Says(by, v) == said' = said \cup {[by |-> by, verdict |-> v]}

\* The process has been entered, or can be, and has not settled.
AtWork == outcome = "pending" /\ told = "pending" /\ "entry" \notin trouble

Try ==
    /\ AtWork /\ ~halted
    /\ tries < terms.limit
    /\ tries' = tries + 1
    /\ UNCHANGED <<terms, trouble, halted, outcome, winner, told, answered, said>>

\* Too late for an attempt that is being made, and for one that has settled.
Halt ==
    /\ terms.signal
    /\ halted' = TRUE
    /\ UNCHANGED <<terms, trouble, tries, outcome, winner, told, answered, said>>

Settle(o, a) ==
    /\ AtWork
    /\ outcome' = o /\ winner' = a
    /\ UNCHANGED <<terms, trouble, tries, told, answered, said>>

Achieve == tries > 0 /\ Settle("value", tries) /\ UNCHANGED halted

\* The last error counts, or what the caller has for that case.
Despair ==
    /\ tries = terms.limit \/ (tries > 0 /\ terms.choosy)
    /\ \E o \in IF terms.substitute THEN {"fallback", "fallback failed"} ELSE {"error"} :
          Settle(o, 0)
    /\ UNCHANGED halted

\* The caller's look at an error fails itself: nothing stands in for the value.
Blunder ==
    /\ terms.choosy /\ tries \in 1 .. terms.limit - 1
    /\ Settle("error", 0)
    /\ UNCHANGED halted

Stop == terms.signal /\ halted' = TRUE /\ Settle("aborted", 0)

\* An exception before the work: none is done, and the trail is silent.
Spurn ==
    /\ "entry" \in trouble /\ told = "pending"
    /\ told' = "failure"
    /\ UNCHANGED <<terms, trouble, tries, halted, outcome, winner, answered, said>>

Well == outcome \in {"value", "fallback"} /\ "result" \notin trouble

Tell ==
    /\ outcome # "pending" /\ told = "pending"
    /\ told' = IF Well THEN "success" ELSE "failure"
    /\ IF ~Well /\ "error" \in trouble THEN UNCHANGED said ELSE Says("process", told')
    /\ UNCHANGED <<terms, trouble, tries, halted, outcome, winner, answered>>

\* The rest of the handler may fail where the process did not.
Answer ==
    /\ told # "pending" /\ answered = "pending"
    /\ answered' \in {told, "failure"}
    /\ Says("request", answered')
    /\ UNCHANGED <<terms, trouble, tries, halted, outcome, winner, told>>

Next ==
    \/ Try \/ Halt \/ Achieve \/ Despair \/ Blunder \/ Stop
    \/ Spurn \/ Tell \/ Answer

Spec == Init /\ [][Next]_vars
=============================================================================
