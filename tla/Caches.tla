-------------------------------- MODULE Caches --------------------------------
(***************************************************************************)
(* The users of CacheService together: they share the clock and the map of *)
(* the provider.                                                           *)
(***************************************************************************)
EXTENDS AuthCache, ReadThrough

CONSTANT MaxCalls   \* bound on the calls and the changes of documents

VARIABLE calls      \* how many there have been

vars == <<now, cache, authVars, viewVars, calls>>

ASSUME KeyAssumption ==
    /\ AuthKey \cap ViewKey = {}
    /\ MaxCalls \in Nat

Init ==
    /\ now = 0
    /\ cache = [k \in Key |-> None]
    /\ AuthInit
    /\ ViewInit
    /\ calls = 0

\* clear: every entry goes, and with them those of every user.
Clear ==
    /\ Drop(Key)
    /\ closed' = closed \cup {k \in AuthKey : ~UpdateAtWork(k)}
    /\ UNCHANGED <<caller, granted, viewVars>>

Advance ==
    /\ InTime
    /\ Tick
    /\ UNCHANGED <<cache, authVars, viewVars, calls>>

Call == (AuthCall /\ UNCHANGED viewVars) \/ (ViewCall /\ UNCHANGED authVars)
        \/ Clear

Step == (AuthStep /\ UNCHANGED viewVars) \/ (ViewStep /\ UNCHANGED authVars)

Next ==
    \/ Call /\ calls < MaxCalls /\ calls' = calls + 1 /\ UNCHANGED now
    \/ Step /\ UNCHANGED <<now, calls>>
    \/ Advance

Spec == Init /\ [][Next]_vars

\* Every variable has its type; the entries of each key are those of its user.
TypeOK ==
    /\ now \in Nat /\ calls \in Nat
    /\ cache = [k \in Key |-> cache[k]]
    /\ AuthTypeOK
    /\ ViewTypeOK
=============================================================================
