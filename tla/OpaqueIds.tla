------------------------------ MODULE OpaqueIds ------------------------------
(***************************************************************************)
(* What the token-mapping service promises about opaque ids, as if each of *)
(* its calls took effect in one step: an id stands for one account for     *)
(* good, resolves for its whole lifetime unless it is revoked, comes back  *)
(* by an extension only, and a revocation of a real id takes all the ids   *)
(* of the accounts that have it at once, and no others.  An extension, and *)
(* calls that overlap on one real id, are what that last promise excepts.  *)
(***************************************************************************)
EXTENDS Integers, FiniteSets

CONSTANTS
    OpaqueId, Account, Handler, None, Forever, MAPPING_TTL,
    RealId,     \* user ids and auth ids
    RealIds,    \* those of each account
    ExtraLife   \* what an extension may give

VARIABLES
    owner,      \* the account an id stands for, or None
    life,       \* the time for which it resolves yet, or None
    sweep,      \* the revocations of a real id, from their call to their end
    extended,   \* the ids that were given more time
    overlapped  \* the real ids that calls have overlapped on

vars == <<owner, life, sweep, extended, overlapped>>

Init ==
    /\ owner = [o \in OpaqueId |-> None]
    /\ life = [o \in OpaqueId |-> None]
    /\ sweep = [h \in Handler |-> None]
    /\ extended = {}
    /\ overlapped = {}

\* A call turns to the real ids ks, beside others perhaps.
Meet(ks) == \E met \in SUBSET ks : overlapped' = overlapped \cup met

\* The two ids of a new token.
Draw(a) ==
    /\ \E ids \in SUBSET {o \in OpaqueId : owner[o] = None} :
         /\ Cardinality(ids) = 2
         /\ owner' = [o \in OpaqueId |-> IF o \in ids THEN a ELSE owner[o]]
         /\ life' = [o \in OpaqueId |->
                       IF o \in ids THEN MAPPING_TTL ELSE life[o]]
    /\ Meet(RealIds[a])
    /\ UNCHANGED <<sweep, extended>>

Revoke(o) ==
    /\ owner[o] # None
    /\ life' = [life EXCEPT ![o] = None]
    /\ UNCHANGED <<owner, sweep, extended, overlapped>>

Extend(o) ==
    /\ owner[o] # None
    /\ \E more \in ExtraLife : life' = [life EXCEPT ![o] = more]
    /\ extended' = extended \cup {o}
    /\ UNCHANGED <<owner, sweep, overlapped>>

\* revokeMappingsByRealId is called, takes effect and returns.
BeginSweep(h, k) ==
    /\ sweep[h] = None
    /\ sweep' = [sweep EXCEPT ![h] = [key |-> k, done |-> FALSE]]
    /\ Meet({k})
    /\ UNCHANGED <<owner, life, extended>>

\* An id of an account with the real id k.
Has(o, k) == owner[o] # None /\ k \in RealIds[owner[o]]

\* All the ids of real id k, but for the two exceptions.
Takes(ids, k) ==
    /\ \A o \in ids : Has(o, k)
    /\ \A o \in OpaqueId \ ids :
         Has(o, k) /\ life[o] # None => o \in extended \/ k \in overlapped

Sweep(h) ==
    /\ sweep[h] # None
    /\ ~sweep[h].done
    /\ \E ids \in SUBSET OpaqueId :
         /\ Takes(ids, sweep[h].key)
         /\ life' = [o \in OpaqueId |-> IF o \in ids THEN None ELSE life[o]]
    /\ sweep' = [sweep EXCEPT ![h] = [key |-> sweep[h].key, done |-> TRUE]]
    /\ UNCHANGED <<owner, extended, overlapped>>

EndSweep(h) ==
    /\ sweep[h] # None
    /\ sweep[h].done
    /\ sweep' = [sweep EXCEPT ![h] = None]
    /\ UNCHANGED <<owner, life, extended, overlapped>>

\* A call that will change no id but one turns to the real ids of account a.
Touch(a) == Meet(RealIds[a]) /\ UNCHANGED <<owner, life, sweep, extended>>

Age ==
    /\ life' = [o \in OpaqueId |->
                  IF life[o] \in {None, 0} THEN None
                  ELSE IF life[o] = Forever THEN Forever
                  ELSE life[o] - 1]
    /\ UNCHANGED <<owner, sweep, extended, overlapped>>

Next ==
    \/ \E a \in Account : Draw(a) \/ Touch(a)
    \/ \E o \in OpaqueId : Revoke(o) \/ Extend(o)
    \/ \E h \in Handler, k \in RealId : BeginSweep(h, k)
    \/ \E h \in Handler : Sweep(h) \/ EndSweep(h)
    \/ Age

Spec == Init /\ [][Next]_vars
=============================================================================
