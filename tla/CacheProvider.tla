---------------------------- MODULE CacheProvider ----------------------------
(***************************************************************************)
(* CacheService over InMemoryCacheProvider: a map from keys to values with *)
(* an optional expiry, which is looked at only when the entry is read.     *)
(* Each call runs to its end once it is made.                              *)
(***************************************************************************)
EXTENDS Integers

CONSTANTS
    Key,
    None,       \* no value, no expiry
    Second,     \* ticks of the clock (milliseconds) in a second
    MaxTime     \* bound on the clock

ASSUME ProviderAssumption ==
    /\ Second \in Nat \ {0}
    /\ MaxTime \in Nat
    /\ None \notin Int

VARIABLES now, cache

Has(k) == cache[k] # None

Expired(k) == cache[k].expiry # None /\ cache[k].expiry < now

\* What get answers, and with it has.
Peek(k) == IF Has(k) /\ ~Expired(k) THEN cache[k].value ELSE None

\* get and has drop the entry they find expired.
Look(k) ==
    cache' = IF Has(k) /\ Expired(k) THEN [cache EXCEPT ![k] = None] ELSE cache

\* A ttl of 0 seconds, like none at all, stores an entry without expiry.
Store(k, v, ttl) ==
    cache' = [cache EXCEPT ![k] =
                [value |-> v,
                 expiry |-> IF ttl > 0 THEN now + ttl * Second ELSE None]]

\* del, delPattern with the keys that match, clear with all keys.
Drop(ks) == cache' = [k \in Key |-> IF k \in ks THEN None ELSE cache[k]]

Tick == now < MaxTime /\ now' = now + 1
=============================================================================
