--------------------------- MODULE ExpiringCounter ----------------------------
(***************************************************************************)
(* The Redis counters of pkg/middleware: luaRateLimit and luaThrottle are  *)
(* the same script, an INCR that starts the TTL when it created the key.   *)
(***************************************************************************)
EXTENDS Integers

CONSTANT Decay   \* seconds

ASSUME CounterAssumption == Decay \in Nat \ {0}

Counter == {"rate_limit", "throttle"}

(* The TTL of a key that has none, and of a key that does not exist.       *)
NoTtl == -1

VARIABLES counter,   \* the value of each key; 0 when it does not exist
          expireAt   \* when it expires, or NoTtl

counters == <<counter, expireAt>>

CounterInit ==
    /\ counter = [k \in Counter |-> 0]
    /\ expireAt = [k \in Counter |-> NoTtl]

-----------------------------------------------------------------------------
(* Mutants: the expiry is set by the second increment; it is set to a time *)
(* in the past.                                                            *)
LuaIncrLate(k, time) ==
    /\ counter' = [counter EXCEPT ![k] = @ + 1]
    /\ expireAt' = IF counter'[k] = 2 THEN [expireAt EXCEPT ![k] = time + Decay] ELSE expireAt

LuaIncrPast(k, time) ==
    /\ counter' = [counter EXCEPT ![k] = @ + 1]
    /\ expireAt' = IF counter'[k] = 1 THEN [expireAt EXCEPT ![k] = time - Decay] ELSE expireAt

(* luaRateLimit and luaThrottle.                                           *)
LuaIncr(k, time) ==
    /\ counter' = [counter EXCEPT ![k] = @ + 1]
    /\ expireAt' = IF counter'[k] = 1 THEN [expireAt EXCEPT ![k] = time + Decay] ELSE expireAt

(* DECR: a key that does not exist is created with -1 and no TTL.          *)
DecrKey(k) ==
    /\ counter' = [counter EXCEPT ![k] = @ - 1]
    /\ UNCHANGED expireAt

(* DEL, of one key, and the expiry of the keys whose time has come.        *)
Remove(K) ==
    /\ counter' = [k \in Counter |-> IF k \in K THEN 0 ELSE counter[k]]
    /\ expireAt' = [k \in Counter |-> IF k \in K THEN NoTtl ELSE expireAt[k]]

Expiring(time) == {k \in Counter : expireAt[k] = time}

-----------------------------------------------------------------------------
CounterTypeOK ==
    /\ counter \in [Counter -> Int]
    /\ expireAt \in [Counter -> {NoTtl} \cup Nat]
=============================================================================
