------------------------------ MODULE RedisQueue ------------------------------
(***************************************************************************)
(* The Redis keys of one queue and the Lua scripts of pkg/queue/lua.go.    *)
(*                                                                         *)
(*   ready     the list   queues:{name}            payloads, oldest first  *)
(*   delayed   the zset   queues:{name}:delayed    payload -> available_at *)
(*   reserved  the zset   queues:{name}:reserved   payload -> reserved_    *)
(*                                                 until                   *)
(*   notify    the length of the list queues:{name}:notify, whose elements *)
(*             are all the number 1                                        *)
(*                                                                         *)
(* A sorted set is a function from its members to their scores, so adding  *)
(* a payload that is already a member only changes its score. Redis runs a *)
(* script atomically: every script is one action. Payloads are opaque here *)
(* (the scripts compare them only for equality) and times are whole        *)
(* seconds, which is what the driver passes (time.Time.Unix).              *)
(***************************************************************************)
EXTENDS Integers, Sequences, FiniteSets, Functions

VARIABLES ready, delayed, reserved, notify

store == <<ready, delayed, reserved, notify>>

Empty == [b \in {} |-> 0]

EmptyStore ==
    /\ ready = <<>>
    /\ delayed = Empty
    /\ reserved = Empty
    /\ notify = 0

-----------------------------------------------------------------------------
(* The sorted-set commands the scripts use.                                *)

ZAdd(z, score, b) == [x \in DOMAIN z \cup {b} |-> IF x = b THEN score ELSE z[x]]

ZRem(z, b) == Restrict(z, DOMAIN z \ {b})

(* The members of z by rank: by score, members of equal score in an order  *)
(* (the byte order of the payloads) that is left open.                     *)
Rankings(z) ==
    {r \in [1..Cardinality(DOMAIN z) -> DOMAIN z] :
        /\ \A i, j \in DOMAIN r : i # j => r[i] # r[j]
        /\ \A i, j \in DOMAIN r : i < j => z[r[i]] <= z[r[j]]}

(* zrangebyscore -inf max LIMIT 0 limit returns the first n members.       *)
IsDueCount(z, rank, n, max, limit) ==
    /\ n <= limit
    /\ \A i \in 1..n : z[rank[i]] <= max
    /\ n < limit /\ n < Len(rank) => z[rank[n + 1]] > max

(* zremrangebyrank 0 last.                                                 *)
ZRemRangeByRank(z, rank, last) ==
    Restrict(z, DOMAIN z \ {rank[i] : i \in 1..(last + 1)})

-----------------------------------------------------------------------------
(* The scripts. LuaMigrate is used with two different source keys, so it   *)
(* is the set of its possible results: what stays in the source key and    *)
(* what is moved, in order.                                                *)

LuaPush(b) ==
    /\ ready' = Append(ready, b)
    /\ notify' = notify + 1
    /\ UNCHANGED <<delayed, reserved>>

LuaLater(b, availableAt) ==
    /\ delayed' = ZAdd(delayed, availableAt, b)
    /\ notify' = notify + 1
    /\ UNCHANGED <<ready, reserved>>

(* Mutant: the zadd is given a score a second early.                      *)
LuaPopShort(reservedUntil) ==
    /\ ready # <<>>
    /\ ready' = Tail(ready)
    /\ reserved' = ZAdd(reserved, reservedUntil - 1, Head(ready))
    /\ UNCHANGED <<delayed, notify>>

(* The payload the script returns is Head(ready).                          *)
LuaPop(reservedUntil) ==
    /\ ready # <<>>
    /\ ready' = Tail(ready)
    /\ reserved' = ZAdd(reserved, reservedUntil, Head(ready))
    /\ UNCHANGED <<delayed, notify>>

(* Mutant: the zrem is forgotten.                                          *)
LuaReleaseCopies(b, availableAt) ==
    /\ delayed' = ZAdd(delayed, availableAt, b)
    /\ UNCHANGED <<ready, reserved, notify>>

LuaRelease(b, availableAt) ==
    /\ reserved' = ZRem(reserved, b)
    /\ delayed' = ZAdd(delayed, availableAt, b)
    /\ UNCHANGED <<ready, notify>>

(* Mutant: the zrem is given the delayed key.                              *)
LuaDeleteWrongKey(b) ==
    /\ delayed' = ZRem(delayed, b)
    /\ UNCHANGED <<ready, reserved, notify>>

LuaDelete(b) ==
    /\ reserved' = ZRem(reserved, b)
    /\ UNCHANGED <<ready, delayed, notify>>

(* Mutants: zremrangebyrank 0 #val, which removes one member too many; a   *)
(* range that reaches a second into the future.                            *)
LuaMigrateOneMore(z, now, limit) ==
    UNION {{[kept |-> ZRemRangeByRank(z, rank, IF n < Len(rank) THEN n ELSE n - 1),
             val |-> SubSeq(rank, 1, n)] :
               n \in {k \in 0..Len(rank) : IsDueCount(z, rank, k, now, limit)}} :
           rank \in Rankings(z)}

LuaMigrateEarly(z, now, limit) ==
    UNION {{[kept |-> ZRemRangeByRank(z, rank, n - 1), val |-> SubSeq(rank, 1, n)] :
               n \in {k \in 0..Len(rank) : IsDueCount(z, rank, k, now + 1, limit)}} :
           rank \in Rankings(z)}

LuaMigrate(z, now, limit) ==
    UNION {{[kept |-> ZRemRangeByRank(z, rank, n - 1), val |-> SubSeq(rank, 1, n)] :
               n \in {k \in 0..Len(rank) : IsDueCount(z, rank, k, now, limit)}} :
           rank \in Rankings(z)}

(* Mutant: the reserved key is left out of the del.                        *)
LuaClearKeepsReserved ==
    /\ ready' = <<>>
    /\ delayed' = Empty
    /\ notify' = 0
    /\ UNCHANGED reserved

LuaClear ==
    /\ ready' = <<>>
    /\ delayed' = Empty
    /\ reserved' = Empty
    /\ notify' = 0

-----------------------------------------------------------------------------
(* The payloads held in some key of the queue.                             *)
Stored == Range(ready) \cup DOMAIN delayed \cup DOMAIN reserved
=============================================================================
