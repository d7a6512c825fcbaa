----------------------------- MODULE RedisProofs ------------------------------
(***************************************************************************)
(* Facts about the scripts of the Redis queue and the steps of the driver  *)
(* that hold for every user of them: S is the set of payloads in use and L *)
(* the set of places a consumer can be. The proofs about the clients of    *)
(* the driver and about the worker both rest on them.                      *)
(***************************************************************************)
EXTENDS RedisDriver, FiniteSetTheorems, TLAPS

-----------------------------------------------------------------------------
(* Sequences and sorted sets.                                              *)

(* rpush adds the payload at the end of the list.                          *)
LEMMA RangeAppend ==
  ASSUME NEW S, NEW s \in Seq(S), NEW x \in S
  PROVE  Append(s, x) \in Seq(S) /\ Range(Append(s, x)) = Range(s) \cup {x}
  <1>1. Append(s, x) \in Seq(S)
    OBVIOUS
  <1>2. \A y \in Range(s) \cup {x} : y \in Range(Append(s, x))
    <2>1. x \in Range(Append(s, x))
      <3>1. Len(s) + 1 \in DOMAIN Append(s, x) /\ Append(s, x)[Len(s) + 1] = x
        OBVIOUS
      <3> QED
        BY <3>1 DEF Range
    <2>2. \A y \in Range(s) : y \in Range(Append(s, x))
      BY DEF Range
    <2> QED
      BY <2>1, <2>2
  <1>3. \A y \in Range(Append(s, x)) : y \in Range(s) \cup {x}
    BY DEF Range
  <1> QED
    BY <1>1, <1>2, <1>3

(* The loop of luaMigrate appends the migrated payloads.                   *)
LEMMA RangeConcat ==
  ASSUME NEW S, NEW s \in Seq(S), NEW t \in Seq(S)
  PROVE  s \o t \in Seq(S) /\ Range(s \o t) = Range(s) \cup Range(t)
  <1>1. s \o t \in Seq(S)
    OBVIOUS
  <1>2. \A y \in Range(s) : y \in Range(s \o t)
    BY DEF Range
  <1>3. \A y \in Range(t) : y \in Range(s \o t)
    <2> SUFFICES ASSUME NEW i \in 1..Len(t) PROVE t[i] \in Range(s \o t)
      BY DEF Range
    <2>1. Len(s) + i \in DOMAIN (s \o t) /\ (s \o t)[Len(s) + i] = t[i]
      OBVIOUS
    <2> QED
      BY <2>1 DEF Range
  <1>4. \A y \in Range(s \o t) : y \in Range(s) \cup Range(t)
    <2> SUFFICES ASSUME NEW i \in 1..(Len(s) + Len(t))
                 PROVE  (s \o t)[i] \in Range(s) \cup Range(t)
      BY DEF Range
    <2>1. CASE i <= Len(s)
      BY <2>1 DEF Range
    <2>2. CASE i > Len(s)
      <3>1. (s \o t)[i] = t[i - Len(s)] /\ i - Len(s) \in 1..Len(t)
        BY <2>2
      <3> QED
        BY <3>1 DEF Range
    <2> QED
      BY <2>1, <2>2
  <1> QED
    BY <1>1, <1>2, <1>3, <1>4

(* lpop removes the head and nothing else.                                 *)
LEMMA RangeTail ==
  ASSUME NEW S, NEW s \in Seq(S), s # <<>>
  PROVE  /\ Head(s) \in S /\ Tail(s) \in Seq(S)
         /\ Range(s) = Range(Tail(s)) \cup {Head(s)}
  <1>1. Head(s) \in S /\ Tail(s) \in Seq(S)
    OBVIOUS
  <1>2. \A y \in Range(s) : y \in Range(Tail(s)) \cup {Head(s)}
    <2> SUFFICES ASSUME NEW i \in 1..Len(s)
                 PROVE  s[i] \in Range(Tail(s)) \cup {Head(s)}
      BY DEF Range
    <2>1. CASE i = 1
      BY <2>1
    <2>2. CASE i > 1
      <3>1. i - 1 \in DOMAIN Tail(s) /\ Tail(s)[i - 1] = s[i]
        BY <2>2
      <3> QED
        BY <3>1 DEF Range
    <2> QED
      BY <2>1, <2>2
  <1>3. \A y \in Range(Tail(s)) \cup {Head(s)} : y \in Range(s)
    BY DEF Range
  <1> QED
    BY <1>1, <1>2, <1>3

(* b occurs at most once in the list s.                                    *)
Once(s, b) == \A i, j \in DOMAIN s : s[i] = b /\ s[j] = b => i = j

(* rpush of another payload, or of one that is not in the list.            *)
LEMMA OnceAppend ==
  ASSUME NEW S, NEW s \in Seq(S), NEW x \in S, NEW b,
         Once(s, b), x = b => b \notin Range(s)
  PROVE  Once(Append(s, x), b)
  <1>1. /\ DOMAIN Append(s, x) = 1..(Len(s) + 1) /\ DOMAIN s = 1..Len(s) /\ Len(s) \in Nat
        /\ Append(s, x)[Len(s) + 1] = x /\ \A i \in 1..Len(s) : Append(s, x)[i] = s[i]
    OBVIOUS
  <1>2. \A i \in 1..Len(s) : s[i] \in Range(s)
    BY <1>1 DEF Range
  <1>3. \A i \in 1..(Len(s) + 1) : i \in 1..Len(s) \/ i = Len(s) + 1
    BY <1>1
  <1> QED
    BY <1>1, <1>2, <1>3 DEF Once

(* A migration of payloads that are not in the list.                       *)
LEMMA OnceConcat ==
  ASSUME NEW S, NEW s \in Seq(S), NEW t \in Seq(S), NEW b,
         Once(s, b), Once(t, b), b \in Range(s) => b \notin Range(t)
  PROVE  Once(s \o t, b)
  <1>1. /\ DOMAIN (s \o t) = 1..(Len(s) + Len(t)) /\ Len(s) \in Nat /\ Len(t) \in Nat
        /\ DOMAIN s = 1..Len(s) /\ DOMAIN t = 1..Len(t)
        /\ \A i \in 1..Len(s) : (s \o t)[i] = s[i]
        /\ \A i \in 1..(Len(s) + Len(t)) : i > Len(s) => (s \o t)[i] = t[i - Len(s)]
    OBVIOUS
  <1>2. /\ \A i \in 1..Len(s) : s[i] \in Range(s)
        /\ \A i \in 1..Len(t) : t[i] \in Range(t)
    BY <1>1 DEF Range
  <1> SUFFICES ASSUME NEW i \in 1..(Len(s) + Len(t)), NEW j \in 1..(Len(s) + Len(t)),
                      (s \o t)[i] = b, (s \o t)[j] = b
               PROVE  i = j
    BY <1>1 DEF Once
  <1>3. \A k \in 1..(Len(s) + Len(t)) : k > Len(s) => k - Len(s) \in 1..Len(t)
    BY <1>1
  <1>4. \A k \in 1..(Len(s) + Len(t)) : ~(k > Len(s)) => k \in 1..Len(s)
    BY <1>1
  <1>5. CASE i > Len(s) /\ j > Len(s)
    <2>1. t[i - Len(s)] = b /\ t[j - Len(s)] = b
      BY <1>1, <1>5
    <2>2. i - Len(s) = j - Len(s)
      BY <1>1, <1>3, <1>5, <2>1 DEF Once
    <2> QED
      BY <1>1, <2>2
  <1>6. CASE ~(i > Len(s)) /\ ~(j > Len(s))
    BY <1>1, <1>4, <1>6 DEF Once
  <1>7. CASE i > Len(s) /\ ~(j > Len(s))
    BY <1>1, <1>2, <1>3, <1>4, <1>7
  <1>8. CASE ~(i > Len(s)) /\ j > Len(s)
    BY <1>1, <1>2, <1>3, <1>4, <1>8
  <1> QED
    BY <1>5, <1>6, <1>7, <1>8

(* lpop of the only occurrence, or of another payload.                     *)
LEMMA OnceTail ==
  ASSUME NEW S, NEW s \in Seq(S), s # <<>>, NEW b, Once(s, b)
  PROVE  Once(Tail(s), b) /\ (Head(s) = b => b \notin Range(Tail(s)))
  <1>1. /\ DOMAIN Tail(s) = 1..(Len(s) - 1) /\ Len(s) \in Nat /\ Len(s) # 0
        /\ DOMAIN s = 1..Len(s) /\ Head(s) = s[1]
        /\ \A i \in 1..(Len(s) - 1) : Tail(s)[i] = s[i + 1]
    OBVIOUS
  <1>2. \A i \in 1..(Len(s) - 1) : i + 1 \in 1..Len(s) /\ i + 1 # 1
    BY <1>1
  <1>3. 1 \in 1..Len(s)
    BY <1>1
  <1>4. Once(Tail(s), b)
    <2> SUFFICES ASSUME NEW i \in 1..(Len(s) - 1), NEW j \in 1..(Len(s) - 1),
                        Tail(s)[i] = b, Tail(s)[j] = b
                 PROVE  i = j
      BY <1>1 DEF Once
    <2>1. i + 1 = j + 1
      BY <1>1, <1>2 DEF Once
    <2> QED
      BY <2>1
  <1>5. Head(s) = b => b \notin Range(Tail(s))
    BY <1>1, <1>2, <1>3 DEF Once, Range
  <1> QED
    BY <1>4, <1>5

-----------------------------------------------------------------------------
(* A sorted set of payloads of S.                                          *)
ZSet(z, S) == IsFiniteSet(DOMAIN z) /\ DOMAIN z \subseteq S /\ z \in [DOMAIN z -> Nat]

(* y is z with one member added or changed, and with one removed.          *)
ZAdded(y, z, score, b) ==
    /\ DOMAIN y = DOMAIN z \cup {b}
    /\ y[b] = score
    /\ \A x \in DOMAIN z \ {b} : y[x] = z[x]

ZRemoved(y, z, b) ==
    /\ DOMAIN y = DOMAIN z \ {b}
    /\ \A x \in DOMAIN z \ {b} : y[x] = z[x]

LEMMA ZAddOne ==
  ASSUME NEW S, NEW z, ZSet(z, S), NEW b \in S, NEW score \in Nat
  PROVE  ZSet(ZAdd(z, score, b), S) /\ ZAdded(ZAdd(z, score, b), z, score, b)
  <1> DEFINE y == ZAdd(z, score, b)
  <1>1. IsFiniteSet(DOMAIN z \cup {b})
    BY FS_AddElement DEF ZSet
  <1>2. y \in [DOMAIN z \cup {b} -> Nat] /\ ZAdded(y, z, score, b)
    BY DEF ZSet, ZAdd, ZAdded
  <1> QED
    BY <1>1, <1>2 DEF ZSet, ZAdded

LEMMA ZRemOne ==
  ASSUME NEW S, NEW z, ZSet(z, S), NEW b
  PROVE  ZSet(ZRem(z, b), S) /\ ZRemoved(ZRem(z, b), z, b)
  <1> DEFINE y == ZRem(z, b)
  <1>1. IsFiniteSet(DOMAIN z \ {b})
    BY FS_RemoveElement DEF ZSet
  <1>2. y \in [DOMAIN z \ {b} -> Nat] /\ ZRemoved(y, z, b)
    BY DEF ZSet, ZRem, ZRemoved, Restrict
  <1> QED
    BY <1>1, <1>2 DEF ZSet, ZRemoved

(* luaMigrate: the members it returns are the ones it removes, each once,  *)
(* and all of them are due; the others keep their scores.                  *)
LEMMA MigrateConserves ==
  ASSUME NEW S, NEW z, ZSet(z, S), NEW t, NEW limit, NEW m \in LuaMigrate(z, t, limit)
  PROVE  /\ ZSet(m.kept, S)
         /\ m.val \in Seq(S)
         /\ DOMAIN z = DOMAIN m.kept \cup Range(m.val)
         /\ DOMAIN m.kept \cap Range(m.val) = {}
         /\ \A x \in DOMAIN m.kept : m.kept[x] = z[x]
         /\ \A x \in Range(m.val) : z[x] <= t
         /\ \A b : Once(m.val, b)
  <1> DEFINE n == Cardinality(DOMAIN z)
  <1>1. n \in Nat
    BY FS_CardinalityType DEF ZSet
  <1>2. PICK rank \in Rankings(z) : \E j \in 0..Len(rank) :
           /\ IsDueCount(z, rank, j, t, limit)
           /\ m = [kept |-> ZRemRangeByRank(z, rank, j - 1), val |-> SubSeq(rank, 1, j)]
    BY DEF LuaMigrate
  <1>3. PICK k \in 0..Len(rank) :
           /\ IsDueCount(z, rank, k, t, limit)
           /\ m = [kept |-> ZRemRangeByRank(z, rank, k - 1), val |-> SubSeq(rank, 1, k)]
    BY <1>2
  <1>4. /\ rank \in [1..n -> DOMAIN z]
        /\ rank \in Seq(DOMAIN z) /\ Len(rank) = n
        /\ \A i, j \in 1..n : i # j => rank[i] # rank[j]
    BY <1>1 DEF Rankings
  <1>5. /\ SubSeq(rank, 1, k) \in Seq(DOMAIN z)
        /\ DOMAIN SubSeq(rank, 1, k) = 1..k
        /\ \A i \in 1..k : SubSeq(rank, 1, k)[i] = rank[i]
    BY <1>1, <1>4
  <1>6. Range(m.val) = {rank[i] : i \in 1..k}
    BY <1>3, <1>5 DEF Range
  <1>7. m.kept = [x \in DOMAIN z \ {rank[i] : i \in 1..k} |-> z[x]]
    BY <1>3, <1>4 DEF ZRemRangeByRank, Restrict
  <1>8. {rank[i] : i \in 1..k} \subseteq DOMAIN z
    BY <1>1, <1>4
  <1>9. ZSet(m.kept, S)
    <2>1. IsFiniteSet(DOMAIN m.kept)
      BY <1>7, FS_Subset DEF ZSet
    <2> QED
      BY <1>7, <2>1 DEF ZSet
  <1>10. m.val \in Seq(S)
    BY <1>3, <1>5 DEF ZSet
  <1>11. \A x \in Range(m.val) : z[x] <= t
    BY <1>3, <1>6 DEF IsDueCount
  <1>12. ASSUME NEW b PROVE Once(m.val, b)
    <2>1. 1..k \subseteq 1..n
      BY <1>1, <1>3, <1>4
    <2> QED
      BY <1>3, <1>4, <1>5, <2>1 DEF Once
  <1> QED
    BY <1>6, <1>7, <1>8, <1>9, <1>10, <1>11, <1>12

-----------------------------------------------------------------------------
(* What each script does to the payloads of the queue.                     *)

StoreIn(S) ==
    /\ ready \in Seq(S)
    /\ ZSet(delayed, S)
    /\ ZSet(reserved, S)
    /\ notify \in Nat

(* The payload b is in at most one key, and there once.                    *)
Single(b) ==
    /\ Once(ready, b)
    /\ b \in Range(ready) => b \notin DOMAIN delayed \cup DOMAIN reserved
    /\ b \in DOMAIN delayed => b \notin DOMAIN reserved

(* luaPush and luaLater add a payload.                                     *)
LEMMA PushStores ==
  ASSUME NEW S, StoreIn(S), NEW b \in S, LuaPush(b) \/ \E at \in Nat : LuaLater(b, at)
  PROVE  /\ StoreIn(S)' /\ Stored' = Stored \cup {b}
         /\ Range(ready') \subseteq Range(ready) \cup {b}
         /\ reserved' = reserved
         /\ Len(ready') <= Len(ready) + 1 /\ notify' = notify + 1
         /\ \A x : Single(x) /\ (x = b => b \notin Stored) => Single(x)'
  <1>l. Len(ready) \in Nat
    BY DEF StoreIn
  <1>1. CASE LuaPush(b)
    <2>1. /\ ready' = Append(ready, b) /\ notify' = notify + 1
          /\ UNCHANGED <<delayed, reserved>>
      BY <1>1 DEF LuaPush
    <2>2. ready' \in Seq(S) /\ Range(ready') = Range(ready) \cup {b}
      BY <2>1, RangeAppend DEF StoreIn
    <2>3. ASSUME NEW x, Single(x), x = b => b \notin Stored PROVE Single(x)'
      <3>1. Once(ready', x)
        BY <2>1, <2>3, OnceAppend DEF StoreIn, Single, Stored
      <3> QED
        BY <2>1, <2>2, <2>3, <3>1 DEF Single, Stored
    <2>4. StoreIn(S)' /\ Len(ready') = Len(ready) + 1
      BY <2>1, <2>2 DEF StoreIn
    <2> QED
      BY <1>l, <2>1, <2>2, <2>3, <2>4 DEF Stored
  <1>2. CASE \E at \in Nat : LuaLater(b, at)
    <2>1. PICK at \in Nat : LuaLater(b, at)
      BY <1>2
    <2>2. ready' = ready /\ reserved' = reserved /\ notify' = notify + 1
      BY <2>1 DEF LuaLater
    <2>z. ZSet(delayed, S) /\ delayed' = ZAdd(delayed, at, b)
      BY <2>1 DEF LuaLater, StoreIn
    <2>a. ZSet(delayed', S) /\ ZAdded(delayed', delayed, at, b)
      BY <2>z, ZAddOne
    <2>3. ZSet(delayed', S) /\ DOMAIN delayed' = DOMAIN delayed \cup {b}
      BY <2>a DEF ZAdded
    <2>4. ASSUME NEW x, Single(x), x = b => b \notin Stored PROVE Single(x)'
      BY <2>2, <2>3, <2>4 DEF Single, Stored
    <2> QED
      BY <1>l, <2>2, <2>3, <2>4 DEF StoreIn, Stored
  <1> QED
    BY <1>1, <1>2

(* A producer's call is one of the two, and sent again for a payload that  *)
(* is still delayed it makes no copy.                                      *)
LEMMA EnqueueStores ==
  ASSUME NEW S, StoreIn(S), NEW b \in S, NEW at \in {Immediately} \cup Nat, Enqueue(b, at)
  PROVE  /\ StoreIn(S)' /\ Stored' = Stored \cup {b}
         /\ Range(ready') \subseteq Range(ready) \cup {b}
         /\ reserved' = reserved
         /\ Len(ready') <= Len(ready) + 1 /\ notify' = notify + 1
         /\ \A x : Single(x) /\ (x = b => b \notin Stored) => Single(x)'
         /\ at # Immediately /\ b \in DOMAIN delayed =>
                ready' = ready /\ \A x : Single(x) => Single(x)'
  <1>1. LuaPush(b) \/ \E t \in Nat : LuaLater(b, t)
    BY DEF Enqueue
  <1>2. /\ StoreIn(S)' /\ Stored' = Stored \cup {b}
        /\ Range(ready') \subseteq Range(ready) \cup {b}
        /\ reserved' = reserved
        /\ Len(ready') <= Len(ready) + 1 /\ notify' = notify + 1
        /\ \A x : Single(x) /\ (x = b => b \notin Stored) => Single(x)'
    BY <1>1, PushStores
  <1>3. ASSUME at # Immediately, b \in DOMAIN delayed
        PROVE  ready' = ready /\ \A x : Single(x) => Single(x)'
    <2>1. ready' = ready /\ reserved' = reserved /\ delayed' = ZAdd(delayed, at, b)
      BY <1>3 DEF Enqueue, LuaLater
    <2>2. DOMAIN delayed' = DOMAIN delayed
      BY <1>3, <2>1 DEF ZAdd
    <2> QED
      BY <2>1, <2>2 DEF Single
  <1> QED
    BY <1>2, <1>3

(* luaPop moves a payload from the list to the reserved set.               *)
LEMMA PopMoves ==
  ASSUME NEW S, StoreIn(S), NEW at \in Nat, LuaPop(at)
  PROVE  /\ StoreIn(S)' /\ Stored' = Stored
         /\ Head(ready) \in S \cap Range(ready)
         /\ Range(ready') \subseteq Range(ready)
         /\ Len(ready') = Len(ready) - 1 /\ notify' = notify
         /\ Head(ready) \in DOMAIN reserved' /\ reserved'[Head(ready)] = at
         /\ \A x \in DOMAIN reserved \ {Head(ready)} :
                x \in DOMAIN reserved' /\ reserved'[x] = reserved[x]
         /\ \A x : Single(x) => Single(x)'
  <1>0. /\ ready # <<>> /\ ready' = Tail(ready) /\ UNCHANGED <<delayed, notify>>
        /\ reserved' = ZAdd(reserved, at, Head(ready))
    BY DEF LuaPop
  <1>1. /\ Head(ready) \in S /\ Tail(ready) \in Seq(S)
        /\ Range(ready) = Range(Tail(ready)) \cup {Head(ready)}
        /\ Len(Tail(ready)) = Len(ready) - 1
    BY <1>0, RangeTail DEF StoreIn
  <1>2. /\ ZSet(reserved', S) /\ DOMAIN reserved' = DOMAIN reserved \cup {Head(ready)}
        /\ reserved'[Head(ready)] = at
        /\ \A x \in DOMAIN reserved \ {Head(ready)} : reserved'[x] = reserved[x]
    <2>1. ZSet(reserved, S)
      BY DEF StoreIn
    <2>2. ZSet(reserved', S) /\ ZAdded(reserved', reserved, at, Head(ready))
      BY <1>0, <1>1, <2>1, ZAddOne
    <2> QED
      BY <2>2 DEF ZAdded
  <1>3. ASSUME NEW x, Single(x) PROVE Single(x)'
    <2>1. Once(Tail(ready), x) /\ (Head(ready) = x => x \notin Range(Tail(ready)))
      BY <1>0, <1>3, OnceTail DEF StoreIn, Single
    <2> QED
      BY <1>0, <1>1, <1>2, <1>3, <2>1 DEF Single
  <1>4. StoreIn(S)'
    BY <1>0, <1>1, <1>2 DEF StoreIn
  <1> QED
    BY <1>0, <1>1, <1>2, <1>3, <1>4 DEF Stored

(* luaRelease moves a payload to the delayed set, or adds it there.        *)
LEMMA ReleaseStores ==
  ASSUME NEW S, StoreIn(S), NEW b \in S, NEW at \in Nat, LuaRelease(b, at)
  PROVE  /\ StoreIn(S)' /\ Stored' = Stored \cup {b}
         /\ ready' = ready /\ notify' = notify
         /\ \A x \in DOMAIN reserved \ {b} :
                x \in DOMAIN reserved' /\ reserved'[x] = reserved[x]
         /\ \A x : Single(x) /\ (x = b => b \notin Range(ready)) => Single(x)'
  <1>0. /\ reserved' = ZRem(reserved, b) /\ delayed' = ZAdd(delayed, at, b)
        /\ UNCHANGED <<ready, notify>>
    BY DEF LuaRelease
  <1>1. /\ ZSet(reserved', S) /\ DOMAIN reserved' = DOMAIN reserved \ {b}
        /\ \A x \in DOMAIN reserved \ {b} : reserved'[x] = reserved[x]
        /\ ZSet(delayed', S) /\ DOMAIN delayed' = DOMAIN delayed \cup {b}
    <2>1. ZSet(reserved, S) /\ ZSet(delayed, S)
      BY DEF StoreIn
    <2>2. ZSet(reserved', S) /\ ZRemoved(reserved', reserved, b)
      BY <1>0, <2>1, ZRemOne
    <2>3. ZSet(delayed', S) /\ ZAdded(delayed', delayed, at, b)
      BY <1>0, <2>1, ZAddOne
    <2> QED
      BY <2>2, <2>3 DEF ZAdded, ZRemoved
  <1>2. ASSUME NEW x, Single(x), x = b => b \notin Range(ready) PROVE Single(x)'
    BY <1>0, <1>1, <1>2 DEF Single
  <1> QED
    BY <1>0, <1>1, <1>2 DEF StoreIn, Stored

(* luaDelete removes no other payload than its argument, and that one if   *)
(* there is no copy of it.                                                 *)
LEMMA DeleteRemoves ==
  ASSUME NEW S, StoreIn(S), NEW b \in S, LuaDelete(b)
  PROVE  /\ StoreIn(S)' /\ Stored' \subseteq Stored /\ Stored \subseteq Stored' \cup {b}
         /\ ready' = ready /\ notify' = notify
         /\ \A x \in DOMAIN reserved \ {b} :
                x \in DOMAIN reserved' /\ reserved'[x] = reserved[x]
         /\ \A x : Single(x) => Single(x)'
         /\ Single(b) /\ b \in DOMAIN reserved => b \notin Stored'
  <1>0. reserved' = ZRem(reserved, b) /\ UNCHANGED <<ready, delayed, notify>>
    BY DEF LuaDelete
  <1>1. /\ ZSet(reserved', S) /\ DOMAIN reserved' = DOMAIN reserved \ {b}
        /\ \A x \in DOMAIN reserved \ {b} : reserved'[x] = reserved[x]
    <2>1. ZSet(reserved, S)
      BY DEF StoreIn
    <2>2. ZSet(reserved', S) /\ ZRemoved(reserved', reserved, b)
      BY <1>0, <2>1, ZRemOne
    <2> QED
      BY <2>2 DEF ZRemoved
  <1>2. ASSUME NEW x, Single(x) PROVE Single(x)'
    BY <1>0, <1>1, <1>2 DEF Single
  <1> QED
    BY <1>0, <1>1, <1>2 DEF StoreIn, Stored, Single

(* Both migrations move payloads that are due to the list, with a token    *)
(* for each.                                                               *)
LEMMA MigrateMoves ==
  ASSUME NEW S, StoreIn(S), NEW c \in Consumer, MigrateDelayed(c) \/ MigrateReserved(c)
  PROVE  /\ StoreIn(S)' /\ Stored' = Stored
         /\ Len(ready') + notify = Len(ready) + notify'
         /\ \A x \in Range(ready') \ Range(ready) :
                \/ x \in DOMAIN delayed /\ delayed[x] <= stamp[c]
                \/ x \in DOMAIN reserved /\ reserved[x] <= stamp[c]
         /\ \A x \in DOMAIN reserved :
                ~(reserved[x] <= stamp[c]) =>
                    x \in DOMAIN reserved' /\ reserved'[x] = reserved[x]
         /\ \A x : Single(x) => Single(x)'
  <1> DEFINE Goal ==
         /\ StoreIn(S)' /\ Stored' = Stored
         /\ Len(ready') + notify = Len(ready) + notify'
         /\ \A x \in Range(ready') \ Range(ready) :
                \/ x \in DOMAIN delayed /\ delayed[x] <= stamp[c]
                \/ x \in DOMAIN reserved /\ reserved[x] <= stamp[c]
         /\ \A x \in DOMAIN reserved :
                ~(reserved[x] <= stamp[c]) =>
                    x \in DOMAIN reserved' /\ reserved'[x] = reserved[x]
         /\ \A x : Single(x) => Single(x)'
  <1>l. Len(ready) \in Nat /\ notify \in Nat
    BY DEF StoreIn
  <1>1. ASSUME UNCHANGED store PROVE Goal
    BY <1>l, <1>1 DEF store, StoreIn, Stored, Single
  <1>2. ASSUME NEW m \in LuaMigrate(delayed, stamp[c], BatchSize),
               delayed' = m.kept, ready' = ready \o m.val,
               notify' = notify + Len(m.val), UNCHANGED reserved
        PROVE  Goal
    <2>1. /\ ZSet(m.kept, S) /\ m.val \in Seq(S)
          /\ DOMAIN delayed = DOMAIN m.kept \cup Range(m.val)
          /\ DOMAIN m.kept \cap Range(m.val) = {}
          /\ \A x \in Range(m.val) : delayed[x] <= stamp[c]
          /\ \A x : Once(m.val, x)
      BY MigrateConserves DEF StoreIn
    <2>2. ready' \in Seq(S) /\ Range(ready') = Range(ready) \cup Range(m.val)
      BY <1>2, <2>1, RangeConcat DEF StoreIn
    <2>3. notify' \in Nat /\ Len(ready') + notify = Len(ready) + notify'
      BY <1>2, <2>1 DEF StoreIn
    <2>4. ASSUME NEW x, Single(x) PROVE Single(x)'
      <3>1. Once(ready', x)
        BY <1>2, <2>1, <2>4, OnceConcat DEF StoreIn, Single
      <3> QED
        BY <1>2, <2>1, <2>2, <2>4, <3>1 DEF Single
    <2>5. StoreIn(S)' /\ Stored' = Stored
      BY <1>2, <2>1, <2>2, <2>3 DEF StoreIn, Stored
    <2> QED
      BY <1>2, <2>1, <2>2, <2>3, <2>4, <2>5
  <1>3. ASSUME NEW m \in LuaMigrate(reserved, stamp[c], BatchSize),
               reserved' = m.kept, ready' = ready \o m.val,
               notify' = notify + Len(m.val), UNCHANGED delayed
        PROVE  Goal
    <2>1. /\ ZSet(m.kept, S) /\ m.val \in Seq(S)
          /\ DOMAIN reserved = DOMAIN m.kept \cup Range(m.val)
          /\ DOMAIN m.kept \cap Range(m.val) = {}
          /\ \A x \in DOMAIN m.kept : m.kept[x] = reserved[x]
          /\ \A x \in Range(m.val) : reserved[x] <= stamp[c]
          /\ \A x : Once(m.val, x)
      BY MigrateConserves DEF StoreIn
    <2>2. ready' \in Seq(S) /\ Range(ready') = Range(ready) \cup Range(m.val)
      BY <1>3, <2>1, RangeConcat DEF StoreIn
    <2>3. notify' \in Nat /\ Len(ready') + notify = Len(ready) + notify'
      BY <1>3, <2>1 DEF StoreIn
    <2>4. ASSUME NEW x, Single(x) PROVE Single(x)'
      <3>1. Once(ready', x)
        BY <1>3, <2>1, <2>4, OnceConcat DEF StoreIn, Single
      <3> QED
        BY <1>3, <2>1, <2>2, <2>4, <3>1 DEF Single
    <2>5. StoreIn(S)' /\ Stored' = Stored
      BY <1>3, <2>1, <2>2, <2>3 DEF StoreIn, Stored
    <2> QED
      BY <1>3, <2>1, <2>2, <2>3, <2>4, <2>5
  <1>4. CASE MigrateDelayed(c)
    <2>1. \/ \E m \in LuaMigrate(delayed, stamp[c], BatchSize) :
                /\ delayed' = m.kept
                /\ ready' = ready \o m.val
                /\ notify' = notify + Len(m.val)
                /\ UNCHANGED reserved
          \/ UNCHANGED store
      BY <1>4 DEF MigrateDelayed, CallFails
    <2> HIDE DEF Goal
    <2>2. Goal
      BY <1>1, <1>2, <2>1
    <2> QED
      BY <2>2 DEF Goal
  <1>5. CASE MigrateReserved(c)
    <2>1. \/ \E m \in LuaMigrate(reserved, stamp[c], BatchSize) :
                /\ reserved' = m.kept
                /\ ready' = ready \o m.val
                /\ notify' = notify + Len(m.val)
                /\ UNCHANGED delayed
          \/ UNCHANGED store
      BY <1>5 DEF MigrateReserved, CallFails
    <2> HIDE DEF Goal
    <2>2. Goal
      BY <1>1, <1>3, <2>1
    <2> QED
      BY <2>2 DEF Goal
  <1> QED
    BY <1>4, <1>5

-----------------------------------------------------------------------------
(* What each step of the driver does to the queue and to the consumers.    *)

ClientsIn(S, L) ==
    /\ now \in 0..MaxNow
    /\ lastMigratedAt \in [Driver -> {Never} \cup 0..MaxNow]
    /\ stamp \in [Consumer -> Nat]
    /\ pc \in [Consumer -> L]
    /\ raw \in [Consumer -> S \cup {NoBody}]
    /\ until \in [Consumer -> Nat]
    /\ faults \in 0..MaxFaults

(* No consumer pops with a clock reading of the future.                    *)
Punctual == \A c \in Consumer : pc[c] \in PopPc => stamp[c] <= now

(* Goto moves one consumer.                                                *)
LEMMA GotoMoves ==
  ASSUME NEW S, NEW L, ClientsIn(S, L), NEW c \in Consumer, NEW l \in L, Goto(c, l),
         l = "migrateReserved" => pc[c] \in PopPc
  PROVE  /\ pc' \in [Consumer -> L]
         /\ stamp' \in [Consumer -> Nat]
         /\ pc'[c] = l
         /\ \A x \in Consumer \ {c} : pc'[x] = pc[x]
         /\ Punctual => \A x \in Consumer : pc'[x] \in PopPc => stamp'[x] <= now
  <1>1. /\ pc' \in [Consumer -> L] /\ pc'[c] = l
        /\ \A x \in Consumer \ {c} : pc'[x] = pc[x]
    BY DEF ClientsIn, Goto
  <1>2. now \in Nat /\ stamp \in [Consumer -> Nat]
    BY DriverAssumption DEF DriverAssumption, ClientsIn
  <1>3. PICK v \in {now, stamp[c], 0} :
           /\ stamp' = [stamp EXCEPT ![c] = v]
           /\ v \in {now, 0} \/ pc[c] \in PopPc
    <2>1. CASE l \in {"migrateDelayed", "pop"}
      BY <2>1 DEF Goto
    <2>2. CASE l = "migrateReserved"
      BY <2>2 DEF Goto
    <2>3. CASE l \notin {"migrateDelayed", "pop", "migrateReserved"}
      BY <2>3 DEF Goto
    <2> QED
      BY <2>1, <2>2, <2>3
  <1>4. v \in Nat /\ stamp' \in [Consumer -> Nat]
    BY <1>2, <1>3
  <1>5. Punctual => v <= now
    BY <1>2, <1>3 DEF Punctual
  <1>6. Punctual => \A x \in Consumer : pc'[x] \in PopPc => stamp'[x] <= now
    BY <1>1, <1>2, <1>3, <1>5 DEF Punctual
  <1> QED
    BY <1>1, <1>4, <1>6

(* A step of Pop before popFromQueue keeps every payload and holds none;   *)
(* it moves what is due, and only that.                                    *)
LEMMA BeforePop ==
  ASSUME NEW S, NEW L, PopPc \subseteq L, StoreIn(S), ClientsIn(S, L), Punctual,
         NEW c \in Consumer,
         PopStart(c) \/ MigrateDelayed(c) \/ MigrateReserved(c) \/ PopBlock(c)
  PROVE  /\ StoreIn(S)' /\ Stored' = Stored
         /\ ClientsIn(S, L)' /\ Punctual'
         /\ UNCHANGED <<now, raw, until>>
         /\ pc[c] \in PopPc /\ pc'[c] \in PopPc
         /\ \A x \in Consumer \ {c} : pc'[x] = pc[x]
         /\ \A x \in Range(ready') \ Range(ready) :
                \/ x \in DOMAIN delayed /\ delayed[x] <= now
                \/ x \in DOMAIN reserved /\ reserved[x] <= now
         /\ \A x \in DOMAIN reserved :
                ~(reserved[x] <= now) => x \in DOMAIN reserved' /\ reserved'[x] = reserved[x]
         /\ \A x : Single(x) => Single(x)'
  <1> USE DEF PopPc
  <1>a. /\ MaxNow \in Nat /\ MaxFaults \in Nat /\ DriverOf \in [Consumer -> Driver]
        /\ now \in Nat /\ stamp[c] \in Nat
        /\ Fault => faults' \in 0..MaxFaults
        /\ faults \in 0..MaxFaults
    BY DriverAssumption DEF DriverAssumption, ClientsIn, Fault
  <1>1. /\ (\E l \in PopPc : Goto(c, l)) \/ UNCHANGED <<pc, stamp>>
        /\ pc[c] \in PopPc
        /\ lastMigratedAt' \in [Driver -> {Never} \cup 0..MaxNow]
        /\ faults' \in 0..MaxFaults
        /\ UNCHANGED <<now, raw, until>>
    <2>1. CASE PopStart(c)
      BY <1>a, <2>1 DEF PopStart, AfterMigration, ClientsIn
    <2>2. CASE MigrateDelayed(c)
      BY <1>a, <2>2 DEF MigrateDelayed, Reply, CallFails, ClientsIn
    <2>3. CASE MigrateReserved(c)
      BY <1>a, <2>3 DEF MigrateReserved, AfterMigration, Reply, CallFails, ClientsIn
    <2>4. CASE PopBlock(c)
      BY <1>a, <2>4 DEF PopBlock, ClientsIn
    <2> QED
      BY <2>1, <2>2, <2>3, <2>4
  <1>2. /\ ClientsIn(S, L)' /\ Punctual' /\ pc'[c] \in PopPc
        /\ \A x \in Consumer \ {c} : pc'[x] = pc[x]
    <2>1. ASSUME NEW l \in PopPc, Goto(c, l)
          PROVE  /\ pc' \in [Consumer -> L]
                 /\ stamp' \in [Consumer -> Nat]
                 /\ pc'[c] = l
                 /\ \A x \in Consumer \ {c} : pc'[x] = pc[x]
                 /\ \A x \in Consumer : pc'[x] \in PopPc => stamp'[x] <= now
      BY <1>1, <2>1, GotoMoves
    <2>2. /\ pc' \in [Consumer -> L]
          /\ stamp' \in [Consumer -> Nat]
          /\ pc'[c] \in PopPc
          /\ \A x \in Consumer \ {c} : pc'[x] = pc[x]
          /\ \A x \in Consumer : pc'[x] \in PopPc => stamp'[x] <= now
      BY <1>1, <2>1 DEF ClientsIn, Punctual
    <2> QED
      BY <1>1, <2>2 DEF ClientsIn, Punctual
  <1>3. CASE MigrateDelayed(c) \/ MigrateReserved(c)
    <2>1. /\ StoreIn(S)' /\ Stored' = Stored
          /\ \A x \in Range(ready') \ Range(ready) :
                \/ x \in DOMAIN delayed /\ delayed[x] <= stamp[c]
                \/ x \in DOMAIN reserved /\ reserved[x] <= stamp[c]
          /\ \A x \in DOMAIN reserved :
                ~(reserved[x] <= stamp[c]) =>
                    x \in DOMAIN reserved' /\ reserved'[x] = reserved[x]
          /\ \A x : Single(x) => Single(x)'
      BY <1>3, MigrateMoves
    <2>2. /\ \A x \in DOMAIN delayed : delayed[x] \in Nat
          /\ \A x \in DOMAIN reserved : reserved[x] \in Nat
      BY DEF StoreIn, ZSet
    <2>3. /\ \A x \in DOMAIN delayed : delayed[x] <= stamp[c] => delayed[x] <= now
          /\ \A x \in DOMAIN reserved : reserved[x] <= stamp[c] => reserved[x] <= now
      BY <1>1, <1>a, <2>2 DEF Punctual
    <2> QED
      BY <1>1, <1>2, <2>1, <2>3
  <1>4. CASE PopStart(c) \/ PopBlock(c)
    <2>1. /\ UNCHANGED <<ready, delayed, reserved>> /\ notify' \in Nat
      BY <1>4 DEF PopStart, PopBlock, store, StoreIn
    <2>2. StoreIn(S)' /\ Stored' = Stored /\ \A x : Single(x) => Single(x)'
      BY <2>1 DEF StoreIn, Stored, Single
    <2> QED
      BY <1>1, <1>2, <2>1, <2>2
  <1> QED
    BY <1>3, <1>4

(* popFromQueue keeps every payload; the consumer holds the head of the    *)
(* list, or nothing though it may be reserved.                             *)
Takes(c) ==
    /\ LuaPop(stamp[c] + RetryAfter)
    /\ raw' = [raw EXCEPT ![c] = Head(ready)]
    /\ until' = [until EXCEPT ![c] = stamp[c] + RetryAfter]
    /\ pc'[c] = "held"

ReplyLost(c) ==
    /\ LuaPop(stamp[c] + RetryAfter)
    /\ pc'[c] \in {"idle", "pop"}
    /\ UNCHANGED <<raw, until>>

PopsNothing(c) == pc'[c] = "idle" /\ UNCHANGED <<store, raw, until>>

LEMMA PopHolds ==
  ASSUME NEW S, NEW L, PopPc \cup {"held"} \subseteq L,
         StoreIn(S), ClientsIn(S, L), Punctual, NEW c \in Consumer, PopFromQueue(c)
  PROVE  /\ StoreIn(S)' /\ Stored' = Stored
         /\ ClientsIn(S, L)' /\ Punctual'
         /\ now' = now /\ pc[c] = "pop"
         /\ \A x \in Consumer \ {c} : pc'[x] = pc[x]
         /\ Range(ready') \subseteq Range(ready)
         /\ \A x : Single(x) => Single(x)'
         /\ stamp[c] + RetryAfter \in Nat
         /\ Takes(c) \/ ReplyLost(c) \/ PopsNothing(c)
  <1> USE DEF PopPc
  <1>a. /\ MaxNow \in Nat /\ MaxFaults \in Nat
        /\ stamp[c] + RetryAfter \in Nat
        /\ Fault => faults' \in 0..MaxFaults
        /\ faults \in 0..MaxFaults
        /\ pc[c] = "pop"
        /\ UNCHANGED <<now, lastMigratedAt>>
    BY DriverAssumption DEF DriverAssumption, ClientsIn, Fault, PopFromQueue
  <1>s. ASSUME UNCHANGED store
        PROVE  /\ StoreIn(S)' /\ Stored' = Stored /\ Range(ready') \subseteq Range(ready)
               /\ \A x : Single(x) => Single(x)'
    BY <1>s DEF store, StoreIn, Stored, Single
  <1>p. ASSUME LuaPop(stamp[c] + RetryAfter)
        PROVE  /\ StoreIn(S)' /\ Stored' = Stored /\ Range(ready') \subseteq Range(ready)
               /\ \A x : Single(x) => Single(x)'
               /\ Head(ready) \in S
    BY <1>a, <1>p, PopMoves
  <1>g. ASSUME NEW l \in L, Goto(c, l)
        PROVE  /\ pc' \in [Consumer -> L]
               /\ stamp' \in [Consumer -> Nat]
               /\ pc'[c] = l
               /\ \A x \in Consumer \ {c} : pc'[x] = pc[x]
               /\ \A x \in Consumer : pc'[x] \in PopPc => stamp'[x] <= now
    BY <1>a, <1>g, GotoMoves
  <1>1. CASE /\ LuaPop(stamp[c] + RetryAfter)
             /\ raw' = [raw EXCEPT ![c] = Head(ready)]
             /\ until' = [until EXCEPT ![c] = stamp[c] + RetryAfter]
             /\ Goto(c, "held")
             /\ UNCHANGED faults
    <2>1. /\ raw' \in [Consumer -> S \cup {NoBody}]
          /\ until' \in [Consumer -> Nat]
      BY <1>a, <1>p, <1>1 DEF ClientsIn
    <2>2. ClientsIn(S, L)' /\ Punctual'
      BY <1>a, <1>g, <1>1, <2>1 DEF ClientsIn, Punctual
    <2> QED
      BY <1>a, <1>g, <1>p, <1>1, <2>2 DEF Takes
  <1>2. CASE /\ LuaPop(stamp[c] + RetryAfter)
             /\ Goto(c, "idle") \/ UNCHANGED <<pc, stamp>>
             /\ Fault
             /\ UNCHANGED <<raw, until>>
    <2>1. /\ pc' \in [Consumer -> L]
          /\ stamp' \in [Consumer -> Nat]
          /\ pc'[c] \in {"idle", "pop"}
          /\ \A x \in Consumer \ {c} : pc'[x] = pc[x]
          /\ \A x \in Consumer : pc'[x] \in PopPc => stamp'[x] <= now
      BY <1>a, <1>g, <1>2 DEF ClientsIn, Punctual
    <2>2. ClientsIn(S, L)' /\ Punctual'
      BY <1>a, <1>2, <2>1 DEF ClientsIn, Punctual
    <2> QED
      BY <1>a, <1>p, <1>2, <2>1, <2>2 DEF ReplyLost
  <1>3. CASE /\ UNCHANGED <<store, raw, until>>
             /\ Goto(c, "idle")
             /\ faults' \in 0..MaxFaults
    <2>1. ClientsIn(S, L)' /\ Punctual'
      BY <1>a, <1>g, <1>3 DEF ClientsIn, Punctual
    <2> QED
      BY <1>a, <1>g, <1>s, <1>3, <2>1 DEF PopsNothing
  <1> QED
    <2>1. CASE ready = <<>> /\ Goto(c, "idle") /\ UNCHANGED <<store, raw, until, faults>>
      BY <1>a, <1>3, <2>1
    <2>2. CASE CallFails(c, "idle") /\ UNCHANGED <<raw, until>>
      BY <1>a, <1>3, <2>2 DEF CallFails
    <2> QED
      BY <1>1, <1>2, <2>1, <2>2 DEF PopFromQueue

(* Crash and Advance leave the queue alone and take payloads from          *)
(* consumers only.                                                         *)
LEMMA EnvironmentMoves ==
  ASSUME NEW S, NEW L, PopPc \subseteq L, StoreIn(S), ClientsIn(S, L), Punctual,
         Advance \/ \E d \in Driver : Crash(d)
  PROVE  /\ UNCHANGED store /\ StoreIn(S)' /\ Stored' = Stored
         /\ ClientsIn(S, L)' /\ Punctual'
         /\ now <= now'
         /\ \A x \in Consumer :
                \/ pc'[x] = pc[x] /\ raw'[x] = raw[x] /\ until'[x] = until[x]
                \/ pc'[x] = "idle" /\ raw'[x] = NoBody /\ now' = now
         /\ \A x : Single(x) => Single(x)'
  <1>a. /\ MaxNow \in Nat /\ MaxFaults \in Nat /\ now \in 0..MaxNow /\ "idle" \in L
        /\ Fault => faults' \in 0..MaxFaults
    BY DriverAssumption DEF DriverAssumption, ClientsIn, Fault, PopPc
  <1>1. /\ UNCHANGED store /\ StoreIn(S)' /\ Stored' = Stored
        /\ \A x : Single(x) => Single(x)'
    <2>1. UNCHANGED store
      BY DEF Advance, Crash
    <2> QED
      BY <2>1 DEF store, StoreIn, Stored, Single
  <1>2. CASE Advance
    <2>1. now < MaxNow /\ now' = now + 1 /\ UNCHANGED <<lastMigratedAt, stamp, pc, raw, until, faults>>
      BY <1>2 DEF Advance
    <2>2. ClientsIn(S, L)'
      BY <1>a, <2>1 DEF ClientsIn
    <2>3. Punctual' /\ now <= now'
      BY <1>a, <2>1 DEF ClientsIn, Punctual
    <2> QED
      BY <1>1, <2>1, <2>2, <2>3
  <1>3. ASSUME NEW d \in Driver, Crash(d)
        PROVE  /\ ClientsIn(S, L)' /\ Punctual' /\ now' = now
               /\ \A x \in Consumer :
                      \/ pc'[x] = pc[x] /\ raw'[x] = raw[x] /\ until'[x] = until[x]
                      \/ pc'[x] = "idle" /\ raw'[x] = NoBody /\ now' = now
    <2> DEFINE dead == {c \in Consumer : DriverOf[c] = d}
    <2>1. /\ pc' = [c \in Consumer |-> IF c \in dead THEN "idle" ELSE pc[c]]
          /\ raw' = [c \in Consumer |-> IF c \in dead THEN NoBody ELSE raw[c]]
          /\ until' = [c \in Consumer |-> IF c \in dead THEN 0 ELSE until[c]]
          /\ stamp' = [c \in Consumer |-> IF c \in dead THEN 0 ELSE stamp[c]]
          /\ lastMigratedAt' = [lastMigratedAt EXCEPT ![d] = Never]
          /\ now' = now /\ Fault
      BY <1>3 DEF Crash
    <2> HIDE DEF dead
    <2>2. ClientsIn(S, L)'
      BY <1>a, <2>1 DEF ClientsIn
    <2>3. Punctual'
      BY <1>a, <2>1 DEF ClientsIn, Punctual
    <2> QED
      BY <2>1, <2>2, <2>3
  <1>4. now <= now
    BY <1>a
  <1> QED
    BY <1>1, <1>2, <1>3, <1>4

-----------------------------------------------------------------------------
(* A payload that somebody holds is reserved until the time its holder     *)
(* asked for, or gone from the queue, and nobody else holds it.            *)
Leased(b) ==
    \A c \in Consumer :
        raw[c] = b => /\ b \in Stored => b \in DOMAIN reserved /\ reserved[b] = until[c]
                      /\ \A x \in Consumer \ {c} : raw[x] # b

(* A step of Pop keeps that for a payload whose reservation stands: the    *)
(* migrations do not touch it, and popFromQueue takes it from the list     *)
(* only, where it is not while it is held.                                 *)
LEMMA PopLease ==
  ASSUME NEW S, NEW L, PopPc \cup {"held"} \subseteq L,
         StoreIn(S), ClientsIn(S, L), Punctual, NEW c \in Consumer, PopStep(c),
         NEW b \in S, b # NoBody, b \notin Overrun, Single(b), Leased(b)
  PROVE  Single(b)' /\ Leased(b)'
  <1>1. CASE PopStart(c) \/ MigrateDelayed(c) \/ MigrateReserved(c) \/ PopBlock(c)
    <2>1. /\ UNCHANGED <<now, raw, until>> /\ Stored' = Stored
          /\ \A x \in DOMAIN reserved :
                ~(reserved[x] <= now) => x \in DOMAIN reserved' /\ reserved'[x] = reserved[x]
          /\ Single(b)'
      BY <1>1, BeforePop
    <2>2. \A x \in Consumer : raw[x] = b => ~(until[x] <= now)
      BY DEF Overrun
    <2> QED
      BY <2>1, <2>2 DEF Leased
  <1>2. CASE PopFromQueue(c)
    <2>1. /\ Single(b)' /\ stamp[c] + RetryAfter \in Nat /\ Stored' = Stored
          /\ Takes(c) \/ ReplyLost(c) \/ PopsNothing(c)
      BY <1>2, PopHolds
    <2>2. ASSUME LuaPop(stamp[c] + RetryAfter)
          PROVE  /\ Head(ready) \in Range(ready)
                 /\ Head(ready) \in DOMAIN reserved'
                 /\ reserved'[Head(ready)] = stamp[c] + RetryAfter
                 /\ \A x \in DOMAIN reserved \ {Head(ready)} :
                        x \in DOMAIN reserved' /\ reserved'[x] = reserved[x]
      BY <2>1, <2>2, PopMoves
    <2>3. ASSUME LuaPop(stamp[c] + RetryAfter), Head(ready) = b
          PROVE  \A x \in Consumer : raw[x] # b
      BY <2>2, <2>3 DEF Single, Leased, Stored
    <2>4. CASE Takes(c)
      <3>1. /\ LuaPop(stamp[c] + RetryAfter)
            /\ raw'[c] = Head(ready) /\ until'[c] = stamp[c] + RetryAfter
            /\ \A x \in Consumer \ {c} : raw'[x] = raw[x] /\ until'[x] = until[x]
        BY <2>4 DEF Takes, ClientsIn
      <3>2. CASE Head(ready) = b
        BY <2>1, <2>2, <2>3, <3>1, <3>2 DEF Leased
      <3>3. CASE Head(ready) # b
        BY <2>1, <2>2, <3>1, <3>3 DEF Leased
      <3> QED
        BY <3>2, <3>3
    <2>5. CASE ReplyLost(c)
      <3>1. CASE Head(ready) = b
        BY <2>1, <2>3, <2>5, <3>1 DEF Leased, ReplyLost
      <3>2. CASE Head(ready) # b
        BY <2>1, <2>2, <2>5, <3>2 DEF Leased, ReplyLost
      <3> QED
        BY <3>1, <3>2
    <2>6. CASE PopsNothing(c)
      BY <2>1, <2>6 DEF Leased, PopsNothing, store
    <2> QED
      BY <2>1, <2>4, <2>5, <2>6
  <1> QED
    BY <1>1, <1>2 DEF PopStep
=============================================================================
