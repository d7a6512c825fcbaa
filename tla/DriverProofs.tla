----------------------------- MODULE DriverProofs -----------------------------
(***************************************************************************)
(* Proofs about the Redis queue, the driver and its clients, for every set *)
(* of payloads, consumers and drivers, every visibility timeout and batch  *)
(* size, and any number of failed calls and crashes: that the driver keeps *)
(* its state, and that it keeps what a visibility timeout promises (one    *)
(* copy of every payload, one holder at a time, nothing before it is due,  *)
(* a token for whatever a blocked consumer has to be woken for), so that   *)
(* it implements LeaseQueue.                                               *)
(***************************************************************************)
EXTENDS DriverClients, RedisProofs

-----------------------------------------------------------------------------
(* The types of DriverClients are those of RedisProofs.                    *)
Place == PopPc \cup {"held", "delete", "release"}

LEMMA Typed ==
  /\ StoreOK <=> StoreIn(Body)
  /\ StoreOK' <=> StoreIn(Body)'
  /\ DriverOK <=> ClientsIn(Body, Place)
  /\ DriverOK' <=> ClientsIn(Body, Place)'
  /\ PopPc \cup {"held"} \subseteq Place /\ PopPc \subseteq Place
  <1>1. \A z : IsZSet(z) <=> ZSet(z, Body)
    <2> SUFFICES ASSUME NEW z PROVE IsZSet(z) <=> ZSet(z, Body)
      OBVIOUS
    <2>1. DOMAIN z \subseteq Body => IsFiniteSet(DOMAIN z)
      BY FS_Subset, ClientsAssumption DEF ClientsAssumption
    <2> QED
      BY <2>1 DEF IsZSet, ZSet
  <1>2. (StoreOK <=> StoreIn(Body)) /\ (StoreOK' <=> StoreIn(Body)')
    BY <1>1 DEF StoreOK, StoreIn
  <1>3. (DriverOK <=> ClientsIn(Body, Place)) /\ (DriverOK' <=> ClientsIn(Body, Place)')
    BY DEF DriverOK, ClientsIn, Place
  <1> QED
    BY <1>2, <1>3 DEF Place

-----------------------------------------------------------------------------
(* The invariant. NoBodyLost needs OnlySentBodies: a consumer may only     *)
(* settle a payload that was sent, or settled would cover others.          *)

DriverInv == TypeOK /\ OnlySentBodies /\ NoBodyLost /\ Punctual

(* What Watch adds to loose was sent.                                      *)
LEMMA WatchSent ==
  ASSUME NEW more, more \subseteq sent', loose \subseteq sent', Watch(more),
         \A x \in Consumer : raw'[x] \in sent' \cup {NoBody}
  PROVE  loose' \subseteq sent'
  BY DEF Watch, Overrun

(* The empty queue.                                                        *)
LEMMA DriverInitInv == Init => DriverInv
  <1> SUFFICES ASSUME Init PROVE DriverInv
    OBVIOUS
  <1> USE DriverAssumption DEF DriverAssumption, Init, DriverInit, EmptyStore, Empty
  <1>1. StoreOK
    BY DEF StoreOK, IsZSet
  <1>2. DriverOK
    BY DEF DriverOK, PopPc
  <1>3. Stored = {}
    BY DEF Stored, Range
  <1>4. Punctual
    BY DEF Punctual
  <1> QED
    BY <1>1, <1>2, <1>3, <1>4 DEF DriverInv, TypeOK, HistoryOK, OnlySentBodies, NoBodyLost, PopPc

(* What a producer does: it sends b for the first time, or the client      *)
(* sends it again.                                                         *)
Sending(b, at) ==
    /\ Enqueue(b, at)
    /\ faults' = faults \/ Fault
    /\ UNCHANGED <<now, lastMigratedAt, stamp, pc, raw, until, settled>>

FirstTime(b, at) ==
    /\ Sending(b, at)
    /\ b \notin sent
    /\ sent' = sent \cup {b}
    /\ unanswered' \in {unanswered, unanswered \cup {[body |-> b, availableAt |-> at]}}
    /\ loose' = loose

Again(b, at) ==
    /\ Sending(b, at)
    /\ b \in sent
    /\ [body |-> b, availableAt |-> at] \in unanswered
    /\ unanswered' \subseteq unanswered
    /\ sent' = sent
    /\ Watch(Duplicates([body |-> b, availableAt |-> at]))

LEMMA ProducerCases ==
  ASSUME DriverInv, (\E b \in Body : Push(b) \/ Later(b)) \/ \E p \in unanswered : SendAgain(p)
  PROVE  \E b \in Body, at \in {Immediately} \cup Nat : FirstTime(b, at) \/ Again(b, at)
  <1>0. now \in Nat /\ Delay \subseteq Nat /\ sent \subseteq Body
    BY DriverAssumption, ClientsAssumption
    DEF DriverAssumption, ClientsAssumption, DriverInv, TypeOK, DriverOK, HistoryOK
  <1>1. ASSUME NEW b \in Body, NEW at \in {Immediately} \cup Nat, b \notin sent,
               Produce(b, at), sent' = sent \cup {b}, UNCHANGED <<settled, loose>>
        PROVE  FirstTime(b, at)
    BY <1>1 DEF Produce, FirstTime, Sending
  <1>2. ASSUME NEW b \in Body, Push(b)
        PROVE  \E at \in {Immediately} \cup Nat : FirstTime(b, at)
    BY <1>1, <1>2 DEF Push
  <1>3. ASSUME NEW b \in Body, Later(b)
        PROVE  \E at \in {Immediately} \cup Nat : FirstTime(b, at)
    <2>1. PICK delay \in Delay : Produce(b, now + delay)
      BY <1>3 DEF Later
    <2>2. now + delay \in {Immediately} \cup Nat
      BY <1>0
    <2> QED
      BY <1>1, <1>3, <2>1, <2>2 DEF Later
  <1>4. ASSUME NEW p \in unanswered, SendAgain(p)
        PROVE  \E b \in Body, at \in {Immediately} \cup Nat : Again(b, at)
    <2>1. /\ p.body \in sent /\ p.availableAt \in {Immediately} \cup Nat
          /\ p = [body |-> p.body, availableAt |-> p.availableAt]
      BY DEF DriverInv, TypeOK, HistoryOK
    <2>2. Again(p.body, p.availableAt)
      BY <1>4, <2>1 DEF SendAgain, ProduceAgain, Again, Sending
    <2> QED
      BY <1>0, <2>1, <2>2
  <1> QED
    BY <1>2, <1>3, <1>4

(* Producers.                                                              *)
LEMMA ProducerInv ==
  ASSUME DriverInv, (\E b \in Body : Push(b) \/ Later(b)) \/ \E p \in unanswered : SendAgain(p)
  PROVE  DriverInv'
  <1> USE DEF DriverInv, TypeOK
  <1>1. PICK b \in Body, at \in {Immediately} \cup Nat : FirstTime(b, at) \/ Again(b, at)
    BY ProducerCases
  <1>2. StoreOK' /\ Stored' = Stored \cup {b}
    BY <1>1, Typed, EnqueueStores DEF FirstTime, Again, Sending
  <1>3. DriverOK' /\ Punctual' /\ UNCHANGED <<pc, raw, settled>>
    BY <1>1, DriverAssumption
    DEF DriverAssumption, FirstTime, Again, Sending, Fault, DriverOK, Punctual
  <1>4. CASE FirstTime(b, at)
    <2>1. /\ sent' = sent \cup {b} /\ loose' = loose
          /\ unanswered' \subseteq unanswered \cup {[body |-> b, availableAt |-> at]}
      BY <1>4 DEF FirstTime
    <2> QED
      BY <1>2, <1>3, <2>1 DEF HistoryOK, OnlySentBodies, NoBodyLost
  <1>5. CASE Again(b, at)
    <2>1. /\ b \in sent /\ sent' = sent /\ unanswered' \subseteq unanswered
          /\ \E more \in SUBSET {b} : Watch(more)
      BY <1>5 DEF Again, Duplicates
    <2>2. loose' \subseteq sent'
      BY <1>3, <2>1, WatchSent DEF HistoryOK, OnlySentBodies
    <2> QED
      BY <1>2, <1>3, <2>1, <2>2 DEF HistoryOK, OnlySentBodies, NoBodyLost
  <1> QED
    BY <1>1, <1>4, <1>5

(* A consumer that pops.                                                   *)
LEMMA PopInv ==
  ASSUME DriverInv, NEW c \in Consumer, Pop(c)
  PROVE  DriverInv'
  <1> USE DEF DriverInv, TypeOK
  <1>1. PopStep(c) /\ Watch({}) /\ UNCHANGED <<sent, settled, unanswered>>
    BY DEF Pop, PopStep
  <1>t. StoreIn(Body) /\ ClientsIn(Body, Place)
    BY Typed
  <1>2. /\ StoreOK' /\ Stored' = Stored /\ DriverOK' /\ Punctual'
        /\ \A x \in Consumer : raw'[x] \in Stored \cup {raw[x]}
        /\ \A x \in Consumer : (pc'[x] \notin PopPc) <=> (raw'[x] # NoBody)
    <2>1. CASE PopFromQueue(c)
      <3>1. /\ StoreIn(Body)' /\ Stored' = Stored /\ ClientsIn(Body, Place)' /\ Punctual'
            /\ pc[c] = "pop" /\ \A x \in Consumer \ {c} : pc'[x] = pc[x]
            /\ stamp[c] + RetryAfter \in Nat
            /\ Takes(c) \/ ReplyLost(c) \/ PopsNothing(c)
        BY <1>t, <2>1, Typed, PopHolds
      <3>2. CASE Takes(c)
        <4>1. Head(ready) \in Body \cap Stored
          BY <1>t, <3>1, <3>2, PopMoves DEF Takes, Stored
        <4>2. Head(ready) # NoBody
          BY <4>1, ClientsAssumption DEF ClientsAssumption
        <4> QED
          BY <3>1, <3>2, <4>1, <4>2, Typed DEF Takes, DriverOK, OnlySentBodies, PopPc
      <3>3. CASE ReplyLost(c) \/ PopsNothing(c)
        BY <3>1, <3>3, Typed DEF ReplyLost, PopsNothing, OnlySentBodies, PopPc
      <3> QED
        BY <3>1, <3>2, <3>3
    <2>2. CASE \/ PopStart(c)
               \/ MigrateDelayed(c)
               \/ MigrateReserved(c)
               \/ PopBlock(c)
      <3>1. /\ StoreIn(Body)' /\ Stored' = Stored /\ ClientsIn(Body, Place)' /\ Punctual'
            /\ raw' = raw /\ pc[c] \in PopPc /\ pc'[c] \in PopPc
            /\ \A x \in Consumer \ {c} : pc'[x] = pc[x]
        BY <1>t, <2>2, Typed, BeforePop
      <3> QED
        BY <3>1, Typed DEF OnlySentBodies, PopPc
    <2> QED
      BY <1>1, <2>1, <2>2 DEF PopStep
  <1>3. \A x \in Consumer : raw'[x] \in sent' \cup {NoBody}
    BY <1>1, <1>2 DEF OnlySentBodies
  <1>4. loose' \subseteq sent'
    BY <1>1, <1>3, WatchSent DEF HistoryOK
  <1> QED
    BY <1>1, <1>2, <1>3, <1>4 DEF HistoryOK, OnlySentBodies, NoBodyLost

(* What a consumer that settles does to its own variables: it lets go of   *)
(* the payload, or its call is sent again.                                 *)
Stays(c, l) ==
    /\ pc' = [pc EXCEPT ![c] = l]
    /\ stamp' \in [Consumer -> Nat]
    /\ \A x \in Consumer \ {c} : stamp'[x] = stamp[x]
    /\ UNCHANGED <<raw, until>>

Unexecuted(c) == UNCHANGED <<store, settled>> /\ Drop(c) /\ Watch({})

Deletes(c) ==
    /\ LuaDelete(raw[c])
    /\ settled' = settled \cup {raw[c]}
    /\ Drop(c) \/ Stays(c, "delete")
    /\ Watch({})

Releases(c, at) ==
    /\ pc[c] # "delete"
    /\ LuaRelease(raw[c], at)
    /\ settled' = settled
    /\ \/ Drop(c) /\ Watch({})
       \/ Stays(c, "release") /\ Watch({raw[c]})

LEMMA SettleCases ==
  ASSUME DriverInv, NEW c \in Consumer, Delete(c) \/ Release(c)
  PROVE  /\ raw[c] \in Body \cap sent /\ pc[c] \in Place \ PopPc
         /\ UNCHANGED <<now, lastMigratedAt, sent, unanswered>>
         /\ faults' = faults \/ Fault
         /\ Unexecuted(c) \/ Deletes(c) \/ \E at \in Nat : Releases(c, at)
  <1> USE DEF DriverInv, TypeOK
  <1>0. /\ stamp \in [Consumer -> Nat] /\ now \in Nat /\ Delay \subseteq Nat
    BY DriverAssumption, ClientsAssumption
    DEF DriverAssumption, ClientsAssumption, DriverOK
  <1>1. pc[c] \in {"held", "delete", "release"}
    BY DEF Delete, Release
  <1>2. pc[c] \in Place \ PopPc
    BY <1>1 DEF Place, PopPc
  <1>3. raw[c] \in Body \cap sent
    BY <1>2 DEF OnlySentBodies, DriverOK
  <1>4. ASSUME NEW l, NEW at \in Nat, Waits(c, l, at) PROVE Stays(c, l) /\ Fault
    BY <1>0, <1>4 DEF Waits, Stays
  <1>5. /\ UNCHANGED <<now, lastMigratedAt, sent, unanswered>>
        /\ faults' = faults \/ Fault
    BY DEF Delete, Release, Waits
  <1>6. CASE Delete(c)
    <2>1. Unexecuted(c) \/ Deletes(c)
      BY <1>4, <1>6 DEF Delete, Unexecuted, Deletes
    <2> QED
      BY <1>2, <1>3, <1>5, <2>1
  <1>7. CASE Release(c)
    <2>1. CASE Fault /\ Drop(c) /\ Watch({}) /\ UNCHANGED store
      BY <1>2, <1>3, <1>5, <1>7, <2>1 DEF Release, Unexecuted
    <2>2. ASSUME NEW at \in AvailableAt(c), LuaRelease(raw[c], at),
                 \/ Drop(c) /\ UNCHANGED faults /\ Watch({})
                 \/ Waits(c, "release", at) /\ Watch({raw[c]})
          PROVE  \E t \in Nat : Releases(c, t)
      <3>1. at \in Nat
        BY <1>0 DEF AvailableAt
      <3>2. pc[c] # "delete" /\ settled' = settled
        BY <1>7 DEF Release
      <3>3. Releases(c, at)
        BY <1>4, <2>2, <3>1, <3>2 DEF Releases
      <3> QED
        BY <3>1, <3>3
    <2> QED
      BY <1>2, <1>3, <1>5, <1>7, <2>1, <2>2 DEF Release
  <1> QED
    BY <1>6, <1>7

(* A consumer that settles what it holds.                                  *)
LEMMA SettleInv ==
  ASSUME DriverInv, NEW c \in Consumer, Delete(c) \/ Release(c)
  PROVE  DriverInv'
  <1> USE DEF DriverInv, TypeOK
  <1>1. /\ raw[c] \in Body \cap sent /\ pc[c] \in Place \ PopPc
        /\ UNCHANGED <<now, lastMigratedAt, sent, unanswered>>
        /\ faults' = faults \/ Fault
        /\ Unexecuted(c) \/ Deletes(c) \/ \E at \in Nat : Releases(c, at)
    BY SettleCases
  <1>2. /\ faults' \in 0..MaxFaults
        /\ Drop(c) \/ \E l \in {"delete", "release"} : Stays(c, l)
    BY <1>1, DriverAssumption
    DEF DriverAssumption, Fault, DriverOK, Unexecuted, Deletes, Releases
  <1>3. /\ DriverOK' /\ Punctual'
        /\ \A x \in Consumer : raw'[x] \in {raw[x], NoBody}
        /\ \A x \in Consumer : (pc'[x] \notin PopPc) <=> (raw'[x] # NoBody)
    <2>1. CASE Drop(c)
      <3>1. "idle" \in Place /\ "idle" \in PopPc
        BY DEF Place, PopPc
      <3>2. /\ pc' \in [Consumer -> Place] /\ pc'[c] = "idle"
            /\ stamp' \in [Consumer -> Nat]
            /\ \A x \in Consumer \ {c} : pc'[x] = pc[x]
            /\ \A x \in Consumer : pc'[x] \in PopPc => stamp'[x] <= now
        BY <2>1, <3>1, Typed, GotoMoves DEF Drop
      <3> QED
        BY <1>1, <1>2, <2>1, <3>1, <3>2 DEF Drop, DriverOK, OnlySentBodies, Place, Punctual
    <2>2. ASSUME NEW l \in {"delete", "release"}, Stays(c, l)
          PROVE  /\ DriverOK' /\ Punctual'
                 /\ \A x \in Consumer : raw'[x] \in {raw[x], NoBody}
                 /\ \A x \in Consumer : (pc'[x] \notin PopPc) <=> (raw'[x] # NoBody)
      <3>1. l \notin PopPc /\ l \in Place
        BY DEF Place, PopPc
      <3>2. /\ pc' \in [Consumer -> Place] /\ pc'[c] = l
            /\ \A x \in Consumer \ {c} : pc'[x] = pc[x]
        BY <2>2, <3>1, Typed DEF Stays, ClientsIn
      <3> QED
        BY <1>1, <1>2, <2>2, <3>1, <3>2 DEF Stays, DriverOK, OnlySentBodies, Place, Punctual
    <2> QED
      BY <1>2, <2>1, <2>2
  <1>4. \A x \in Consumer : raw'[x] \in sent' \cup {NoBody}
    BY <1>1, <1>3 DEF OnlySentBodies
  <1>5. loose' \subseteq sent'
    <2>1. \E more \in SUBSET {raw[c]} : Watch(more)
      BY <1>1 DEF Unexecuted, Deletes, Releases
    <2> QED
      BY <1>1, <1>4, <2>1, WatchSent DEF HistoryOK
  <1>6. CASE Unexecuted(c)
    <2>1. StoreOK' /\ Stored' = Stored /\ settled' = settled
      BY <1>6 DEF Unexecuted, store, StoreOK, Stored
    <2> QED
      BY <1>1, <1>3, <1>4, <1>5, <2>1 DEF HistoryOK, OnlySentBodies, NoBodyLost
  <1>7. CASE Deletes(c)
    <2>1. /\ StoreOK' /\ Stored' \subseteq Stored /\ Stored \subseteq Stored' \cup {raw[c]}
          /\ settled' = settled \cup {raw[c]}
      BY <1>1, <1>7, Typed, DeleteRemoves DEF Deletes
    <2> QED
      BY <1>1, <1>3, <1>4, <1>5, <2>1 DEF HistoryOK, OnlySentBodies, NoBodyLost
  <1>8. ASSUME NEW at \in Nat, Releases(c, at) PROVE DriverInv'
    <2>1. StoreOK' /\ Stored' = Stored \cup {raw[c]} /\ settled' = settled
      BY <1>1, <1>8, Typed, ReleaseStores DEF Releases
    <2> QED
      BY <1>1, <1>3, <1>4, <1>5, <2>1 DEF HistoryOK, OnlySentBodies, NoBodyLost
  <1> QED
    BY <1>1, <1>6, <1>7, <1>8

(* Clear, a crash, and the clock.                                          *)
LEMMA OtherInv ==
  ASSUME DriverInv, Clear \/ Environment
  PROVE  DriverInv'
  <1> USE DEF DriverInv, TypeOK
  <1>1. CASE Clear
    <2>1. StoreOK' /\ Stored' = {}
      BY <1>1 DEF Clear, LuaClear, StoreOK, Stored, IsZSet, Empty, Range
    <2>2. /\ DriverOK' /\ UNCHANGED <<pc, raw, sent, unanswered>>
          /\ settled' = settled \cup Stored
          /\ Watch({raw[c] : c \in Consumer} \ {NoBody})
      BY <1>1 DEF Clear, driverVars, DriverOK
    <2>3. loose' \subseteq sent'
      BY <2>2, WatchSent DEF HistoryOK, OnlySentBodies
    <2>4. Punctual'
      BY <1>1 DEF Clear, driverVars, Punctual
    <2> QED
      BY <2>1, <2>2, <2>3, <2>4 DEF HistoryOK, OnlySentBodies, NoBodyLost
  <1>2. CASE Environment
    <2>1. /\ UNCHANGED <<sent, settled, unanswered>> /\ Watch({})
          /\ Advance \/ \E d \in Driver : Crash(d)
      BY <1>2 DEF Environment, Advance, Crash
    <2>2. /\ StoreIn(Body)' /\ Stored' = Stored /\ ClientsIn(Body, Place)' /\ Punctual'
          /\ \A x \in Consumer : \/ pc'[x] = pc[x] /\ raw'[x] = raw[x]
                                 \/ pc'[x] = "idle" /\ raw'[x] = NoBody
      BY <2>1, Typed, EnvironmentMoves
    <2>3. /\ StoreOK' /\ DriverOK'
          /\ \A x \in Consumer : raw'[x] \in {raw[x], NoBody}
          /\ \A x \in Consumer : (pc'[x] \notin PopPc) <=> (raw'[x] # NoBody)
      BY <2>2, Typed DEF OnlySentBodies, PopPc
    <2>4. loose' \subseteq sent'
      BY <2>1, <2>3, WatchSent DEF HistoryOK, OnlySentBodies
    <2> QED
      BY <2>1, <2>2, <2>3, <2>4 DEF HistoryOK, OnlySentBodies, NoBodyLost
  <1> QED
    BY <1>1, <1>2

(* Every step preserves the invariant.                                     *)
LEMMA DriverNextInv == DriverInv /\ [Next]_vars => DriverInv'
  <1> SUFFICES ASSUME DriverInv, [Next]_vars PROVE DriverInv'
    OBVIOUS
  <1>1. CASE UNCHANGED vars
    BY <1>1 DEF vars, store, driverVars, history, DriverInv, TypeOK, StoreOK,
                DriverOK, HistoryOK, OnlySentBodies, NoBodyLost, Stored, Punctual
  <1> QED
    BY <1>1, ProducerInv, PopInv, SettleInv, OtherInv DEF Next

(* The variables of the queue, the driver and its clients keep their       *)
(* types.                                                                  *)
THEOREM DriverTypeOK == Spec => []TypeOK
  <1>1. DriverInv => TypeOK
    BY DEF DriverInv
  <1> QED
    BY <1>1, DriverInitInv, DriverNextInv, PTL DEF Spec

(* The queue delivers at least once: a payload that luaPush or luaLater    *)
(* accepted stays in a key of the queue until a consumer that popped it    *)
(* deletes it or the queue is cleared, under every interleaving of the     *)
(* scripts, lost replies, calls sent twice, crashes and late settlements.  *)
THEOREM AtLeastOnce == Spec => []NoBodyLost
  <1>1. DriverInv => NoBodyLost
    BY DEF DriverInv
  <1> QED
    BY <1>1, DriverInitInv, DriverNextInv, PTL DEF Spec

-----------------------------------------------------------------------------
(* The invariant. A holder whose time ran out is watched, and of every     *)
(* payload that is not in doubt there is one copy, which is reserved while *)
(* it is held and gone once it is settled; from then on only a consumer    *)
(* whose Delete is sent again still has it.                                *)
Sure(b) ==
    /\ Single(b)
    /\ Leased(b)
    /\ b \in settled => /\ b \notin Stored
                       /\ \A c \in Consumer : raw[c] = b => pc[c] = "delete"

LeaseInv == Overrun \subseteq loose /\ \A b \in sent \ loose : Sure(b)

FullInv == DriverInv /\ LeaseInv

(* A payload that is in no key has no copy.                                *)
LEMMA AbsentIsSingle ==
  ASSUME NEW b, b \notin Stored
  PROVE  Single(b)
  BY DEF Single, Stored, Once, Range

LEMMA Bodies ==
  ASSUME DriverInv
  PROVE  /\ sent \subseteq Body /\ NoBody \notin Body
         /\ StoreIn(Body) /\ ClientsIn(Body, Place) /\ Punctual
         /\ \A c \in Consumer : raw[c] \in sent \cup {NoBody}
         /\ now \in Nat /\ Delay \subseteq Nat
         /\ loose \subseteq sent /\ settled \subseteq sent
  BY Typed, ClientsAssumption, DriverAssumption
  DEF ClientsAssumption, DriverAssumption, DriverInv, TypeOK, HistoryOK, DriverOK, OnlySentBodies

LEMMA LeaseInit == Init => LeaseInv
  <1> SUFFICES ASSUME Init PROVE LeaseInv
    OBVIOUS
  <1>1. sent = {} /\ \A c \in Consumer : raw[c] = NoBody
    BY DEF Init, DriverInit
  <1> QED
    BY <1>1 DEF LeaseInv, Overrun

(* Producers.                                                              *)
LEMMA ProducerLease ==
  ASSUME FullInv, (\E b \in Body : Push(b) \/ Later(b)) \/ \E p \in unanswered : SendAgain(p)
  PROVE  LeaseInv'
  <1>0. DriverInv /\ LeaseInv
    BY DEF FullInv
  <1>1. /\ sent \subseteq Body /\ NoBody \notin Body /\ StoreIn(Body)
        /\ \A c \in Consumer : raw[c] \in sent \cup {NoBody}
        /\ settled \subseteq sent
    BY <1>0, Bodies
  <1>2. PICK b \in Body, at \in {Immediately} \cup Nat : FirstTime(b, at) \/ Again(b, at)
    BY <1>0, ProducerCases
  <1>3. /\ Stored' = Stored \cup {b} /\ reserved' = reserved
        /\ \A x : Single(x) /\ (x = b => b \notin Stored) => Single(x)'
        /\ at # Immediately /\ b \in DOMAIN delayed => \A x : Single(x) => Single(x)'
    BY <1>1, <1>2, EnqueueStores DEF FirstTime, Again, Sending
  <1>4. UNCHANGED <<now, pc, raw, until, settled>>
    BY <1>2 DEF FirstTime, Again, Sending
  <1>5. ASSUME NEW x \in sent \ loose, x # b PROVE Sure(x)'
    BY <1>0, <1>3, <1>4, <1>5 DEF LeaseInv, Sure, Leased
  <1>6. Overrun' = Overrun
    BY <1>4 DEF Overrun
  <1>7. CASE FirstTime(b, at)
    <2>1. b \notin sent /\ sent' = sent \cup {b} /\ loose' = loose
      BY <1>7 DEF FirstTime
    <2>2. b \notin Stored
      BY <1>0, <2>1 DEF DriverInv, OnlySentBodies
    <2>3. Single(b)'
      BY <1>3, <2>2, AbsentIsSingle
    <2>4. Sure(b)'
      BY <1>1, <1>4, <2>1, <2>3 DEF Sure, Leased
    <2> QED
      BY <1>0, <1>5, <1>6, <2>1, <2>4 DEF LeaseInv
  <1>8. CASE Again(b, at)
    <2>1. sent' = sent /\ loose \subseteq loose' /\ Overrun' \subseteq loose'
      BY <1>8 DEF Again, Watch
    <2>2. CASE at # Immediately /\ b \in DOMAIN delayed
      <3>1. Stored' = Stored /\ \A x : Single(x) => Single(x)'
        BY <1>3, <2>2 DEF Stored
      <3>2. ASSUME NEW x \in sent \ loose PROVE Sure(x)'
        BY <1>0, <1>3, <1>4, <3>1 DEF LeaseInv, Sure, Leased
      <3> QED
        BY <2>1, <3>2 DEF LeaseInv
    <2>3. CASE ~(at # Immediately /\ b \in DOMAIN delayed)
      <3>1. b \in loose'
        BY <1>8, <2>3 DEF Again, Watch, Duplicates
      <3> QED
        BY <1>5, <2>1, <3>1 DEF LeaseInv
    <2> QED
      BY <2>2, <2>3
  <1> QED
    BY <1>2, <1>7, <1>8

(* A consumer that pops.                                                   *)
LEMMA PopKeepsLease ==
  ASSUME FullInv, NEW c \in Consumer, Pop(c)
  PROVE  LeaseInv'
  <1>0. DriverInv /\ LeaseInv
    BY DEF FullInv
  <1>1. /\ sent \subseteq Body /\ NoBody \notin Body
        /\ StoreIn(Body) /\ ClientsIn(Body, Place) /\ Punctual
    BY <1>0, Bodies
  <1>2. PopStep(c) /\ Watch({}) /\ UNCHANGED <<sent, settled>>
    BY DEF Pop
  <1>3. /\ Stored' = Stored
        /\ \A x \in Consumer : raw'[x] = raw[x] \/ raw'[x] \in Stored
        /\ \A x \in Consumer : raw[x] # NoBody => pc'[x] = pc[x]
    <2>1. CASE PopFromQueue(c)
      <3>1. /\ Stored' = Stored /\ pc[c] = "pop" /\ stamp[c] + RetryAfter \in Nat
            /\ \A x \in Consumer \ {c} : pc'[x] = pc[x]
            /\ Takes(c) \/ ReplyLost(c) \/ PopsNothing(c)
        BY <1>1, <2>1, Typed, PopHolds
      <3>2. raw[c] = NoBody
        BY <1>0, <3>1 DEF DriverInv, OnlySentBodies, PopPc
      <3>3. CASE Takes(c)
        <4>1. Head(ready) \in Stored
          BY <1>1, <3>1, <3>3, PopMoves DEF Takes, Stored
        <4> QED
          BY <1>1, <3>1, <3>2, <3>3, <4>1 DEF Takes, ClientsIn
      <3>4. CASE ReplyLost(c) \/ PopsNothing(c)
        BY <3>1, <3>2, <3>4 DEF ReplyLost, PopsNothing
      <3> QED
        BY <3>1, <3>3, <3>4
    <2>2. CASE PopStart(c) \/ MigrateDelayed(c) \/ MigrateReserved(c) \/ PopBlock(c)
      <3>1. /\ Stored' = Stored /\ raw' = raw /\ pc[c] \in PopPc
            /\ \A x \in Consumer \ {c} : pc'[x] = pc[x]
        BY <1>1, <2>2, Typed, BeforePop
      <3> QED
        BY <1>0, <3>1 DEF DriverInv, OnlySentBodies
    <2> QED
      BY <1>2, <2>1, <2>2 DEF PopStep
  <1>4. ASSUME NEW b \in sent \ loose PROVE Sure(b)'
    <2>1. b \in Body /\ b # NoBody /\ b \notin Overrun /\ Sure(b)
      BY <1>0, <1>1 DEF LeaseInv
    <2>2. Single(b)' /\ Leased(b)'
      BY <1>1, <1>2, <2>1, Typed, PopLease DEF Sure
    <2>3. b \in settled' => /\ b \notin Stored'
                            /\ \A x \in Consumer : raw'[x] = b => pc'[x] = "delete"
      BY <1>2, <1>3, <2>1 DEF Sure
    <2> QED
      BY <2>2, <2>3 DEF Sure
  <1> QED
    BY <1>2, <1>4 DEF LeaseInv, Watch

(* A consumer that settles what it holds.                                  *)
LEMMA SettleKeepsLease ==
  ASSUME FullInv, NEW c \in Consumer, Delete(c) \/ Release(c)
  PROVE  LeaseInv'
  <1>0. DriverInv /\ LeaseInv
    BY DEF FullInv
  <1>1. /\ sent \subseteq Body /\ NoBody \notin Body
        /\ StoreIn(Body) /\ ClientsIn(Body, Place)
    BY <1>0, Bodies
  <1>2. /\ raw[c] \in Body \cap sent /\ pc[c] \in Place \ PopPc
        /\ UNCHANGED <<now, lastMigratedAt, sent, unanswered>>
        /\ Unexecuted(c) \/ Deletes(c) \/ \E at \in Nat : Releases(c, at)
    BY <1>0, SettleCases
  <1> DEFINE r == raw[c]
  <1>d. ASSUME Drop(c)
        PROVE  /\ raw'[c] = NoBody
               /\ \A x \in Consumer \ {c} : raw'[x] = raw[x] /\ until'[x] = until[x] /\ pc'[x] = pc[x]
    BY <1>1, <1>d DEF Drop, Goto, ClientsIn
  <1>s. ASSUME NEW l, Stays(c, l)
        PROVE  /\ raw' = raw /\ until' = until /\ pc'[c] = l
               /\ \A x \in Consumer \ {c} : pc'[x] = pc[x]
    BY <1>1, <1>s DEF Stays, ClientsIn
  <1>4. ASSUME NEW b \in sent \ loose' PROVE Sure(b)'
    <2>1. Sure(b) /\ b \in Body /\ b # NoBody
      BY <1>0, <1>1, <1>2 DEF LeaseInv, Watch, Unexecuted, Deletes, Releases
    <2>2. CASE Unexecuted(c)
      <3>1. /\ UNCHANGED <<ready, delayed, reserved, settled>> /\ Drop(c)
        BY <2>2 DEF Unexecuted, store
      <3>2. Single(b)' /\ Stored' = Stored
        BY <2>1, <3>1 DEF Sure, Single, Stored
      <3> QED
        BY <1>d, <2>1, <3>1, <3>2 DEF Sure, Leased
    <2>3. CASE Deletes(c)
      <3>1. /\ Stored' \subseteq Stored
            /\ \A x \in DOMAIN reserved \ {r} :
                  x \in DOMAIN reserved' /\ reserved'[x] = reserved[x]
            /\ \A x : Single(x) => Single(x)'
            /\ Single(r) /\ r \in DOMAIN reserved => r \notin Stored'
            /\ settled' = settled \cup {r}
            /\ Drop(c) \/ Stays(c, "delete")
        BY <1>1, <1>2, <2>3, DeleteRemoves DEF Deletes
      <3>2. CASE b # r
        BY <1>d, <1>s, <2>1, <3>1, <3>2 DEF Sure, Leased
      <3>3. CASE b = r
        <4>1. b \notin Stored' /\ \A x \in Consumer \ {c} : raw[x] # b
          BY <2>1, <3>1, <3>3 DEF Sure, Leased
        <4>2. \A x \in Consumer \ {c} : raw'[x] # b
          BY <1>d, <1>s, <3>1, <4>1
        <4>3. raw'[c] = b => pc'[c] = "delete"
          BY <1>d, <1>s, <2>1, <3>1
        <4> QED
          BY <2>1, <3>1, <4>1, <4>2, <4>3 DEF Sure, Leased
      <3> QED
        BY <3>2, <3>3
    <2>4. ASSUME NEW at \in Nat, Releases(c, at)
          PROVE  Sure(b)'
      <3>1. /\ Stored' = Stored \cup {r}
            /\ \A x \in DOMAIN reserved \ {r} :
                  x \in DOMAIN reserved' /\ reserved'[x] = reserved[x]
            /\ \A x : Single(x) /\ (x = r => r \notin Range(ready)) => Single(x)'
            /\ settled' = settled /\ pc[c] # "delete"
        BY <1>1, <1>2, <2>4, ReleaseStores DEF Releases
      <3>2. CASE b # r
        <4>1. Drop(c) \/ Stays(c, "release")
          BY <2>4 DEF Releases
        <4> QED
          BY <1>d, <1>s, <2>1, <3>1, <3>2, <4>1 DEF Sure, Leased
      <3>3. CASE b = r
        <4>1. Drop(c)
          BY <2>4, <3>3 DEF Releases, Watch
        <4>2. b \notin settled
          BY <2>1, <3>1, <3>3 DEF Sure
        <4>3. b \in Stored
          BY <1>0, <4>2 DEF DriverInv, NoBodyLost
        <4>4. b \in DOMAIN reserved /\ \A x \in Consumer \ {c} : raw[x] # b
          BY <2>1, <3>3, <4>3 DEF Sure, Leased
        <4>5. Single(b)'
          BY <2>1, <3>1, <4>4 DEF Sure, Single
        <4> QED
          BY <1>d, <2>1, <3>1, <4>1, <4>2, <4>4, <4>5 DEF Sure, Leased
      <3> QED
        BY <3>2, <3>3
    <2> QED
      BY <1>2, <2>2, <2>3, <2>4
  <1>5. Overrun' \subseteq loose'
    BY <1>2 DEF Watch, Unexecuted, Deletes, Releases
  <1> QED
    BY <1>2, <1>4, <1>5 DEF LeaseInv

(* Clear, a crash, and the clock.                                          *)
LEMMA OtherKeepsLease ==
  ASSUME FullInv, Clear \/ Environment
  PROVE  LeaseInv'
  <1>0. DriverInv /\ LeaseInv
    BY DEF FullInv
  <1>1. /\ sent \subseteq Body /\ NoBody \notin Body
        /\ StoreIn(Body) /\ ClientsIn(Body, Place) /\ Punctual
    BY <1>0, Bodies
  <1>2. CASE Clear
    <2>1. /\ ready' = <<>> /\ Stored' = {} /\ UNCHANGED <<raw, sent>>
          /\ Watch({raw[c] : c \in Consumer} \ {NoBody})
      BY <1>2 DEF Clear, LuaClear, driverVars, Stored, Empty, Range
    <2>2. ASSUME NEW b \in sent \ loose' PROVE Sure(b)'
      <3>1. \A c \in Consumer : raw[c] # b
        BY <1>1, <2>1 DEF Watch
      <3>2. Single(b)'
        BY <2>1 DEF Single, Stored, Once, Range
      <3> QED
        BY <2>1, <3>1, <3>2 DEF Sure, Leased
    <2> QED
      BY <2>1, <2>2 DEF LeaseInv, Watch
  <1>3. CASE Environment
    <2>1. /\ UNCHANGED <<sent, settled>> /\ Watch({})
          /\ Advance \/ \E d \in Driver : Crash(d)
      BY <1>3 DEF Environment
    <2>2. /\ UNCHANGED store /\ Stored' = Stored
          /\ \A x \in Consumer : \/ pc'[x] = pc[x] /\ raw'[x] = raw[x] /\ until'[x] = until[x]
                                 \/ raw'[x] = NoBody
          /\ \A x : Single(x) => Single(x)'
      BY <1>1, <2>1, Typed, EnvironmentMoves
    <2>3. ASSUME NEW b \in sent \ loose PROVE Sure(b)'
      BY <1>0, <1>1, <2>1, <2>2 DEF LeaseInv, Sure, Leased, store
    <2> QED
      BY <2>1, <2>3 DEF LeaseInv, Watch
  <1> QED
    BY <1>2, <1>3

LEMMA FullNext == FullInv /\ [Next]_vars => FullInv'
  <1> SUFFICES ASSUME FullInv, [Next]_vars PROVE FullInv'
    OBVIOUS
  <1>1. DriverInv'
    BY DriverNextInv DEF FullInv
  <1>2. CASE UNCHANGED vars
    BY <1>1, <1>2 DEF FullInv, LeaseInv, Sure, Single, Leased, Stored, Overrun,
                      vars, store, driverVars, history
  <1> QED
    BY <1>1, <1>2, ProducerLease, PopKeepsLease, SettleKeepsLease, OtherKeepsLease
    DEF Next, FullInv

LEMMA FullAlways == Spec => []FullInv
  <1>1. Init => FullInv
    BY DriverInitInv, LeaseInit DEF FullInv
  <1> QED
    BY <1>1, FullNext, PTL DEF Spec

-----------------------------------------------------------------------------
(* The visibility timeout: while the reservation a consumer made stands,   *)
(* and no push or release of it is sent twice, its payload is held by no   *)
(* other consumer and stays reserved until the score popFromQueue gave it, *)
(* however migrations, lost replies, crashes and other consumers           *)
(* interleave.                                                             *)
THEOREM LeasesAreExclusive == Spec => []Exclusive
  <1>1. ASSUME FullInv PROVE Exclusive
    <2> SUFFICES ASSUME NEW c \in Consumer, pc[c] = "held", raw[c] \notin loose
                 PROVE  /\ raw[c] \in DOMAIN reserved
                        /\ reserved[raw[c]] = until[c]
                        /\ \A x \in Consumer \ {c} : raw[x] # raw[c]
      BY DEF Exclusive
    <2>1. raw[c] \in sent \ loose
      BY <1>1 DEF FullInv, DriverInv, OnlySentBodies, PopPc
    <2>2. Sure(raw[c])
      BY <1>1, <2>1 DEF FullInv, LeaseInv
    <2>3. raw[c] \in Stored
      BY <1>1, <2>1, <2>2 DEF Sure, FullInv, DriverInv, NoBodyLost
    <2> QED
      BY <2>2, <2>3 DEF Sure, Leased
  <1> QED
    BY <1>1, FullAlways, PTL

(* How often a payload without copies is in the list.                      *)
LEMMA Occurrences ==
  ASSUME NEW s, NEW b, DOMAIN s \subseteq Nat, Once(s, b)
  PROVE  Cardinality({i \in DOMAIN s : s[i] = b}) = IF b \in Range(s) THEN 1 ELSE 0
  <1>1. CASE b \notin Range(s)
    <2>1. {i \in DOMAIN s : s[i] = b} = {}
      BY <1>1 DEF Range
    <2> QED
      BY <1>1, <2>1, FS_EmptySet
  <1>2. CASE b \in Range(s)
    <2>1. PICK i \in DOMAIN s : s[i] = b
      BY <1>2 DEF Range
    <2>2. {j \in DOMAIN s : s[j] = b} = {i}
      BY <2>1 DEF Once
    <2> QED
      BY <1>2, <2>2, FS_Singleton
  <1> QED
    BY <1>1, <1>2

(* A payload is in one key of the queue, once, until it is settled, and in *)
(* none after: no interleaving of scripts, failed calls and crashes copies *)
(* it, as long as its holders are in time and neither a push nor a release *)
(* of it is sent twice.                                                    *)
THEOREM NoCopies == Spec => []OneCopy
  <1>1. ASSUME FullInv PROVE OneCopy
    <2> SUFFICES ASSUME NEW b \in sent \ loose
                 PROVE  Copies(b) = IF b \in settled THEN 0 ELSE 1
      BY DEF OneCopy
    <2>1. Sure(b) /\ Single(b)
      BY <1>1 DEF FullInv, LeaseInv, Sure
    <2>2. Cardinality({i \in DOMAIN ready : ready[i] = b}) = IF b \in Range(ready) THEN 1 ELSE 0
      <3>1. DOMAIN ready \subseteq Nat
        BY <1>1 DEF FullInv, DriverInv, TypeOK, StoreOK
      <3> QED
        BY <2>1, <3>1, Occurrences DEF Single
    <2>3. b \in settled <=> b \notin Stored
      BY <1>1, <2>1 DEF Sure, FullInv, DriverInv, NoBodyLost
    <2>4. CASE b \in Range(ready)
      BY <2>1, <2>2, <2>3, <2>4 DEF Copies, Single, Stored
    <2>5. CASE b \in DOMAIN delayed
      BY <2>1, <2>2, <2>3, <2>5 DEF Copies, Single, Stored
    <2>6. CASE b \in DOMAIN reserved
      BY <2>1, <2>2, <2>3, <2>6 DEF Copies, Single, Stored
    <2>7. CASE b \notin Stored
      BY <2>2, <2>3, <2>7 DEF Copies, Stored
    <2> QED
      BY <2>4, <2>5, <2>6, <2>7 DEF Stored
  <1> QED
    BY <1>1, FullAlways, PTL

(* Nothing becomes poppable before its available_at or while its           *)
(* reservation stands, though the migrations use a clock reading that was  *)
(* taken before the call.                                                  *)
THEOREM NothingEarly == Spec => NoEarlyDelivery
  <1>1. ASSUME DriverInv, Next PROVE BecomesReadyOnlyWhenDue
    <2>0. /\ StoreIn(Body) /\ ClientsIn(Body, Place) /\ Punctual
          /\ now \in Nat /\ Delay \subseteq Nat
      BY <1>1, Bodies
    <2>1. ASSUME (\E b \in Body : Push(b) \/ Later(b)) \/ \E p \in unanswered : SendAgain(p)
          PROVE  BecomesReadyOnlyWhenDue
      <3>1. PICK b \in Body, at \in {Immediately} \cup Nat : FirstTime(b, at) \/ Again(b, at)
        BY <1>1, <2>1, ProducerCases
      <3>2. /\ Range(ready') \subseteq Range(ready) \cup {b}
            /\ at # Immediately /\ b \in DOMAIN delayed => ready' = ready
        BY <2>0, <3>1, EnqueueStores DEF FirstTime, Again, Sending
      <3>3. \/ b \notin sent \/ b \in loose'
            \/ at # Immediately /\ b \in DOMAIN delayed
        BY <3>1 DEF FirstTime, Again, Watch, Duplicates
      <3> QED
        BY <3>2, <3>3 DEF BecomesReadyOnlyWhenDue
    <2>2. ASSUME NEW c \in Consumer, Pop(c) PROVE BecomesReadyOnlyWhenDue
      <3>1. CASE PopFromQueue(c)
        <4>1. Range(ready') \subseteq Range(ready)
          BY <2>0, <3>1, Typed, PopHolds
        <4> QED
          BY <4>1 DEF BecomesReadyOnlyWhenDue
      <3>2. CASE PopStart(c) \/ MigrateDelayed(c) \/ MigrateReserved(c) \/ PopBlock(c)
        <4>1. \A x \in Range(ready') \ Range(ready) :
                 \/ x \in DOMAIN delayed /\ delayed[x] <= now
                 \/ x \in DOMAIN reserved /\ reserved[x] <= now
          BY <2>0, <3>2, Typed, BeforePop
        <4> QED
          BY <4>1 DEF BecomesReadyOnlyWhenDue
      <3> QED
        BY <2>2, <3>1, <3>2 DEF Pop, PopStep
    <2>3. ASSUME ready' = ready \/ ready' = <<>> PROVE BecomesReadyOnlyWhenDue
      BY <2>3 DEF BecomesReadyOnlyWhenDue, Range
    <2>4. ASSUME NEW c \in Consumer, Delete(c) \/ Release(c) PROVE BecomesReadyOnlyWhenDue
      BY <2>3, <2>4 DEF Delete, Release, LuaDelete, LuaRelease, store
    <2>5. CASE Clear \/ Environment
      BY <2>3, <2>5 DEF Clear, LuaClear, Environment, Advance, Crash, store
    <2> QED
      BY <1>1, <2>1, <2>2, <2>4, <2>5 DEF Next
  <1>2. DriverInv /\ [Next]_vars => [BecomesReadyOnlyWhenDue]_vars
    BY <1>1
  <1>3. FullInv => DriverInv
    BY DEF FullInv
  <1> QED
    BY <1>2, <1>3, FullAlways, PTL DEF Spec, NoEarlyDelivery

-----------------------------------------------------------------------------
(* The consumers on their way to popFromQueue, and what the faults so far  *)
(* may have cost in tokens and in consumers.                               *)
Popping == {c \in Consumer : pc[c] = "pop"}

Slack == faults * Cardinality(Consumer)

(* How one consumer that moves changes the number of those that pop.       *)
LEMMA PoppingMoves ==
  ASSUME IsFiniteSet(Consumer), NEW c \in Consumer,
         \A x \in Consumer \ {c} : pc'[x] = pc[x]
  PROVE  /\ Cardinality(Popping) \in Nat /\ Cardinality(Popping') \in Nat
         /\ Cardinality(Consumer) \in Nat /\ Cardinality(Consumer) >= 1
         /\ Cardinality(Popping') >= Cardinality(Popping) - 1
         /\ pc[c] # "pop" => Cardinality(Popping') >= Cardinality(Popping)
         /\ pc[c] # "pop" /\ pc'[c] = "pop" =>
                Cardinality(Popping') = Cardinality(Popping) + 1
  <1>1. IsFiniteSet(Popping) /\ IsFiniteSet(Popping')
    BY FS_Subset DEF Popping
  <1>2. /\ Cardinality(Popping) \in Nat /\ Cardinality(Popping') \in Nat
        /\ Cardinality(Consumer) \in Nat
    BY <1>1, FS_CardinalityType
  <1>3. Cardinality(Consumer) >= 1
    BY <1>2, FS_EmptySet
  <1>4. CASE pc'[c] = "pop"
    <2>1. Popping' = Popping \cup {c} /\ (c \in Popping <=> pc[c] = "pop")
      BY <1>4 DEF Popping
    <2>2. Cardinality(Popping') = IF c \in Popping THEN Cardinality(Popping)
                                  ELSE Cardinality(Popping) + 1
      BY <1>1, <2>1, FS_AddElement
    <2> QED
      BY <1>2, <1>3, <2>1, <2>2
  <1>5. CASE pc'[c] # "pop"
    <2>1. Popping' = Popping \ {c} /\ (c \in Popping <=> pc[c] = "pop")
      BY <1>5 DEF Popping
    <2>2. Cardinality(Popping') = IF c \in Popping THEN Cardinality(Popping) - 1
                                  ELSE Cardinality(Popping)
      BY <1>1, <2>1, FS_RemoveElement
    <2> QED
      BY <1>2, <1>3, <1>5, <2>1, <2>2
  <1> QED
    BY <1>4, <1>5

(* A fault makes room for as many lost tokens as there are consumers.      *)
LEMMA SlackGrows ==
  ASSUME IsFiniteSet(Consumer), faults \in Nat
  PROVE  /\ Slack \in Nat
         /\ faults' = faults => Slack' = Slack
         /\ Fault => Slack' = Slack + Cardinality(Consumer)
  <1>1. Cardinality(Consumer) \in Nat
    BY FS_CardinalityType
  <1>2. (faults + 1) * Cardinality(Consumer) = faults * Cardinality(Consumer) + Cardinality(Consumer)
    BY <1>1
  <1>3. faults * Cardinality(Consumer) \in Nat
    BY <1>1
  <1> QED
    BY <1>2, <1>3 DEF Slack, Fault

(* The tokens cover the list: the inductive step.                          *)
LEMMA WakeupNext ==
  ASSUME IsFiniteSet(Consumer), DriverInv, [Next]_vars, NoLostWakeup
  PROVE  NoLostWakeup'
  <1> DEFINE N == Cardinality(Consumer)
             P == Cardinality(Popping)
  <1>0. /\ StoreIn(Body) /\ ClientsIn(Body, Place) /\ Punctual
        /\ now \in Nat /\ Delay \subseteq Nat
    BY Bodies
  <1>1. /\ Len(ready) \in Nat /\ notify \in Nat /\ faults \in Nat
    BY <1>0, DriverAssumption DEF StoreIn, ClientsIn, DriverAssumption
  <1>2. /\ Slack \in Nat
        /\ faults' = faults => Slack' = Slack
        /\ Fault => Slack' = Slack + N
    BY <1>1, SlackGrows
  <1>3. N \in Nat /\ P \in Nat /\ P <= N /\ P' \in Nat
    <2>1. IsFiniteSet(Popping) /\ IsFiniteSet(Popping') /\ P <= N
      BY FS_Subset DEF Popping
    <2> QED
      BY <2>1, FS_CardinalityType
  <1>4. Len(ready) <= notify + P + Slack
    BY DEF NoLostWakeup, Popping, Slack
  <1>5. SUFFICES Len(ready') <= notify' + P' + Slack'
    BY DEF NoLostWakeup, Popping, Slack
  <1>6. ASSUME NEW c \in Consumer, \A x \in Consumer \ {c} : pc'[x] = pc[x]
        PROVE  /\ N >= 1 /\ P' >= P - 1
               /\ pc[c] # "pop" => P' >= P
               /\ pc[c] # "pop" /\ pc'[c] = "pop" => P' = P + 1
    BY <1>6, PoppingMoves
  <1>7. ASSUME (\E b \in Body : Push(b) \/ Later(b)) \/ \E p \in unanswered : SendAgain(p)
        PROVE  Len(ready') <= notify' + P' + Slack'
    <2>1. PICK b \in Body, at \in {Immediately} \cup Nat : FirstTime(b, at) \/ Again(b, at)
      BY <1>7, ProducerCases
    <2>2. Len(ready') <= Len(ready) + 1 /\ notify' = notify + 1 /\ StoreIn(Body)'
      BY <1>0, <2>1, EnqueueStores DEF FirstTime, Again, Sending
    <2>3. pc' = pc /\ (faults' = faults \/ Fault)
      BY <2>1 DEF FirstTime, Again, Sending
    <2>4. P' = P
      BY <2>3 DEF Popping
    <2>5. Slack' >= Slack /\ Len(ready') \in Nat /\ Slack' \in Nat
      BY <1>2, <1>3, <2>2, <2>3 DEF StoreIn
    <2> QED
      BY <1>1, <1>2, <1>3, <1>4, <2>2, <2>4, <2>5
  <1>8. ASSUME NEW c \in Consumer, Pop(c)
        PROVE  Len(ready') <= notify' + P' + Slack'
    <2>g. ASSUME NEW l \in Place, Goto(c, l)
          PROVE  pc'[c] = l /\ \A x \in Consumer \ {c} : pc'[x] = pc[x]
      BY <1>0, <2>g DEF Goto, ClientsIn
    <2>p. {"idle", "migrateDelayed", "migrateReserved", "block", "pop", "held"} \subseteq Place
      BY DEF Place, PopPc
    <2>1. CASE PopStart(c)
      <3>1. UNCHANGED <<ready, notify, faults>> /\ pc[c] # "pop"
            /\ \E l \in Place : Goto(c, l)
        BY <2>1, <2>p DEF PopStart, AfterMigration, store
      <3> QED
        BY <1>1, <1>2, <1>3, <1>4, <1>6, <2>g, <3>1
    <2>2. CASE MigrateDelayed(c) \/ MigrateReserved(c)
      <3>1. Len(ready') + notify = Len(ready) + notify' /\ StoreIn(Body)'
        BY <1>0, <2>2, MigrateMoves
      <3>2. /\ pc[c] # "pop" /\ (faults' = faults \/ Fault)
            /\ pc' = pc \/ \E l \in Place : Goto(c, l)
        BY <2>2, <2>p DEF MigrateDelayed, MigrateReserved, AfterMigration, Reply, CallFails
      <3>3. P' >= P
        BY <1>6, <2>g, <3>2
      <3>4. Slack' >= Slack /\ Slack' \in Nat /\ Len(ready') \in Nat /\ notify' \in Nat
        BY <1>2, <1>3, <3>1, <3>2 DEF StoreIn
      <3> QED
        BY <1>1, <1>2, <1>3, <1>4, <3>1, <3>3, <3>4
    <2>3. CASE PopBlock(c)
      <3>1. ready' = ready /\ pc[c] # "pop"
        BY <2>3 DEF PopBlock
      <3>2. \/ notify' = notify - 1 /\ Goto(c, "pop") /\ faults' = faults
            \/ notify' = notify /\ Goto(c, "pop") /\ faults' = faults
            \/ /\ notify' \in {notify, notify - 1} /\ Fault
               /\ Goto(c, "pop") \/ Goto(c, "idle") \/ pc' = pc
        BY <2>3 DEF PopBlock
      <3>3. CASE Goto(c, "pop") /\ faults' = faults /\ notify' \in {notify, notify - 1}
        <4>1. P' = P + 1 /\ Slack' = Slack
          BY <1>2, <1>6, <2>g, <2>p, <3>1, <3>3
        <4> QED
          BY <1>1, <1>2, <1>3, <1>4, <3>1, <3>3, <4>1
      <3>4. CASE /\ notify' \in {notify, notify - 1} /\ Fault
                 /\ Goto(c, "pop") \/ Goto(c, "idle") \/ pc' = pc
        <4>1. P' >= P /\ N >= 1 /\ Slack' = Slack + N
          BY <1>2, <1>6, <2>g, <2>p, <3>1, <3>4
        <4> QED
          BY <1>1, <1>2, <1>3, <1>4, <3>1, <3>4, <4>1
      <3> QED
        BY <3>2, <3>3, <3>4
    <2>4. CASE PopFromQueue(c)
      <3>1. \A x \in Consumer \ {c} : pc'[x] = pc[x]
        BY <1>0, <2>4, Typed, PopHolds
      <3>2. P' >= P - 1 /\ N >= 1
        BY <1>6, <3>1
      <3>3. CASE LuaPop(stamp[c] + RetryAfter)
        <4>1. Len(ready') = Len(ready) - 1 /\ notify' = notify
          <5>1. stamp[c] + RetryAfter \in Nat
            BY <1>0, <2>4, Typed, PopHolds
          <5> QED
            BY <1>0, <3>3, <5>1, PopMoves
        <4>2. faults' = faults \/ Fault
          BY <2>4 DEF PopFromQueue, CallFails
        <4>3. Slack' >= Slack /\ Slack' \in Nat
          BY <1>2, <1>3, <4>2
        <4> QED
          BY <1>1, <1>2, <1>3, <1>4, <3>2, <4>1, <4>3
      <3>4. CASE ready = <<>> /\ UNCHANGED <<store, faults>>
        <4>1. Len(ready') = 0 /\ notify' = notify /\ Slack' = Slack
          BY <1>2, <3>4 DEF store
        <4> QED
          BY <1>1, <1>2, <1>3, <4>1
      <3>5. CASE Fault /\ UNCHANGED store
        <4>1. ready' = ready /\ notify' = notify /\ Slack' = Slack + N
          BY <1>2, <3>5 DEF store
        <4> QED
          BY <1>1, <1>2, <1>3, <1>4, <3>2, <4>1
      <3> QED
        BY <2>4, <3>3, <3>4, <3>5 DEF PopFromQueue, CallFails
    <2> QED
      BY <1>8, <2>1, <2>2, <2>3, <2>4 DEF Pop, PopStep
  <1>9. ASSUME NEW c \in Consumer, Delete(c) \/ Release(c)
        PROVE  Len(ready') <= notify' + P' + Slack'
    <2>1. UNCHANGED <<ready, notify>> /\ pc[c] # "pop" /\ (faults' = faults \/ Fault)
      BY <1>9 DEF Delete, Release, Waits, LuaDelete, LuaRelease, store
    <2>2. \A x \in Consumer \ {c} : pc'[x] = pc[x]
      BY <1>0, <1>9 DEF Delete, Release, Drop, Waits, Goto, ClientsIn
    <2>3. P' >= P
      BY <1>6, <2>1, <2>2
    <2>4. Slack' >= Slack /\ Slack' \in Nat
      BY <1>2, <1>3, <2>1
    <2> QED
      BY <1>1, <1>2, <1>3, <1>4, <2>1, <2>3, <2>4
  <1>10. CASE Clear
    <2>1. Len(ready') = 0 /\ notify' = 0 /\ faults' = faults
      BY <1>10 DEF Clear, LuaClear, driverVars
    <2> QED
      BY <1>2, <1>3, <2>1
  <1>11. CASE Environment
    <2>1. UNCHANGED <<ready, notify>>
      BY <1>11 DEF Environment, Advance, Crash, store
    <2>2. CASE pc' = pc /\ faults' = faults
      <3>1. P' = P /\ Slack' = Slack
        BY <1>2, <2>2 DEF Popping
      <3> QED
        BY <1>4, <2>1, <3>1
    <2>3. CASE Fault
      BY <1>1, <1>2, <1>3, <1>4, <2>1, <2>3
    <2> QED
      BY <1>11, <2>2, <2>3 DEF Environment, Advance, Crash
  <1>12. CASE UNCHANGED vars
    <2>1. UNCHANGED <<ready, notify, pc, faults>>
      BY <1>12 DEF vars, store, driverVars
    <2>2. P' = P /\ Slack' = Slack
      BY <1>2, <2>1 DEF Popping
    <2> QED
      BY <1>4, <2>1, <2>2
  <1> QED
    BY <1>7, <1>8, <1>9, <1>10, <1>11, <1>12 DEF Next

(* No wake-up is lost: whatever order pushes, migrations, BLPops and pops  *)
(* happen in, each payload in the list has a token or a consumer on its    *)
(* way to pop, up to what failed calls and crashes destroyed.              *)
THEOREM WakeupsAreNotLost ==
  ASSUME IsFiniteSet(Consumer)
  PROVE  Spec => []NoLostWakeup
  <1>1. Init => NoLostWakeup
    <2> SUFFICES ASSUME Init PROVE NoLostWakeup
      OBVIOUS
    <2>1. Len(ready) = 0 /\ notify = 0 /\ faults = 0
      BY DEF Init, DriverInit, EmptyStore
    <2>2. Cardinality(Popping) \in Nat /\ Slack \in Nat
      BY <2>1, SlackGrows, FS_Subset, FS_CardinalityType DEF Popping
    <2> QED
      BY <2>1, <2>2 DEF NoLostWakeup, Popping, Slack
  <1>2. FullInv => DriverInv
    BY DEF FullInv
  <1>3. DriverInv /\ NoLostWakeup /\ [Next]_vars => NoLostWakeup'
    BY WakeupNext
  <1> QED
    BY <1>1, <1>2, <1>3, FullAlways, PTL DEF Spec

-----------------------------------------------------------------------------
(* Without blockFor nobody reads the notify list. BLPop is reached only    *)
(* through a driver that blocks.                                           *)
BlockedBlock == \A c \in Consumer : pc[c] = "block" => DriverOf[c] \in Blocking

LEMMA BlockedNext ==
  ASSUME DriverInv, [Next]_vars, BlockedBlock
  PROVE  BlockedBlock'
  <1>0. ClientsIn(Body, Place) /\ {"idle", "migrateDelayed", "migrateReserved", "pop", "held"}
                                     \subseteq Place \ {"block"}
    BY Bodies DEF Place, PopPc
  <1>1. ASSUME NEW c \in Consumer, NEW l, Goto(c, l), l # "block" \/ DriverOf[c] \in Blocking
        PROVE  BlockedBlock'
    BY <1>0, <1>1 DEF BlockedBlock, Goto, ClientsIn
  <1>2. CASE pc' = pc
    BY <1>2 DEF BlockedBlock
  <1>3. ASSUME NEW c \in Consumer, Pop(c) PROVE BlockedBlock'
    <2>1. AfterMigration(c) # "block" \/ DriverOf[c] \in Blocking
      BY DEF AfterMigration
    <2> QED
      BY <1>1, <1>2, <1>3, <2>1 DEF Pop, PopStep, PopStart, MigrateDelayed, MigrateReserved,
          PopBlock, PopFromQueue, Reply, CallFails
  <1>4. ASSUME NEW c \in Consumer, Delete(c) \/ Release(c) PROVE BlockedBlock'
    <2>1. CASE Drop(c)
      BY <1>1, <2>1 DEF Drop
    <2>2. ASSUME NEW l \in {"delete", "release"}, NEW at, Waits(c, l, at) PROVE BlockedBlock'
      BY <1>0, <2>2 DEF Waits, BlockedBlock, ClientsIn
    <2> QED
      BY <1>4, <2>1, <2>2 DEF Delete, Release
  <1>5. ASSUME NEW d \in Driver, Crash(d) PROVE BlockedBlock'
    BY <1>5 DEF Crash, BlockedBlock
  <1>6. CASE \/ \E b \in Body : Push(b) \/ Later(b)
             \/ \E p \in unanswered : SendAgain(p)
             \/ Clear \/ Advance
    BY <1>2, <1>6 DEF Push, Later, SendAgain, Produce, ProduceAgain, Clear, Advance, driverVars
  <1>7. CASE UNCHANGED vars
    BY <1>2, <1>7 DEF vars, driverVars
  <1> QED
    BY <1>3, <1>4, <1>5, <1>6, <1>7 DEF Next, Environment

(* No token is taken, and one is added for each payload that is accepted.  *)
TokensPileUp == notify' >= notify /\ (sent' # sent => notify' > notify)

(* With blockFor = 0 on every driver the notify list only grows, by one    *)
(* element per push at least, however many payloads are popped and         *)
(* deleted: nothing but Clear bounds its memory.                           *)
THEOREM UnreadTokensPileUp ==
  ASSUME Blocking = {}
  PROVE  Spec => [][Clear \/ TokensPileUp]_vars
  <1>1. Init => BlockedBlock
    BY DEF Init, DriverInit, BlockedBlock
  <1>2. DriverInv /\ BlockedBlock /\ [Next]_vars => BlockedBlock'
    BY BlockedNext
  <1>3. DriverInv /\ BlockedBlock /\ [Next]_vars => [Clear \/ TokensPileUp]_vars
    <2> SUFFICES ASSUME DriverInv, BlockedBlock, Next, ~Clear PROVE TokensPileUp
      OBVIOUS
    <2>0. StoreIn(Body) /\ notify \in Nat /\ Delay \subseteq Nat /\ now \in Nat
      BY Bodies DEF StoreIn
    <2>1. ASSUME (\E b \in Body : Push(b) \/ Later(b)) \/ \E p \in unanswered : SendAgain(p)
          PROVE  TokensPileUp
      <3>1. notify' = notify + 1
        BY <2>1 DEF Push, Later, SendAgain, Produce, ProduceAgain, Enqueue, LuaPush, LuaLater
      <3> QED
        BY <2>0, <3>1 DEF TokensPileUp
    <2>2. CASE UNCHANGED <<notify, sent>>
      BY <2>0, <2>2 DEF TokensPileUp
    <2>3. ASSUME NEW c \in Consumer, Pop(c) PROVE TokensPileUp
      <3>1. sent' = sent /\ pc[c] # "block"
        BY <2>3 DEF Pop, BlockedBlock
      <3>2. CASE notify' = notify
        BY <2>2, <3>1, <3>2
      <3>3. ASSUME NEW z, ZSet(z, Body), NEW m \in LuaMigrate(z, stamp[c], BatchSize),
                   notify' = notify + Len(m.val)
            PROVE  TokensPileUp
        <4>1. m.val \in Seq(Body)
          BY <3>3, MigrateConserves
        <4>2. Len(m.val) \in Nat
          BY <4>1
        <4> QED
          BY <2>0, <3>1, <3>3, <4>2 DEF TokensPileUp
      <3>4. CASE MigrateDelayed(c)
        BY <2>0, <3>2, <3>3, <3>4 DEF MigrateDelayed, CallFails, store, StoreIn
      <3>5. CASE MigrateReserved(c)
        BY <2>0, <3>2, <3>3, <3>5 DEF MigrateReserved, CallFails, store, StoreIn
      <3>6. CASE PopStart(c) \/ PopFromQueue(c)
        BY <3>2, <3>6 DEF PopStart, PopFromQueue, LuaPop, CallFails, store
      <3> QED
        BY <2>3, <3>1, <3>4, <3>5, <3>6 DEF Pop, PopStep, PopBlock
    <2>4. ASSUME NEW c \in Consumer, Delete(c) \/ Release(c) PROVE TokensPileUp
      BY <2>2, <2>4 DEF Delete, Release, LuaDelete, LuaRelease, store
    <2>5. CASE Environment
      BY <2>2, <2>5 DEF Environment, Advance, Crash, store
    <2> QED
      BY <2>1, <2>3, <2>4, <2>5 DEF Next
  <1>4. FullInv => DriverInv
    BY DEF FullInv
  <1> QED
    BY <1>1, <1>2, <1>3, <1>4, FullAlways, PTL DEF Spec

-----------------------------------------------------------------------------
(* The refinement, one lemma per kind of step. A holder is in doubt only   *)
(* from the moment its time ran out, so a step that changes neither the    *)
(* clock nor who holds what puts nothing in doubt.                         *)
LEMMA HeldIsInTime ==
  ASSUME LeaseInv, Watch({}), now' = now,
         \A x \in Consumer : \/ raw'[x] = raw[x] /\ until'[x] = until[x]
                             \/ raw'[x] = NoBody
  PROVE  loose' = loose
  <1>1. Overrun' \subseteq Overrun
    BY DEF Overrun
  <1> QED
    BY <1>1 DEF LeaseInv, Watch

(* Push and Later accept a payload; one that is sent again is accepted     *)
(* again.                                                                  *)
LEMMA ProducerRefines ==
  ASSUME FullInv, (\E b \in Body : Push(b) \/ Later(b)) \/ \E p \in unanswered : SendAgain(p)
  PROVE  \E b \in Body : Lease!Accept(b) \/ Lease!AcceptAgain(b)
  <1>0. DriverInv /\ LeaseInv /\ StoreIn(Body)
    BY Bodies DEF FullInv
  <1>1. PICK b \in Body, at \in {Immediately} \cup Nat : FirstTime(b, at) \/ Again(b, at)
    BY <1>0, ProducerCases
  <1>2. Stored' = Stored \cup {b}
    BY <1>0, <1>1, EnqueueStores DEF FirstTime, Again, Sending
  <1>3. UNCHANGED <<now, raw, until>>
    BY <1>1 DEF FirstTime, Again, Sending
  <1>4. CASE FirstTime(b, at)
    <2>1. b \notin sent /\ sent' = sent \cup {b} /\ loose' = loose
      BY <1>4 DEF FirstTime
    <2>2. {p.body : p \in unanswered'} \in {{p.body : p \in unanswered}, {p.body : p \in unanswered} \cup {b}}
      BY <1>4 DEF FirstTime
    <2> QED
      BY <1>2, <1>3, <2>1, <2>2 DEF Lease!Accept
  <1>5. CASE Again(b, at)
    <2>1. /\ sent' = sent
          /\ b \in {p.body : p \in unanswered}
          /\ {p.body : p \in unanswered'} \subseteq {p.body : p \in unanswered}
      BY <1>5 DEF Again
    <2>2. \/ b \in Stored /\ loose' = loose
          \/ loose' = loose \cup {b}
      <3>1. Overrun' = Overrun
        BY <1>3 DEF Overrun
      <3> QED
        BY <1>0, <1>5, <3>1 DEF Again, Watch, LeaseInv, Duplicates, Stored
    <2> QED
      BY <1>2, <1>3, <2>1, <2>2 DEF Lease!AcceptAgain
  <1> QED
    BY <1>1, <1>4, <1>5

(* The steps of Pop are invisible but the one that takes a payload.        *)
LEMMA PopRefines ==
  ASSUME FullInv, NEW c \in Consumer, Pop(c)
  PROVE  (\E b \in Body : Lease!Take(c, b)) \/ UNCHANGED Lease!leaseVars
  <1>0. /\ DriverInv /\ LeaseInv /\ sent \subseteq Body /\ NoBody \notin Body
        /\ StoreIn(Body) /\ ClientsIn(Body, Place) /\ Punctual
    BY Bodies DEF FullInv
  <1>1. PopStep(c) /\ Watch({}) /\ UNCHANGED <<sent, settled, unanswered>>
    BY DEF Pop, PopStep
  <1>2. CASE PopStart(c) \/ MigrateDelayed(c) \/ MigrateReserved(c) \/ PopBlock(c)
    <2>1. Stored' = Stored /\ UNCHANGED <<now, raw, until>>
      BY <1>0, <1>2, Typed, BeforePop
    <2>2. loose' = loose
      BY <1>0, <1>1, <2>1, HeldIsInTime
    <2> QED
      BY <1>1, <2>1, <2>2 DEF Lease!leaseVars
  <1>3. CASE PopFromQueue(c)
    <2>1. /\ Stored' = Stored /\ now' = now /\ pc[c] = "pop"
          /\ stamp[c] + RetryAfter \in Nat
          /\ Takes(c) \/ ReplyLost(c) \/ PopsNothing(c)
      BY <1>0, <1>3, Typed, PopHolds
    <2>2. CASE ReplyLost(c) \/ PopsNothing(c)
      <3>1. UNCHANGED <<raw, until>>
        BY <2>2 DEF ReplyLost, PopsNothing
      <3>2. loose' = loose
        BY <1>0, <1>1, <2>1, <3>1, HeldIsInTime
      <3> QED
        BY <1>1, <2>1, <3>1, <3>2 DEF Lease!leaseVars
    <2>3. CASE Takes(c)
      <3> DEFINE b == Head(ready)
      <3>1. b \in Body \cap Range(ready)
        BY <1>0, <2>1, <2>3, PopMoves DEF Takes
      <3>2. b \in Stored /\ b \in sent
        BY <1>0, <3>1 DEF Stored, DriverInv, OnlySentBodies
      <3>3. raw[c] = NoBody
        BY <1>0, <2>1 DEF DriverInv, OnlySentBodies, PopPc
      <3>4. raw' = [raw EXCEPT ![c] = b] /\ until' = [until EXCEPT ![c] = stamp[c] + RetryAfter]
        BY <2>3 DEF Takes
      <3> HIDE DEF b
      <3>5. Overrun' \subseteq Overrun \cup {b}
        BY <1>0, <2>1, <3>4 DEF Overrun, ClientsIn
      <3>6. loose \subseteq loose' /\ loose' \subseteq loose \cup {b}
        BY <1>0, <1>1, <3>5 DEF LeaseInv, Watch
      <3>7. b \notin loose' => \A x \in Consumer : raw[x] # b
        <4> SUFFICES ASSUME b \notin loose', NEW x \in Consumer, raw[x] = b
                     PROVE  FALSE
          OBVIOUS
        <4>1. Sure(b)
          BY <1>0, <3>2, <3>6 DEF LeaseInv
        <4> QED
          BY <3>1, <3>2, <4>1 DEF Sure, Single, Leased
      <3>8. Lease!Take(c, b)
        BY <1>1, <2>1, <3>2, <3>3, <3>4, <3>6, <3>7 DEF Lease!Take, Lease!Held
      <3> QED
        BY <3>1, <3>8
    <2> QED
      BY <2>1, <2>2, <2>3
  <1> QED
    BY <1>1, <1>2, <1>3 DEF PopStep

(* Delete and Release, whether they reach Redis or not, end the lease,     *)
(* unless the call is sent again.                                          *)
LEMMA SettleRefines ==
  ASSUME FullInv, NEW c \in Consumer, Delete(c) \/ Release(c)
  PROVE  Lease!Settle(c) \/ Lease!Persist(c) \/ UNCHANGED Lease!leaseVars
  <1>0. /\ DriverInv /\ LeaseInv /\ sent \subseteq Body /\ NoBody \notin Body
        /\ StoreIn(Body) /\ ClientsIn(Body, Place)
    BY Bodies DEF FullInv
  <1> DEFINE b == raw[c]
  <1>1. /\ b \in Body \cap sent /\ b # NoBody /\ pc[c] \in Place \ PopPc
        /\ UNCHANGED <<now, lastMigratedAt, sent, unanswered>>
        /\ Unexecuted(c) \/ Deletes(c) \/ \E at \in Nat : Releases(c, at)
    BY <1>0, SettleCases
  <1>2. ASSUME Drop(c), Watch({})
        PROVE  raw' = [raw EXCEPT ![c] = NoBody] /\ loose' = loose
    <2>1. /\ raw' = [raw EXCEPT ![c] = NoBody]
          /\ \A x \in Consumer : \/ raw'[x] = raw[x] /\ until'[x] = until[x]
                                 \/ raw'[x] = NoBody
      BY <1>0, <1>2 DEF Drop, ClientsIn
    <2> QED
      BY <1>0, <1>1, <1>2, <2>1, HeldIsInTime
  <1>3. ASSUME NEW l, Stays(c, l), NEW more, Watch(more)
        PROVE  raw' = raw /\ loose' = loose \cup more
    <2>1. raw' = raw /\ Overrun' = Overrun
      BY <1>1, <1>3 DEF Stays, Overrun
    <2> QED
      BY <1>0, <1>3, <2>1 DEF Watch, LeaseInv
  <1>4. CASE Unexecuted(c)
    <2>1. Stored' = Stored
      BY <1>4 DEF Unexecuted, store, Stored
    <2> QED
      BY <1>1, <1>2, <1>4, <2>1 DEF Unexecuted, Lease!Settle
  <1>5. CASE Deletes(c)
    <2>1. Stored' \in {Stored, Stored \ {b}}
      <3>1. Stored' \subseteq Stored /\ Stored \subseteq Stored' \cup {b}
        BY <1>0, <1>1, <1>5, DeleteRemoves DEF Deletes
      <3> QED
        BY <3>1
    <2>2. CASE Drop(c)
      BY <1>1, <1>2, <1>5, <2>1, <2>2 DEF Deletes, Lease!Settle
    <2>3. CASE Stays(c, "delete")
      <3>1. raw' = raw /\ loose' = loose
        BY <1>3, <1>5, <2>3 DEF Deletes
      <3>2. CASE Stored' = Stored
        BY <1>1, <3>1, <3>2 DEF Lease!leaseVars
      <3>3. CASE Stored' = Stored \ {b}
        BY <1>1, <3>1, <3>3 DEF Lease!Persist
      <3> QED
        BY <2>1, <3>2, <3>3
    <2> QED
      BY <1>5, <2>2, <2>3 DEF Deletes
  <1>6. ASSUME NEW at \in Nat, Releases(c, at)
        PROVE  Lease!Settle(c) \/ Lease!Persist(c)
    <2>1. Stored' = Stored \cup {b} /\ pc[c] # "delete"
      BY <1>0, <1>1, <1>6, ReleaseStores DEF Releases
    <2>2. CASE Drop(c) /\ Watch({})
      <3>1. b \in Stored \/ b \in loose
        <4>1. b \notin loose => b \notin settled
          BY <1>0, <1>1, <2>1 DEF LeaseInv, Sure
        <4> QED
          BY <1>0, <1>1, <4>1 DEF DriverInv, NoBodyLost
      <3> QED
        BY <1>1, <1>2, <2>1, <2>2, <3>1 DEF Lease!Settle
    <2>3. CASE Stays(c, "release") /\ Watch({b})
      <3>1. raw' = raw /\ loose' = loose \cup {b}
        BY <1>3, <2>3
      <3> QED
        BY <1>1, <2>1, <3>1 DEF Lease!Persist
    <2> QED
      BY <1>6, <2>2, <2>3 DEF Releases
  <1> QED
    BY <1>1, <1>4, <1>5, <1>6

(* Clear purges the queue, a crash loses leases, and when the clock moves  *)
(* leases run out.                                                         *)
LEMMA OtherRefines ==
  ASSUME FullInv, Clear \/ Environment
  PROVE  Lease!Next \/ UNCHANGED Lease!leaseVars
  <1>0. /\ DriverInv /\ LeaseInv /\ ClientsIn(Body, Place)
    BY Bodies DEF FullInv
  <1>1. CASE Clear
    <2>1. /\ Stored' = {} /\ raw' = raw /\ loose' = loose \cup Overrun' \cup Lease!Held
          /\ UNCHANGED <<sent, unanswered>>
      BY <1>1 DEF Clear, LuaClear, driverVars, Stored, Empty, Range, Watch, Lease!Held
    <2>2. Overrun' \subseteq Lease!Held
      BY <2>1 DEF Overrun, Lease!Held
    <2>3. Lease!Purge
      BY <2>1, <2>2 DEF Lease!Purge
    <2> QED
      BY <2>3 DEF Lease!Next
  <1>2. ASSUME NEW d \in Driver, Crash(d), Watch({}), sent' = sent PROVE Lease!Next
    <2> DEFINE dead == {x \in Consumer : DriverOf[x] = d}
    <2>1. /\ UNCHANGED <<store, now, unanswered>>
          /\ raw' = [x \in Consumer |-> IF x \in dead THEN NoBody ELSE raw[x]]
          /\ until' = [x \in Consumer |-> IF x \in dead THEN 0 ELSE until[x]]
      BY <1>2 DEF Crash
    <2>2. dead \in SUBSET Consumer
      OBVIOUS
    <2> HIDE DEF dead
    <2>3. loose' = loose
      BY <1>0, <1>2, <2>1, HeldIsInTime
    <2>4. Stored' = Stored
      BY <2>1 DEF store, Stored
    <2>5. Lease!Lose(dead)
      BY <1>2, <2>1, <2>3, <2>4 DEF Lease!Lose
    <2> QED
      BY <2>2, <2>5 DEF Lease!Next
  <1>3. ASSUME Advance, Watch({}), sent' = sent PROVE Lease!Next
    <2> DEFINE late == {x \in Consumer : raw[x] # NoBody /\ until[x] <= now'}
    <2>1. Stored' = Stored /\ UNCHANGED <<raw, until, unanswered>>
      BY <1>3 DEF Advance, store, Stored
    <2>2. Overrun' = {raw[x] : x \in late} \ {NoBody}
      BY <2>1 DEF Overrun
    <2>3. late \in SUBSET Consumer
      OBVIOUS
    <2> HIDE DEF late
    <2>4. Lease!RunOut(late)
      BY <1>3, <2>1, <2>2 DEF Watch, Lease!RunOut
    <2> QED
      BY <2>3, <2>4 DEF Lease!Next
  <1> QED
    BY <1>1, <1>2, <1>3 DEF Environment

(* The driver implements the queue that its interface promises: each step  *)
(* of a script, a consumer or the environment is a step of LeaseQueue or   *)
(* invisible to the users of the driver. A payload is in doubt only once   *)
(* its lease ran out, the queue was purged under its holder, or its push   *)
(* or its release was sent twice.                                          *)
THEOREM DriverIsLeaseQueue == Spec => IsLeaseQueue
  <1>1. Init => Lease!Init
    BY DEF Init, DriverInit, EmptyStore, Empty, Stored, Range, Lease!Init
  <1>2. FullInv /\ [Next]_vars => [Lease!Next]_Lease!leaseVars
    <2> SUFFICES ASSUME FullInv, [Next]_vars
                 PROVE  Lease!Next \/ UNCHANGED Lease!leaseVars
      OBVIOUS
    <2>1. ASSUME (\E b \in Body : Push(b) \/ Later(b)) \/ \E p \in unanswered : SendAgain(p)
          PROVE  Lease!Next
      BY <2>1, ProducerRefines DEF Lease!Next
    <2>2. ASSUME NEW c \in Consumer, Pop(c)
          PROVE  Lease!Next \/ UNCHANGED Lease!leaseVars
      BY <2>2, PopRefines DEF Lease!Next
    <2>3. ASSUME NEW c \in Consumer, Delete(c) \/ Release(c)
          PROVE  Lease!Next \/ UNCHANGED Lease!leaseVars
      BY <2>3, SettleRefines DEF Lease!Next
    <2>4. CASE UNCHANGED vars
      BY <2>4 DEF vars, store, driverVars, history, Stored, Lease!leaseVars
    <2> QED
      BY <2>1, <2>2, <2>3, <2>4, OtherRefines DEF Next
  <1> QED
    BY <1>1, <1>2, FullAlways, PTL DEF Spec, IsLeaseQueue, Lease!Spec
=============================================================================
