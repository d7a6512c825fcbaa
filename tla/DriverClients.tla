----------------------------- MODULE DriverClients ----------------------------
(***************************************************************************)
(* The Driver interface as its callers use it: producers push distinct     *)
(* payloads (every payload carries a fresh uuid), consumers pop, and a     *)
(* consumer that holds a payload deletes it (ACK) or releases it (NACK),   *)
(* once, through the RawJob it got from Pop. Nobody waits for a failed     *)
(* Delete or Release: the worker only logs the error. Any of these calls   *)
(* may be executed twice, when the client sends it again after a lost      *)
(* reply.                                                                  *)
(***************************************************************************)
EXTENDS RedisDriver

CONSTANTS Body,         \* payloads
          Delay         \* delays that Later and Release are called with

ASSUME ClientsAssumption ==
    /\ NoBody \notin Body
    /\ IsFiniteSet(Body)
    /\ Delay \subseteq Nat

(* History: what was accepted, what was removed on purpose, and the        *)
(* payloads that may exist more than once because a holder outlived its    *)
(* reservation, the queue was cleared under a holder, or a push or a       *)
(* release was sent twice.                                                 *)
VARIABLES sent, settled, loose

history == <<sent, settled, loose>>
vars == <<store, driverVars, history>>

Watch(more) == loose' = loose \cup Overrun' \cup more

Init ==
    /\ DriverInit
    /\ sent = {}
    /\ settled = {}
    /\ loose = {}

-----------------------------------------------------------------------------
(* Producers. An error after the script ran looks to the producer like any *)
(* error; the payload is in the queue all the same.                        *)
Push(b) ==
    /\ b \notin sent
    /\ Produce(b, Immediately)
    /\ sent' = sent \cup {b}
    /\ UNCHANGED <<settled, loose>>

(* Mutant: the delay is subtracted.                                        *)
LaterNegated(b) ==
    /\ b \notin sent
    /\ \E delay \in Delay : LuaLater(b, now - delay)
    /\ sent' = sent \cup {b}
    /\ UNCHANGED <<driverVars, settled, loose>>

Later(b) ==
    /\ b \notin sent
    /\ \E delay \in Delay : Produce(b, now + delay)
    /\ sent' = sent \cup {b}
    /\ UNCHANGED <<settled, loose>>

(* The client sends a push again whose reply was lost.                     *)
SendAgain(p) ==
    /\ ProduceAgain(p)
    /\ Watch(Duplicates(p))
    /\ UNCHANGED <<sent, settled>>

-----------------------------------------------------------------------------
Pop(c) ==
    /\ PopStep(c)
    /\ Watch({})
    /\ UNCHANGED <<sent, settled>>

(* The RawJob is dropped whatever Delete and Release return.               *)
Drop(c) ==
    /\ Goto(c, "idle")
    /\ raw' = [raw EXCEPT ![c] = NoBody]
    /\ until' = [until EXCEPT ![c] = 0]

(* The call of c is waiting to be sent again, with the argument at.        *)
Waits(c, l, at) ==
    /\ Fault
    /\ pc' = [pc EXCEPT ![c] = l]
    /\ stamp' = [stamp EXCEPT ![c] = at]
    /\ UNCHANGED <<raw, until>>

(* Executed, executed and to be sent again, or not executed.               *)
Delete(c) ==
    /\ pc[c] \in {"held", "delete"}
    /\ \/ /\ LuaDelete(raw[c])
          /\ settled' = settled \cup {raw[c]}
          /\ \/ Drop(c) /\ UNCHANGED faults
             \/ Waits(c, "delete", 0)
       \/ /\ Fault
          /\ Drop(c)
          /\ UNCHANGED <<store, settled>>
    /\ UNCHANGED <<now, lastMigratedAt, unanswered, sent>>
    /\ Watch({})

(* A release that is sent again keeps its available_at.                    *)
AvailableAt(c) ==
    IF pc[c] = "release" THEN {stamp[c]} ELSE {now + delay : delay \in Delay}

(* Sent again, it may find the payload with another consumer, and takes    *)
(* the reservation from under it.                                          *)
Release(c) ==
    /\ pc[c] \in {"held", "release"}
    /\ UNCHANGED <<now, lastMigratedAt, unanswered, sent, settled>>
    /\ \/ \E availableAt \in AvailableAt(c) :
             /\ LuaRelease(raw[c], availableAt)
             /\ \/ Drop(c) /\ UNCHANGED faults /\ Watch({})
                \/ Waits(c, "release", availableAt) /\ Watch({raw[c]})
       \/ /\ Fault
          /\ Drop(c)
          /\ Watch({})
          /\ UNCHANGED store

Clear ==
    /\ Stored # {}
    /\ LuaClear
    /\ settled' = settled \cup Stored
    /\ UNCHANGED <<driverVars, sent>>
    /\ Watch({raw[c] : c \in Consumer} \ {NoBody})

Environment ==
    /\ Advance \/ \E d \in Driver : Crash(d)
    /\ Watch({})
    /\ UNCHANGED <<sent, settled>>

Next ==
    \/ \E b \in Body : Push(b) \/ Later(b)
    \/ \E p \in unanswered : SendAgain(p)
    \/ \E c \in Consumer : Pop(c) \/ Delete(c) \/ Release(c)
    \/ Clear
    \/ Environment

Spec == Init /\ [][Next]_vars

(* A consumer that can take a step of Pop does, and a worker eventually    *)
(* settles what it holds.                                                  *)
Fairness ==
    \A c \in Consumer : /\ WF_vars(Pop(c))
                        /\ WF_vars(Delete(c) \/ Release(c))

FairSpec == Spec /\ Fairness

-----------------------------------------------------------------------------
IsZSet(z) == DOMAIN z \subseteq Body /\ z \in [DOMAIN z -> Nat]

StoreOK ==
    /\ ready \in Seq(Body)
    /\ IsZSet(delayed)
    /\ IsZSet(reserved)
    /\ notify \in Nat

DriverOK ==
    /\ now \in 0..MaxNow
    /\ lastMigratedAt \in [Driver -> {Never} \cup 0..MaxNow]
    /\ stamp \in [Consumer -> Nat]
    /\ pc \in [Consumer -> PopPc \cup {"held", "delete", "release"}]
    /\ raw \in [Consumer -> Body \cup {NoBody}]
    /\ until \in [Consumer -> Nat]
    /\ faults \in 0..MaxFaults

HistoryOK ==
    /\ sent \subseteq Body
    /\ settled \subseteq sent
    /\ loose \subseteq sent
    /\ unanswered \subseteq [body : sent, availableAt : {Immediately} \cup Nat]

TypeOK == StoreOK /\ DriverOK /\ HistoryOK

(* Nothing is in the queue, or held, that was not pushed; a consumer holds *)
(* a payload exactly while it is past Pop.                                 *)
OnlySentBodies ==
    /\ Stored \subseteq sent
    /\ \A c \in Consumer : raw[c] \in sent \cup {NoBody}
    /\ \A c \in Consumer : (pc[c] \notin PopPc) <=> (raw[c] # NoBody)

(* At-least-once: a payload that was accepted and neither acknowledged nor *)
(* cleared is always in some key of the queue, whatever calls fail, which  *)
(* worker dies, and whoever settles it late.                               *)
NoBodyLost == sent \ settled \subseteq Stored

(* How often b occurs in the keys of the queue.                            *)
Copies(b) ==
    Cardinality({i \in DOMAIN ready : ready[i] = b})
    + (IF b \in DOMAIN delayed THEN 1 ELSE 0)
    + (IF b \in DOMAIN reserved THEN 1 ELSE 0)

(* A payload is in one key, once, until it is settled, and nowhere after,  *)
(* as long as every holder is done before its reservation runs out and no  *)
(* push or release of it is sent twice: crashes, migrations, calls that    *)
(* were not executed, lost replies and their interleavings make no other   *)
(* copies, and neither does a pop, a migration or a delete that is sent    *)
(* twice.                                                                  *)
OneCopy == \A b \in sent \ loose : Copies(b) = IF b \in settled THEN 0 ELSE 1

(* The visibility timeout: while the reservation a consumer made stands,   *)
(* and no push or release of its payload is sent twice, no other consumer  *)
(* has the payload, and it stays reserved with the score that popFromQueue *)
(* gave it.                                                                *)
Exclusive ==
    \A c \in Consumer :
        pc[c] = "held" /\ raw[c] \notin loose =>
            /\ raw[c] \in DOMAIN reserved
            /\ reserved[raw[c]] = until[c]
            /\ \A x \in Consumer \ {c} : raw[x] # raw[c]

(* A consumer blocked in BLPop never waits beside a payload it should have *)
(* been woken for: payloads are matched by tokens or by consumers already  *)
(* on their way to pop, up to the tokens that faults can destroy.          *)
NoLostWakeup ==
    Len(ready) <= notify + Cardinality({c \in Consumer : pc[c] = "pop"})
                  + faults * Cardinality(Consumer)

(* No payload becomes poppable before its available_at, or while its       *)
(* reservation still stands.                                               *)
BecomesReadyOnlyWhenDue ==
    \A b \in sent \ loose' :
        b \in Range(ready') \ Range(ready) =>
            \/ b \in DOMAIN delayed /\ delayed[b] <= now
            \/ b \in DOMAIN reserved /\ reserved[b] <= now

NoEarlyDelivery == [][BecomesReadyOnlyWhenDue]_vars

(* The driver implements the queue its interface promises: whatever        *)
(* migrations, lost replies, crashes and late holders do to the keys, to   *)
(* its users it is a queue of leases that are exclusive until they are in  *)
(* doubt, and a payload is in doubt only from the moment its lease runs    *)
(* out, the queue is purged under its holder, or a push or a release of it *)
(* is sent twice.                                                          *)
Lease == INSTANCE LeaseQueue
         WITH accepted <- sent, unconfirmed <- {p.body : p \in unanswered},
              live <- Stored, hand <- raw, unsure <- loose

IsLeaseQueue == Lease!Spec

(* A ready payload is popped (or cleared) eventually, though consumers     *)
(* block in BLPop and wake-up tokens may be lost.                          *)
ReadyIsServed == \A b \in Body : b \in Range(ready) ~> b \notin Range(ready)
=============================================================================
