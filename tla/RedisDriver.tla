------------------------------ MODULE RedisDriver -----------------------------
(***************************************************************************)
(* RedisDriver (pkg/queue/redis_driver.go): the Go side of the queue. Pop  *)
(* is not atomic: it migrates due payloads with two scripts, may block on  *)
(* the notify list, and only then pops. A consumer is a goroutine that     *)
(* calls the driver; several consumers may share one driver instance and   *)
(* with it the migration throttle.                                         *)
(*                                                                         *)
(* Every Redis call can fail: it is not executed, or it is executed and    *)
(* its reply is lost (a broken connection, a cancelled context). After a   *)
(* lost reply the caller sees an error, or go-redis sends the command      *)
(* again with the same arguments and it is executed once more. MaxFaults   *)
(* bounds how often a reply is lost, a call fails and a process dies.      *)
(*                                                                         *)
(* The processes are taken to agree on the time: now is time.Now() of all  *)
(* of them.                                                                *)
(***************************************************************************)
EXTENDS RedisQueue

CONSTANTS Consumer,     \* goroutines that call the driver
          Driver,       \* RedisDriver instances
          DriverOf,     \* the instance each consumer uses
          RetryAfter,   \* the visibility timeout, in seconds
          Blocking,     \* the instances with blockFor > 0
          BatchSize,    \* migration batch size
          NoBody,       \* "no raw job"
          MaxNow,       \* bound: the clock stops here
          MaxFaults     \* bound: failed calls and crashes

ASSUME DriverAssumption ==
    /\ DriverOf \in [Consumer -> Driver]
    /\ RetryAfter \in Nat \ {0}
    /\ Blocking \subseteq Driver
    /\ BatchSize \in Nat \ {0}
    /\ MaxNow \in Nat
    /\ MaxFaults \in Nat

VARIABLES now,             \* time.Now().Unix()
          lastMigratedAt,  \* the throttle of each driver
          stamp,           \* the clock a consumer read before its next call
          pc,              \* where each consumer is
          raw,             \* RawJob.Body of the job it holds
          until,           \* the score of the reservation it made
          faults,
          unanswered       \* pushes that the client sends again

driverVars == <<now, lastMigratedAt, stamp, pc, raw, until, faults, unanswered>>

(* A throttle that has never been set: older than any clock value.         *)
Never == -2

(* The available_at of a payload that is pushed without a delay.           *)
Immediately == -1

PopPc == {"idle", "migrateDelayed", "migrateReserved", "block", "pop"}

DriverInit ==
    /\ EmptyStore
    /\ now = 0
    /\ lastMigratedAt = [d \in Driver |-> Never]
    /\ stamp = [c \in Consumer |-> 0]
    /\ pc = [c \in Consumer |-> "idle"]
    /\ raw = [c \in Consumer |-> NoBody]
    /\ until = [c \in Consumer |-> 0]
    /\ faults = 0
    /\ unanswered = {}

-----------------------------------------------------------------------------
(* The next step of c. MigrateExpiredJobs and popFromQueue read the clock  *)
(* on entry; the script that uses the value runs later.                    *)
Goto(c, l) ==
    /\ pc' = [pc EXCEPT ![c] = l]
    /\ stamp' = [stamp EXCEPT ![c] =
                    CASE l \in {"migrateDelayed", "pop"} -> now
                      [] l = "migrateReserved" -> @
                      [] OTHER -> 0]

Fault ==
    /\ faults < MaxFaults
    /\ faults' = faults + 1

(* The reply of a call that was executed: received, or lost, and then an   *)
(* error for the caller or a reason to send the call again.                *)
Reply(c, ok, err) ==
    \/ Goto(c, ok) /\ UNCHANGED faults
    \/ (Goto(c, err) \/ UNCHANGED <<pc, stamp>>) /\ Fault

(* A call that was never executed, reported to the caller as an error.     *)
CallFails(c, err) ==
    /\ Fault
    /\ Goto(c, err)
    /\ UNCHANGED store

-----------------------------------------------------------------------------
(* Push and Later.                                                         *)
Enqueue(b, availableAt) ==
    IF availableAt = Immediately THEN LuaPush(b) ELSE LuaLater(b, availableAt)

(* The call of a producer. When its reply is lost the payload is in the    *)
(* queue all the same, and the client may send the script again.           *)
Produce(b, availableAt) ==
    /\ Enqueue(b, availableAt)
    /\ \/ UNCHANGED <<faults, unanswered>>
       \/ /\ Fault
          /\ unanswered' = unanswered \cup {[body |-> b, availableAt |-> availableAt]}
    /\ UNCHANGED <<now, lastMigratedAt, stamp, pc, raw, until>>

ProduceAgain(p) ==
    /\ p \in unanswered
    /\ Enqueue(p.body, p.availableAt)
    /\ \/ unanswered' = unanswered \ {p} /\ UNCHANGED faults
       \/ Fault /\ UNCHANGED unanswered
    /\ UNCHANGED <<now, lastMigratedAt, stamp, pc, raw, until>>

(* What sending p again may duplicate: a payload that is still delayed is  *)
(* only given its available_at once more.                                  *)
Duplicates(p) ==
    IF p.availableAt # Immediately /\ p.body \in DOMAIN delayed THEN {}
    ELSE {p.body}

-----------------------------------------------------------------------------
(* What follows the migration in Pop.                                      *)
AfterMigration(c) == IF DriverOf[c] \in Blocking THEN "block" ELSE "pop"

(* Pop up to shouldMigrate. The throttle compares instants with one        *)
(* second: two instants of the same clock second are always closer than    *)
(* that, instants of successive seconds may be closer or not.              *)
PopStart(c) ==
    LET d == DriverOf[c]
        elapsed == now - lastMigratedAt[d]
    IN  /\ pc[c] = "idle"
        /\ \/ /\ elapsed >= 1
              /\ lastMigratedAt' = [lastMigratedAt EXCEPT ![d] = now]
              /\ Goto(c, "migrateDelayed")
           \/ /\ elapsed <= 1
              /\ Goto(c, AfterMigration(c))
              /\ UNCHANGED lastMigratedAt
        /\ UNCHANGED <<store, now, raw, until, faults>>

(* The two calls of MigrateExpiredJobs. An error makes Pop return it.      *)
MigrateDelayed(c) ==
    /\ pc[c] = "migrateDelayed"
    /\ \/ /\ \E m \in LuaMigrate(delayed, stamp[c], BatchSize) :
                 /\ delayed' = m.kept
                 /\ ready' = ready \o m.val
                 /\ notify' = notify + Len(m.val)
          /\ UNCHANGED reserved
          /\ Reply(c, "migrateReserved", "idle")
       \/ CallFails(c, "idle")
    /\ UNCHANGED <<now, lastMigratedAt, raw, until>>

(* Mutant: the payloads are moved without a token for each.                *)
MigrateReservedSilently(c) ==
    /\ pc[c] = "migrateReserved"
    /\ \E m \in LuaMigrate(reserved, stamp[c], BatchSize) :
          /\ reserved' = m.kept
          /\ ready' = ready \o m.val
    /\ UNCHANGED <<delayed, notify>>
    /\ Reply(c, AfterMigration(c), "idle")
    /\ UNCHANGED <<now, lastMigratedAt, raw, until>>

MigrateReserved(c) ==
    /\ pc[c] = "migrateReserved"
    /\ \/ /\ \E m \in LuaMigrate(reserved, stamp[c], BatchSize) :
                 /\ reserved' = m.kept
                 /\ ready' = ready \o m.val
                 /\ notify' = notify + Len(m.val)
          /\ UNCHANGED delayed
          /\ Reply(c, AfterMigration(c), "idle")
       \/ CallFails(c, "idle")
    /\ UNCHANGED <<now, lastMigratedAt, raw, until>>

(* Mutant: a timeout blocks again instead of trying the list.              *)
PopBlockForever(c) ==
    /\ pc[c] = "block"
    /\ \/ /\ notify > 0
          /\ notify' = notify - 1
          /\ \/ Goto(c, "pop") /\ UNCHANGED faults
             \/ Goto(c, "idle") /\ Fault
       \/ /\ notify = 0
          /\ Goto(c, "block")
          /\ UNCHANGED <<notify, faults>>
    /\ UNCHANGED <<ready, delayed, reserved, now, lastMigratedAt, raw, until>>

(* BLPop on the notify list: a token, a timeout when there is none, or an  *)
(* error. A cancelled context ends Pop; any other error falls through to   *)
(* the direct pop, with or without a token lost on the way; after a lost   *)
(* token the client may also send BLPop again.                             *)
PopBlock(c) ==
    /\ pc[c] = "block"
    /\ \/ /\ notify > 0
          /\ notify' = notify - 1
          /\ \/ Goto(c, "pop") /\ UNCHANGED faults
             \/ /\ Goto(c, "pop") \/ Goto(c, "idle") \/ UNCHANGED <<pc, stamp>>
                /\ Fault
       \/ /\ notify = 0
          /\ Goto(c, "pop")
          /\ UNCHANGED <<notify, faults>>
       \/ /\ Goto(c, "pop") \/ Goto(c, "idle")
          /\ Fault
          /\ UNCHANGED notify
    /\ UNCHANGED <<ready, delayed, reserved, now, lastMigratedAt, raw, until>>

(* popFromQueue. A lost reply leaves the payload reserved and nobody       *)
(* holding it: the caller sees an error, or the client repeats the call    *)
(* with the same argument. RawJob.ReservedUntil, which the code computes   *)
(* from a second clock reading and nothing reads, is left out: until is    *)
(* what the reserved set says, whatever the holder was told.               *)
PopFromQueue(c) ==
    LET reservedUntil == stamp[c] + RetryAfter
    IN  /\ pc[c] = "pop"
        /\ \/ /\ LuaPop(reservedUntil)
              /\ raw' = [raw EXCEPT ![c] = Head(ready)]
              /\ until' = [until EXCEPT ![c] = reservedUntil]
              /\ Goto(c, "held")
              /\ UNCHANGED faults
           \/ /\ LuaPop(reservedUntil)
              /\ Goto(c, "idle") \/ UNCHANGED <<pc, stamp>>
              /\ Fault
              /\ UNCHANGED <<raw, until>>
           \/ /\ ready = <<>>
              /\ Goto(c, "idle")
              /\ UNCHANGED <<store, raw, until, faults>>
           \/ /\ CallFails(c, "idle")
              /\ UNCHANGED <<raw, until>>
        /\ UNCHANGED <<now, lastMigratedAt>>

PopStep(c) ==
    /\ \/ PopStart(c)
       \/ MigrateDelayed(c)
       \/ MigrateReserved(c)
       \/ PopBlock(c)
       \/ PopFromQueue(c)
    /\ UNCHANGED unanswered

(* A process dies and is started again: its goroutines hold nothing, and   *)
(* its driver is a new instance.                                           *)
Crash(d) ==
    LET dead == {c \in Consumer : DriverOf[c] = d}
    IN  /\ \E c \in dead : pc[c] # "idle"
        /\ Fault
        /\ pc' = [c \in Consumer |-> IF c \in dead THEN "idle" ELSE pc[c]]
        /\ raw' = [c \in Consumer |-> IF c \in dead THEN NoBody ELSE raw[c]]
        /\ until' = [c \in Consumer |-> IF c \in dead THEN 0 ELSE until[c]]
        /\ stamp' = [c \in Consumer |-> IF c \in dead THEN 0 ELSE stamp[c]]
        /\ lastMigratedAt' = [lastMigratedAt EXCEPT ![d] = Never]
        /\ UNCHANGED <<store, now, unanswered>>

Advance ==
    /\ now < MaxNow
    /\ now' = now + 1
    /\ UNCHANGED <<store, lastMigratedAt, stamp, pc, raw, until, faults, unanswered>>

(* The payloads held on a reservation that has run out: a migration may    *)
(* hand them to another consumer.                                          *)
Overrun == {raw[c] : c \in {x \in Consumer : raw[x] # NoBody /\ until[x] <= now}}
=============================================================================
