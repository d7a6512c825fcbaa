---------------------------- MODULE LifecycleProofs ---------------------------
(***************************************************************************)
(* Proofs about what a worker does with a job, for every set of jobs, any  *)
(* number of workers, tries, deadlines and backoff lists, and any number   *)
(* of failed calls and crashes.                                            *)
(***************************************************************************)
EXTENDS JobLifecycle, RedisProofs

Place == PopPc \cup ProcessPc

(* The payload that Job.Release puts back.                                 *)
Again(b) == [b EXCEPT !.attempts = @ + 1]

-----------------------------------------------------------------------------
(* The invariant, in five parts: types and the origin of every payload;    *)
(* no job is lost; the counters; no job is dropped in silence; and what    *)
(* holds of a job that has not failed, was not held too long and not       *)
(* pushed twice, which is one payload in one place.                        *)
Known ==
    /\ sent \subseteq Job
    /\ \A b \in Stored : b.job \in sent
    /\ \A c \in Consumer : raw[c] # NoBody => raw[c].job \in sent
    /\ \A f \in failedLog : f.job \in sent

(* The pushes that are sent again are of jobs that were dispatched.        *)
Pushed ==
    \A p \in unanswered : /\ p.availableAt \in {Immediately} \cup Nat
                         /\ p.body.job \in sent /\ p.body = NewPayload(p.body.job)

Basic ==
    /\ StoreIn(Body) /\ ClientsIn(Body, Place) /\ Punctual
    /\ \A c \in Consumer : (pc[c] \in ProcessPc) <=> (raw[c] # NoBody)
    /\ failedLog \subseteq Body
    /\ settled \cup succeeded \cup unlogged \cup forgotten \cup loose \subseteq sent
    /\ dismissed \subseteq settled
    /\ errors \in [Job -> Nat]
    /\ Known
    /\ Pushed

Exhausted(f) ==
    \/ RetryUntil[f.job] # Unset /\ now >= RetryUntil[f.job]
    \/ MaxTries[f.job] # Unset /\ errors[f.job] > MaxTries[f.job]

(* What a worker has established about the job it holds.                   *)
Stage(c) ==
    /\ pc[c] = "ack" => raw[c].job \in succeeded
    /\ pc[c] = "discard" => raw[c].job \in Malformed \cup Unhandled
    /\ pc[c] \in {"yield", "retry", "bury", "log"} => raw[c].attempts < errors[raw[c].job]
    /\ pc[c] \in {"bury", "log"} => Exhausted(raw[c])
    /\ pc[c] \in {"release", "asked"} => raw[c].attempts # 0

Counted ==
    /\ AttemptsAreErrors
    /\ ExhaustedBeforeFailed
    /\ \A c \in Consumer : Stage(c)

(* A consumer is done with a job that was deleted.                         *)
Over(c, j) ==
    \/ pc[c] \in {"ack", "discard"}
    \/ pc[c] = "handling" /\ j \in dismissed

Untouched(j) ==
    /\ Single(NewPayload(j))
    /\ Leased(NewPayload(j))
    /\ j \in settled => /\ NewPayload(j) \notin Stored
                        /\ \A c \in Consumer : raw[c] = NewPayload(j) => Over(c, j)

Fresh ==
    /\ \A b \in Overrun : b.job \in loose
    /\ \A j \in sent \ loose : errors[j] = 0 => Untouched(j)

LifeInv == Basic /\ NoJobLost /\ Counted /\ NoSilentDrop /\ Fresh

(* What the assumptions say of a payload.                                  *)
LEMMA Payloads ==
  /\ NoBody \notin Body /\ DispatchDelay \subseteq Nat /\ YieldDelay \subseteq Nat
  /\ \A j \in Job : NewPayload(j) \in Body /\ NewPayload(j).job = j
                    /\ NewPayload(j).attempts = 0
  /\ \A b \in Body : /\ b.job \in Job /\ b.attempts \in Nat
                     /\ Again(b) \in Body /\ Again(b).job = b.job
                     /\ Again(b).attempts = b.attempts + 1
  /\ \A b \in Body : b.attempts = 0 => b = NewPayload(b.job)
  <1>1. NoBody \notin Body /\ DispatchDelay \subseteq Nat /\ YieldDelay \subseteq Nat
    BY LifecycleAssumption DEF LifecycleAssumption, Body
  <1>2. \A j \in Job : NewPayload(j) \in Body /\ NewPayload(j).job = j
                       /\ NewPayload(j).attempts = 0
    BY DEF Body, NewPayload
  <1>3. \A b \in Body : /\ b.job \in Job /\ b.attempts \in Nat
                        /\ Again(b) \in Body /\ Again(b).job = b.job
                        /\ Again(b).attempts = b.attempts + 1
    BY DEF Body, Again
  <1>4. \A b \in Body : b.attempts = 0 => b = NewPayload(b.job)
    BY DEF Body, NewPayload
  <1> QED
    BY <1>1, <1>2, <1>3, <1>4

(* The queue holds payloads only.                                          *)
LEMMA BodiesAreStored == Basic => Stored \subseteq Body
  <1> SUFFICES ASSUME Basic PROVE Stored \subseteq Body
    OBVIOUS
  <1>1. Range(ready) \subseteq Body
    BY DEF Basic, StoreIn, Range
  <1> QED
    BY <1>1 DEF Basic, StoreIn, ZSet, Stored

(* BackoffDuration picks a delay of the list, whatever the attempt.        *)
LEMMA BackoffIsADelay ==
  ASSUME NEW b \in Body
  PROVE  BackoffDuration(b) \in Nat
  <1>1. b.job \in Job /\ b.attempts \in Nat
    BY Payloads
  <1> DEFINE v == Backoff[b.job]
             a == b.attempts
             idx == IF a - 1 < 0 THEN 0 ELSE IF a - 1 >= Len(v) THEN Len(v) - 1 ELSE a - 1
  <1>2. v \in Seq(Nat) /\ Len(v) \in Nat
    BY <1>1, LifecycleAssumption DEF LifecycleAssumption
  <1>3. BackoffDuration(b) = IF v = <<>> THEN 0 ELSE v[idx + 1]
    BY DEF BackoffDuration, BackoffSeconds
  <1>4. CASE v = <<>>
    BY <1>3, <1>4
  <1>5. CASE v # <<>>
    <2>1. Len(v) > 0
      BY <1>2, <1>5
    <2> HIDE DEF v, a
    <2>2. idx + 1 \in 1..Len(v)
      BY <1>1, <1>2, <2>1 DEF a
    <2>3. v[idx + 1] \in Nat
      BY <1>2, <2>2
    <2> QED
      BY <1>3, <1>5, <2>3
  <1> QED
    BY <1>4, <1>5

-----------------------------------------------------------------------------
(* The steps of process and handleFailure, by what they do to the queue,   *)
(* and to the consumer.                                                    *)
Touches(c) ==
    \/ UNCHANGED <<store, settled>>
    \/ /\ pc[c] \in {"handling", "ack", "discard", "bury"} /\ raw'[c] \in {raw[c], NoBody}
       /\ LuaDelete(raw[c]) /\ settled' = settled \cup {raw[c].job}
    \/ /\ pc[c] \in {"release", "asked"} /\ raw'[c] \in {raw[c], NoBody}
       /\ LuaRelease(raw[c], stamp[c]) /\ settled' = settled

Keeps(c) == pc'[c] \in ProcessPc /\ raw'[c] = raw[c] /\ until'[c] = until[c]

Drops(c) == pc'[c] = "idle" /\ raw'[c] = NoBody /\ until'[c] = 0

Reencodes(c) ==
    /\ pc[c] \in {"handling", "yield", "retry"} /\ pc'[c] \in {"release", "asked"}
    /\ raw'[c] = Again(raw[c]) /\ until'[c] = until[c]
    /\ UNCHANGED <<store, settled>>

Others(c) ==
    \A x \in Consumer \ {c} : pc'[x] = pc[x] /\ raw'[x] = raw[x] /\ until'[x] = until[x]

(* The clients after a step of c: it stays where it is, goes on, drops the *)
(* job, or re-encodes it.                                                  *)
Stays == UNCHANGED <<pc, stamp, raw, until>>

GoesOn(c) == UNCHANGED <<raw, until>> /\ \E l \in ProcessPc : Goto(c, l)

NewBody(c) ==
    /\ pc[c] \in {"handling", "yield", "retry"} /\ UNCHANGED <<store, settled>>
    /\ \E l \in {"release", "asked"}, delay \in Nat : Reencode(c, delay, l)

LEMMA ProcessTouches ==
  ASSUME Basic, NEW c \in Consumer, Process(c)
  PROVE  /\ pc[c] \in ProcessPc /\ raw[c] \in Body
         /\ Touches(c) /\ (faults' = faults \/ Fault)
         /\ UNCHANGED <<now, lastMigratedAt, unanswered, sent, forgotten, loose>>
         /\ Stays \/ GoesOn(c) \/ Finish(c) \/ NewBody(c)
  <1>1. pc[c] \in ProcessPc
    BY DEF Process, Start, HandlerOk, HandlerFails, HandlerDeletes, HandlerReleases, Ack,
           Yield, Retry, Release, Bury, Log, ProcessPc
  <1>2. raw[c] \in Body
    BY <1>1 DEF Basic, ClientsIn
  <1>f. Finish(c) => raw'[c] = NoBody
    BY DEF Finish, Basic, ClientsIn
  <1>3. CASE Start(c) \/ HandlerOk(c) \/ HandlerFails(c)
    <2>1. UNCHANGED <<store, settled, now, lastMigratedAt, unanswered, sent, forgotten, loose,
                      raw, until, faults>>
      BY <1>3 DEF Start, HandlerOk, HandlerFails, history
    <2>2. \E l \in ProcessPc : Goto(c, l)
      BY <1>3 DEF Start, HandlerOk, HandlerFails, ProcessPc
    <2> QED
      BY <1>1, <1>2, <2>1, <2>2 DEF Touches, GoesOn
  <1>4. CASE HandlerDeletes(c)
    BY <1>1, <1>2, <1>4 DEF HandlerDeletes, driverVars, Touches, Stays
  <1>5. ASSUME NEW l \in {"release", "asked"}, NEW delay \in Nat, Reencode(c, delay, l),
               pc[c] \in {"handling", "yield", "retry"},
               UNCHANGED <<settled, sent, forgotten, loose>>
        PROVE  /\ Touches(c) /\ faults' = faults /\ NewBody(c)
               /\ UNCHANGED <<now, lastMigratedAt, unanswered, sent, forgotten, loose>>
    <2>1. UNCHANGED <<store, now, lastMigratedAt, faults, unanswered>>
      BY <1>5 DEF Reencode
    <2> QED
      BY <1>5, <2>1 DEF Touches, NewBody
  <1>6. CASE HandlerReleases(c)
    <2>1. \E delay \in Nat : Reencode(c, delay, "asked")
      BY <1>6, Payloads DEF HandlerReleases
    <2>2. pc[c] = "handling" /\ UNCHANGED <<settled, sent, forgotten, loose>>
      BY <1>6 DEF HandlerReleases
    <2> QED
      BY <1>1, <1>2, <1>5, <2>1, <2>2
  <1>7. CASE Yield(c) \/ Retry(c)
    <2>1. \E delay \in Nat : Reencode(c, delay, "release")
      BY <1>2, <1>7, BackoffIsADelay, Payloads DEF Yield, Retry
    <2>2. pc[c] \in {"yield", "retry"} /\ UNCHANGED <<settled, sent, forgotten, loose>>
      BY <1>7 DEF Yield, Retry, history
    <2> QED
      BY <1>1, <1>2, <1>5, <2>1, <2>2
  <1>8. CASE Ack(c)
    <2>1. Touches(c) /\ (faults' = faults \/ Fault) /\ (Stays \/ Finish(c))
      BY <1>8, <1>f DEF Ack, DeleteRaw, Touches, Stays
    <2> QED
      BY <1>1, <1>2, <1>8, <2>1 DEF Ack, DeleteRaw
  <1>9. CASE Bury(c)
    <2>1. /\ Touches(c) /\ (faults' = faults \/ Fault)
          /\ Stays \/ (Goto(c, "log") /\ UNCHANGED <<raw, until>>)
      BY <1>9 DEF Bury, DeleteRaw, Touches, Stays
    <2> QED
      BY <1>1, <1>2, <1>9, <2>1 DEF Bury, DeleteRaw, GoesOn, ProcessPc
  <1>10. CASE Release(c)
    <2>1. /\ pc[c] \in {"release", "asked"} /\ settled' = settled
          /\ UNCHANGED <<now, lastMigratedAt, unanswered, sent, forgotten, loose>>
          /\ faults' = faults \/ Fault
          /\ LuaRelease(raw[c], stamp[c]) \/ UNCHANGED store
          /\ Stays \/ Finish(c) \/ (Goto(c, "handling") /\ UNCHANGED <<raw, until>>)
      BY <1>10 DEF Release, Stays, history
    <2>2. Touches(c)
      BY <1>f, <2>1 DEF Touches, Stays
    <2> QED
      BY <1>1, <1>2, <2>1, <2>2 DEF GoesOn, ProcessPc
  <1>11. CASE Log(c)
    BY <1>1, <1>2, <1>11 DEF Log, Touches
  <1> QED
    BY <1>3, <1>4, <1>6, <1>7, <1>8, <1>9, <1>10, <1>11 DEF Process

LEMMA ProcessMoves ==
  ASSUME Basic, NEW c \in Consumer, Process(c)
  PROVE  /\ StoreIn(Body)' /\ ClientsIn(Body, Place)' /\ Punctual'
         /\ pc[c] \in ProcessPc /\ raw[c] \in Body
         /\ Others(c) /\ (Keeps(c) \/ Drops(c) \/ Reencodes(c))
         /\ Touches(c) /\ UNCHANGED <<now, unanswered, sent, forgotten, loose>>
  <1>1. /\ pc[c] \in ProcessPc /\ raw[c] \in Body
        /\ Touches(c) /\ (faults' = faults \/ Fault)
        /\ UNCHANGED <<now, lastMigratedAt, unanswered, sent, forgotten, loose>>
        /\ Stays \/ GoesOn(c) \/ Finish(c) \/ NewBody(c)
    BY ProcessTouches
  <1>2. /\ StoreIn(Body) /\ ClientsIn(Body, Place) /\ Punctual
        /\ now \in Nat /\ stamp[c] \in Nat
        /\ "idle" \in Place /\ ProcessPc \subseteq Place
    BY DriverAssumption DEF Basic, ClientsIn, DriverAssumption, Place, PopPc
  <1>3. faults' \in 0..MaxFaults
    BY <1>1, <1>2, DriverAssumption DEF DriverAssumption, Fault, ClientsIn
  <1>4. StoreIn(Body)'
    <2>1. CASE UNCHANGED store
      BY <1>2, <2>1 DEF store, StoreIn
    <2>2. CASE LuaDelete(raw[c])
      BY <1>1, <1>2, <2>2, DeleteRemoves
    <2>3. CASE LuaRelease(raw[c], stamp[c])
      BY <1>1, <1>2, <2>3, ReleaseStores
    <2> QED
      BY <1>1, <2>1, <2>2, <2>3 DEF Touches
  <1>5. ASSUME pc' \in [Consumer -> Place], stamp' \in [Consumer -> Nat],
               raw' \in [Consumer -> Body \cup {NoBody}], until' \in [Consumer -> Nat],
               \A x \in Consumer : pc'[x] \in PopPc => stamp'[x] <= now
        PROVE  ClientsIn(Body, Place)' /\ Punctual'
    BY <1>1, <1>2, <1>3, <1>5 DEF ClientsIn, Punctual
  <1>6. CASE Stays
    <2>1. ClientsIn(Body, Place)' /\ Punctual'
      BY <1>2, <1>5, <1>6 DEF Stays, ClientsIn, Punctual
    <2>2. Others(c) /\ Keeps(c)
      BY <1>1, <1>6 DEF Stays, Others, Keeps
    <2> QED
      BY <1>1, <1>4, <2>1, <2>2
  <1>7. CASE GoesOn(c)
    <2>1. PICK l \in ProcessPc : Goto(c, l)
      BY <1>7 DEF GoesOn
    <2>2. /\ pc' \in [Consumer -> Place] /\ stamp' \in [Consumer -> Nat]
          /\ pc'[c] = l /\ \A x \in Consumer \ {c} : pc'[x] = pc[x]
          /\ \A x \in Consumer : pc'[x] \in PopPc => stamp'[x] <= now
      <3>1. l # "migrateReserved" /\ l \in Place
        BY <1>2 DEF ProcessPc
      <3> QED
        BY <1>2, <2>1, <3>1, GotoMoves
    <2>3. UNCHANGED <<raw, until>>
      BY <1>7 DEF GoesOn
    <2>4. ClientsIn(Body, Place)' /\ Punctual'
      BY <1>2, <1>5, <2>2, <2>3 DEF ClientsIn
    <2>5. Others(c) /\ Keeps(c)
      BY <2>2, <2>3 DEF Others, Keeps
    <2> QED
      BY <1>1, <1>4, <2>4, <2>5
  <1>8. CASE Finish(c)
    <2>1. /\ Goto(c, "idle")
          /\ raw' = [raw EXCEPT ![c] = NoBody] /\ until' = [until EXCEPT ![c] = 0]
      BY <1>8 DEF Finish
    <2>2. /\ pc' \in [Consumer -> Place] /\ stamp' \in [Consumer -> Nat]
          /\ pc'[c] = "idle" /\ \A x \in Consumer \ {c} : pc'[x] = pc[x]
          /\ \A x \in Consumer : pc'[x] \in PopPc => stamp'[x] <= now
      BY <1>2, <2>1, GotoMoves
    <2>3. /\ raw' \in [Consumer -> Body \cup {NoBody}] /\ until' \in [Consumer -> Nat]
          /\ raw'[c] = NoBody /\ until'[c] = 0
          /\ \A x \in Consumer \ {c} : raw'[x] = raw[x] /\ until'[x] = until[x]
      BY <1>2, <2>1 DEF ClientsIn
    <2>4. ClientsIn(Body, Place)' /\ Punctual'
      BY <1>5, <2>2, <2>3
    <2>5. Others(c) /\ Drops(c)
      BY <2>2, <2>3 DEF Others, Drops
    <2> QED
      BY <1>1, <1>4, <2>4, <2>5
  <1>9. CASE NewBody(c)
    <2>1. PICK l \in {"release", "asked"}, delay \in Nat : Reencode(c, delay, l)
      BY <1>9 DEF NewBody
    <2>2. /\ pc' = [pc EXCEPT ![c] = l] /\ stamp' = [stamp EXCEPT ![c] = now + delay]
          /\ raw' = [raw EXCEPT ![c] = Again(raw[c])] /\ until' = until
      BY <1>1, <2>1 DEF Reencode, Again
    <2>3. Again(raw[c]) \in Body
      BY <1>1, Payloads
    <2>4. l \in ProcessPc /\ l \notin PopPc /\ l \in Place
      BY <2>1, <1>2 DEF ProcessPc, PopPc
    <2>5. /\ pc' \in [Consumer -> Place] /\ raw' \in [Consumer -> Body \cup {NoBody}]
          /\ pc'[c] = l /\ raw'[c] = Again(raw[c]) /\ until'[c] = until[c]
          /\ \A x \in Consumer \ {c} : pc'[x] = pc[x] /\ raw'[x] = raw[x] /\ until'[x] = until[x]
          /\ until' \in [Consumer -> Nat]
      BY <1>2, <2>2, <2>3, <2>4 DEF ClientsIn
    <2>6. /\ stamp' \in [Consumer -> Nat]
          /\ \A x \in Consumer \ {c} : stamp'[x] = stamp[x]
      BY <1>2, <2>2 DEF ClientsIn
    <2>7. \A x \in Consumer : pc'[x] \in PopPc => stamp'[x] <= now
      BY <1>2, <2>4, <2>5, <2>6 DEF Punctual
    <2>8. ClientsIn(Body, Place)' /\ Punctual'
      BY <1>5, <2>5, <2>6, <2>7
    <2>9. Others(c) /\ Reencodes(c)
      BY <1>9, <2>4, <2>5 DEF Others, Reencodes, NewBody
    <2> QED
      BY <1>1, <1>4, <2>8, <2>9
  <1> QED
    BY <1>1, <1>6, <1>7, <1>8, <1>9

(* A step of process adds only the payload it releases, and removes only   *)
(* the one it holds, which is then settled.                                *)
LEMMA ProcessStored ==
  ASSUME Basic, NEW c \in Consumer, Process(c)
  PROVE  /\ \A b \in Stored' : b \in Stored \/ (b = raw[c] /\ pc[c] \in {"release", "asked"})
         /\ \A b \in Stored : b \in Stored' \/ (b = raw[c] /\ raw[c].job \in settled')
         /\ settled' \in {settled, settled \cup {raw[c].job}}
  <1>1. StoreIn(Body) /\ raw[c] \in Body /\ Touches(c) /\ stamp[c] \in Nat
    BY ProcessMoves DEF Basic, ClientsIn
  <1>2. ASSUME UNCHANGED <<store, settled>> PROVE Stored' = Stored /\ settled' = settled
    BY <1>2 DEF store, Stored
  <1>3. ASSUME LuaDelete(raw[c])
        PROVE  Stored' \subseteq Stored /\ Stored \subseteq Stored' \cup {raw[c]}
    BY <1>1, <1>3, DeleteRemoves
  <1>4. ASSUME LuaRelease(raw[c], stamp[c])
        PROVE  Stored' = Stored \cup {raw[c]}
    BY <1>1, <1>4, ReleaseStores
  <1>5. settled' \in {settled, settled \cup {raw[c].job}}
    BY <1>1 DEF Touches
  <1>6. \A b \in Stored' : b \in Stored \/ (b = raw[c] /\ pc[c] \in {"release", "asked"})
    BY <1>1, <1>2, <1>3, <1>4 DEF Touches
  <1>7. \A b \in Stored : b \in Stored' \/ (b = raw[c] /\ raw[c].job \in settled')
    BY <1>1, <1>2, <1>3, <1>4 DEF Touches
  <1> QED
    BY <1>5, <1>6, <1>7

(* The records it makes are about the job it holds.                        *)
LEMMA ProcessRecords ==
  ASSUME Basic, NEW c \in Consumer, Process(c)
  PROVE  /\ succeeded' \in {succeeded, succeeded \cup {raw[c].job}}
         /\ unlogged' \in {unlogged, unlogged \cup {raw[c].job}}
         /\ \/ failedLog' = failedLog
            \/ pc[c] = "log" /\ failedLog' = failedLog \cup {raw[c]}
         /\ \/ dismissed' = dismissed
            \/ /\ dismissed' = dismissed \cup {raw[c].job}
               /\ settled' = settled \cup {raw[c].job}
         /\ errors' \in [Job -> Nat]
         /\ \A j \in Job : errors[j] <= errors'[j] /\ (j # raw[c].job => errors'[j] = errors[j])
  <1>1. raw[c] \in Body /\ raw[c].job \in Job /\ errors \in [Job -> Nat]
    BY ProcessMoves, Payloads DEF Basic
  <1>2. \/ errors' = errors
        \/ errors' = [errors EXCEPT ![raw[c].job] = @ + 1]
    BY DEF Process, Start, HandlerOk, HandlerFails, HandlerDeletes, HandlerReleases, Ack,
           Yield, Retry, Release, Bury, Log, history
  <1>3. /\ errors' \in [Job -> Nat]
        /\ \A j \in Job : errors[j] <= errors'[j] /\ (j # raw[c].job => errors'[j] = errors[j])
    BY <1>1, <1>2
  <1>4. CASE Start(c) \/ HandlerOk(c) \/ HandlerFails(c) \/ HandlerDeletes(c)
    BY <1>3, <1>4 DEF Start, HandlerOk, HandlerFails, HandlerDeletes, history
  <1>5. CASE HandlerReleases(c) \/ Ack(c) \/ Yield(c) \/ Retry(c)
    BY <1>3, <1>5 DEF HandlerReleases, Ack, Yield, Retry, history
  <1>6. CASE Release(c) \/ Bury(c) \/ Log(c)
    BY <1>3, <1>6 DEF Release, Bury, Log, LogRecord, history
  <1> QED
    BY <1>4, <1>5, <1>6 DEF Process

-----------------------------------------------------------------------------
(* Basic is preserved.                                                     *)
LEMMA ProcessBasic ==
  ASSUME Basic, NEW c \in Consumer, Process(c)
  PROVE  Basic'
  <1>1. /\ StoreIn(Body)' /\ ClientsIn(Body, Place)' /\ Punctual'
        /\ pc[c] \in ProcessPc /\ raw[c] \in Body
        /\ Others(c) /\ (Keeps(c) \/ Drops(c) \/ Reencodes(c))
        /\ UNCHANGED <<unanswered, sent, forgotten, loose>>
    BY ProcessMoves
  <1>2. /\ raw[c] # NoBody /\ raw[c].job \in sent
        /\ Again(raw[c]) # NoBody /\ Again(raw[c]).job = raw[c].job
    BY <1>1, Payloads DEF Basic, Known
  <1>3. /\ succeeded' \in {succeeded, succeeded \cup {raw[c].job}}
        /\ unlogged' \in {unlogged, unlogged \cup {raw[c].job}}
        /\ failedLog' \in {failedLog, failedLog \cup {raw[c]}}
        /\ errors' \in [Job -> Nat]
    BY ProcessRecords
  <1>4. /\ \A b \in Stored' : b \in Stored \/ b = raw[c]
        /\ settled' \in {settled, settled \cup {raw[c].job}}
    BY ProcessStored
  <1>5. \A x \in Consumer : (pc'[x] \in ProcessPc) <=> (raw'[x] # NoBody)
    BY <1>1, <1>2 DEF Basic, Others, Keeps, Drops, Reencodes, ProcessPc
  <1>6. Known'
    <2>1. \A b \in Stored' : b.job \in sent
      BY <1>2, <1>4 DEF Basic, Known
    <2>2. \A x \in Consumer : raw'[x] # NoBody => raw'[x].job \in sent
      BY <1>1, <1>2 DEF Basic, Known, Others, Keeps, Drops, Reencodes
    <2>3. \A f \in failedLog' : f.job \in sent
      BY <1>2, <1>3 DEF Basic, Known
    <2> QED
      BY <1>1, <2>1, <2>2, <2>3 DEF Basic, Known
  <1>7. dismissed' \subseteq settled'
    BY <1>4, ProcessRecords DEF Basic
  <1>8. Pushed'
    BY <1>1 DEF Basic, Pushed
  <1> QED
    BY <1>1, <1>2, <1>3, <1>4, <1>5, <1>6, <1>7, <1>8 DEF Basic

(* What a step of Pop leaves alone.                                        *)
LEMMA FetchMoves ==
  ASSUME Basic, NEW c \in Consumer, Fetch(c)
  PROVE  /\ StoreIn(Body)' /\ ClientsIn(Body, Place)' /\ Punctual'
         /\ Stored' = Stored /\ now' = now
         /\ UNCHANGED <<failedLog, unanswered, sent, settled, succeeded, dismissed, errors,
                        unlogged, forgotten>>
         /\ pc[c] \in PopPc
         /\ \A x \in Consumer \ {c} : pc'[x] = pc[x] /\ raw'[x] = raw[x] /\ until'[x] = until[x]
         /\ \/ pc'[c] \in PopPc /\ raw'[c] = raw[c] /\ until'[c] = until[c]
            \/ pc'[c] = "held" /\ raw'[c] \in Stored
  <1>0. /\ StoreIn(Body) /\ ClientsIn(Body, Place) /\ Punctual
        /\ PopPc \subseteq Place /\ PopPc \cup {"held"} \subseteq Place
    BY DEF Basic, Place, ProcessPc
  <1>1. UNCHANGED <<failedLog, unanswered, sent, settled, succeeded, dismissed, errors, unlogged,
                  forgotten>>
    BY DEF Fetch, PopStep
  <1>2. CASE PopStart(c) \/ MigrateDelayed(c) \/ MigrateReserved(c) \/ PopBlock(c)
    <2>1. /\ StoreIn(Body)' /\ ClientsIn(Body, Place)' /\ Punctual'
          /\ Stored' = Stored /\ UNCHANGED <<now, raw, until>>
          /\ pc[c] \in PopPc /\ pc'[c] \in PopPc
          /\ \A x \in Consumer \ {c} : pc'[x] = pc[x]
      BY <1>0, <1>2, BeforePop
    <2> QED
      BY <1>1, <2>1
  <1>3. CASE PopFromQueue(c)
    <2>1. /\ StoreIn(Body)' /\ ClientsIn(Body, Place)' /\ Punctual'
          /\ Stored' = Stored /\ now' = now /\ pc[c] = "pop"
          /\ \A x \in Consumer \ {c} : pc'[x] = pc[x]
          /\ stamp[c] + RetryAfter \in Nat
          /\ Takes(c) \/ ReplyLost(c) \/ PopsNothing(c)
      BY <1>0, <1>3, PopHolds
    <2>2. CASE Takes(c)
      <3>1. Head(ready) \in Stored
        BY <1>0, <2>1, <2>2, PopMoves DEF Takes, Stored
      <3>2. /\ pc'[c] = "held" /\ raw'[c] = Head(ready)
            /\ \A x \in Consumer \ {c} : raw'[x] = raw[x] /\ until'[x] = until[x]
        BY <1>0, <2>2 DEF Takes, ClientsIn
      <3> QED
        BY <1>1, <2>1, <3>1, <3>2 DEF PopPc
    <2>3. CASE ReplyLost(c) \/ PopsNothing(c)
      BY <1>1, <2>1, <2>3 DEF ReplyLost, PopsNothing, PopPc
    <2> QED
      BY <2>1, <2>2, <2>3
  <1> QED
    BY <1>2, <1>3 DEF Fetch, PopStep

(* What Watch adds to loose was dispatched.                                *)
LEMMA WatchKnown ==
  ASSUME NEW more, Watch(more), \A b \in more : b.job \in sent', loose \subseteq sent', Known'
  PROVE  loose' \subseteq sent'
  BY DEF Watch, Overrun, Known

LEMMA FetchBasic ==
  ASSUME Basic, NEW c \in Consumer, Fetch(c)
  PROVE  Basic'
  <1>1. /\ StoreIn(Body)' /\ ClientsIn(Body, Place)' /\ Punctual' /\ Stored' = Stored
        /\ UNCHANGED <<failedLog, unanswered, sent, settled, succeeded, dismissed, errors, unlogged,
                  forgotten>>
        /\ pc[c] \in PopPc
        /\ \A x \in Consumer \ {c} : pc'[x] = pc[x] /\ raw'[x] = raw[x]
        /\ \/ pc'[c] \in PopPc /\ raw'[c] = raw[c]
           \/ pc'[c] = "held" /\ raw'[c] \in Stored
    BY FetchMoves
  <1>2. Stored \subseteq Body /\ NoBody \notin Stored
    <2>1. Range(ready) \subseteq Body
      BY DEF Basic, StoreIn, Range
    <2>2. Stored \subseteq Body
      BY <2>1 DEF Basic, StoreIn, ZSet, Stored
    <2> QED
      BY <2>2, Payloads
  <1>3. \A x \in Consumer : (pc'[x] \in ProcessPc) <=> (raw'[x] # NoBody)
    BY <1>1, <1>2 DEF Basic, PopPc, ProcessPc
  <1>4. Known'
    BY <1>1 DEF Basic, Known
  <1>5. loose' \subseteq sent'
    <2>1. Watch({}) /\ loose \subseteq sent'
      BY <1>1 DEF Fetch, Basic
    <2> QED
      BY <1>4, <2>1, WatchKnown
  <1>6. Pushed'
    BY <1>1 DEF Basic, Pushed
  <1> QED
    BY <1>1, <1>3, <1>4, <1>5, <1>6 DEF Basic

LEMMA DispatchMoves ==
  ASSUME Basic, NEW j \in Job, Dispatch(j)
  PROVE  /\ StoreIn(Body)' /\ Stored' = Stored \cup {NewPayload(j)}
         /\ NewPayload(j) \in Body /\ NewPayload(j).job = j /\ NewPayload(j).attempts = 0
         /\ reserved' = reserved
         /\ \A x : Single(x) /\ (x = NewPayload(j) => NewPayload(j) \notin Stored) => Single(x)'
         /\ j \notin sent /\ sent' = sent \cup {j}
         /\ faults' = faults \/ Fault
         /\ \A p \in unanswered' : \/ p \in unanswered
                                   \/ /\ p.body = NewPayload(j)
                                      /\ p.availableAt \in {Immediately} \cup Nat
         /\ UNCHANGED <<now, lastMigratedAt, stamp, pc, raw, until>>
         /\ UNCHANGED <<failedLog, settled, succeeded, dismissed, errors, unlogged, forgotten,
                        loose>>
  <1>1. now \in Nat
    BY DriverAssumption DEF Basic, ClientsIn, DriverAssumption
  <1>2. /\ j \notin sent /\ sent' = sent \cup {j}
        /\ UNCHANGED <<failedLog, settled, succeeded, dismissed, errors, unlogged, forgotten,
                       loose>>
    BY DEF Dispatch
  <1>3. PICK at \in {Immediately} \cup Nat : Produce(NewPayload(j), at)
    BY <1>1, Payloads DEF Dispatch
  <1>4. StoreIn(Body) /\ NewPayload(j) \in Body /\ NewPayload(j).job = j
        /\ NewPayload(j).attempts = 0
    BY Payloads DEF Basic
  <1>5. /\ Enqueue(NewPayload(j), at)
        /\ UNCHANGED <<now, lastMigratedAt, stamp, pc, raw, until>>
        /\ \/ UNCHANGED <<faults, unanswered>>
           \/ /\ Fault
              /\ unanswered' = unanswered \cup {[body |-> NewPayload(j), availableAt |-> at]}
    BY <1>3 DEF Produce
  <1>6. /\ StoreIn(Body)' /\ Stored' = Stored \cup {NewPayload(j)} /\ reserved' = reserved
        /\ \A x : Single(x) /\ (x = NewPayload(j) => NewPayload(j) \notin Stored) => Single(x)'
    BY <1>4, <1>5, EnqueueStores
  <1>7. /\ faults' = faults \/ Fault
        /\ \A p \in unanswered' : \/ p \in unanswered
                                  \/ /\ p.body = NewPayload(j)
                                     /\ p.availableAt \in {Immediately} \cup Nat
    BY <1>3, <1>5
  <1> QED
    BY <1>2, <1>4, <1>5, <1>6, <1>7

(* The clients after the call of a producer.                               *)
LEMMA ProducerLeaves ==
  ASSUME Basic, UNCHANGED <<now, lastMigratedAt, stamp, pc, raw, until>>,
         faults' = faults \/ Fault
  PROVE  ClientsIn(Body, Place)' /\ Punctual'
  <1>1. faults' \in 0..MaxFaults
    BY DriverAssumption DEF Basic, DriverAssumption, Fault, ClientsIn
  <1> QED
    BY <1>1 DEF Basic, ClientsIn, Punctual

LEMMA DispatchBasic ==
  ASSUME Basic, NEW j \in Job, Dispatch(j)
  PROVE  Basic'
  <1>1. /\ StoreIn(Body)' /\ Stored' = Stored \cup {NewPayload(j)}
        /\ NewPayload(j).job = j /\ sent' = sent \cup {j}
        /\ faults' = faults \/ Fault
        /\ UNCHANGED <<now, lastMigratedAt, stamp, pc, raw, until>>
        /\ UNCHANGED <<failedLog, settled, succeeded, dismissed, errors, unlogged, forgotten,
                       loose>>
    BY DispatchMoves
  <1>2. ClientsIn(Body, Place)' /\ Punctual'
    BY <1>1, ProducerLeaves
  <1>3. Known'
    BY <1>1 DEF Basic, Known
  <1>4. Pushed'
    <2>1. \A p \in unanswered' : \/ p \in unanswered
                                 \/ /\ p.body = NewPayload(j)
                                    /\ p.availableAt \in {Immediately} \cup Nat
      BY DispatchMoves
    <2> QED
      BY <1>1, <2>1 DEF Basic, Pushed
  <1> QED
    BY <1>1, <1>2, <1>3, <1>4 DEF Basic

(* A push that is sent again: the job is stored, once more or not.         *)
LEMMA AgainMoves ==
  ASSUME Basic, NEW p \in unanswered, DispatchAgain(p)
  PROVE  /\ StoreIn(Body)' /\ Stored' = Stored \cup {p.body}
         /\ p.body \in Body /\ p.body.job \in sent /\ p.body = NewPayload(p.body.job)
         /\ p.body.attempts = 0 /\ reserved' = reserved
         /\ \A x : Single(x) /\ (x = p.body => p.body \notin Duplicates(p)) => Single(x)'
         /\ p.body \notin Duplicates(p) => p.body \in Stored
         /\ Duplicates(p) \subseteq {p.body} /\ Watch(Duplicates(p))
         /\ faults' = faults \/ Fault
         /\ unanswered' \subseteq unanswered
         /\ UNCHANGED <<now, lastMigratedAt, stamp, pc, raw, until>>
         /\ UNCHANGED <<failedLog, sent, settled, succeeded, dismissed, errors, unlogged,
                        forgotten>>
  <1>1. /\ Enqueue(p.body, p.availableAt) /\ Watch(Duplicates(p))
        /\ faults' = faults \/ Fault
        /\ unanswered' \subseteq unanswered
        /\ UNCHANGED <<now, lastMigratedAt, stamp, pc, raw, until>>
        /\ UNCHANGED <<failedLog, sent, settled, succeeded, dismissed, errors, unlogged,
                       forgotten>>
    BY DEF DispatchAgain, ProduceAgain
  <1>2. /\ p.body.job \in sent /\ p.body = NewPayload(p.body.job)
        /\ p.availableAt \in {Immediately} \cup Nat /\ p.body.job \in Job
    BY DEF Basic, Pushed, Known
  <1>3. p.body \in Body /\ p.body.attempts = 0 /\ StoreIn(Body)
    BY <1>2, Payloads DEF Basic
  <1> DEFINE b == p.body
             at == p.availableAt
  <1> HIDE DEF b, at
  <1>4. /\ StoreIn(Body)' /\ Stored' = Stored \cup {b} /\ reserved' = reserved
        /\ \A x : Single(x) /\ (x = b => b \notin Stored) => Single(x)'
        /\ at # Immediately /\ b \in DOMAIN delayed => \A x : Single(x) => Single(x)'
    <2>1. b \in Body /\ at \in {Immediately} \cup Nat /\ Enqueue(b, at)
      BY <1>1, <1>2, <1>3 DEF b, at
    <2> QED
      BY <1>3, <2>1, EnqueueStores
  <1>5. /\ Duplicates(p) \subseteq {b}
        /\ b \notin Duplicates(p) => at # Immediately /\ b \in DOMAIN delayed /\ b \in Stored
    BY DEF Duplicates, Stored, b, at
  <1>6. \A x : Single(x) /\ (x = b => b \notin Duplicates(p)) => Single(x)'
    BY <1>4, <1>5
  <1> QED
    BY <1>1, <1>2, <1>3, <1>4, <1>5, <1>6 DEF b

LEMMA AgainBasic ==
  ASSUME Basic, NEW p \in unanswered, DispatchAgain(p)
  PROVE  Basic'
  <1>1. /\ StoreIn(Body)' /\ Stored' = Stored \cup {p.body} /\ p.body.job \in sent
        /\ Duplicates(p) \subseteq {p.body} /\ Watch(Duplicates(p))
        /\ faults' = faults \/ Fault
        /\ unanswered' \subseteq unanswered
        /\ UNCHANGED <<now, lastMigratedAt, stamp, pc, raw, until>>
        /\ UNCHANGED <<failedLog, sent, settled, succeeded, dismissed, errors, unlogged,
                       forgotten>>
    BY AgainMoves
  <1>2. ClientsIn(Body, Place)' /\ Punctual'
    BY <1>1, ProducerLeaves
  <1>3. Known' /\ Pushed'
    BY <1>1 DEF Basic, Known, Pushed
  <1>4. loose' \subseteq sent'
    <2>1. loose \subseteq sent' /\ \A b \in Duplicates(p) : b.job \in sent'
      BY <1>1 DEF Basic
    <2> QED
      BY <1>1, <1>3, <2>1, WatchKnown
  <1> QED
    BY <1>1, <1>2, <1>3, <1>4 DEF Basic

(* Forget, Flush, a crash and the clock.                                   *)
LEMMA CleanupBasic ==
  ASSUME Basic, (\E b \in failedLog : Forget(b)) \/ Flush
  PROVE  /\ Basic' /\ UNCHANGED <<store, driverVars, sent, settled, succeeded, dismissed, errors>>
         /\ UNCHANGED <<unlogged, loose>>
         /\ forgotten \subseteq forgotten' /\ failedLog' \subseteq failedLog
         /\ \A f \in failedLog \ failedLog' : f.job \in forgotten'
         /\ UNCHANGED <<Stored, Held>>
  <1>1. /\ UNCHANGED <<store, driverVars, sent, settled, succeeded, dismissed, errors>>
        /\ UNCHANGED <<unlogged, loose>>
        /\ forgotten \subseteq forgotten' /\ failedLog' \subseteq failedLog
        /\ \A f \in failedLog \ failedLog' : f.job \in forgotten'
        /\ \A j \in forgotten' : j \in forgotten \/ \E f \in failedLog : j = f.job
    BY DEF Forget, Flush
  <1>2. UNCHANGED <<Stored, Held>>
    BY <1>1 DEF store, driverVars, Stored, Held
  <1>3. StoreIn(Body)' /\ ClientsIn(Body, Place)' /\ Punctual' /\ UNCHANGED <<unanswered, pc, raw>>
    BY <1>1 DEF Basic, store, driverVars, StoreIn, ClientsIn, Punctual
  <1>4. Known' /\ Pushed'
    BY <1>1, <1>2, <1>3 DEF Basic, Known, Pushed
  <1>5. forgotten' \subseteq sent'
    BY <1>1 DEF Basic, Known
  <1> QED
    BY <1>1, <1>2, <1>3, <1>4, <1>5 DEF Basic

LEMMA EnvironmentBasic ==
  ASSUME Basic, (\E d \in Driver : WorkerCrash(d)) \/ Tick
  PROVE  /\ Basic' /\ UNCHANGED store /\ Stored' = Stored /\ now <= now'
         /\ \A x : Single(x) => Single(x)'
         /\ UNCHANGED <<failedLog, unanswered, sent, settled, succeeded, dismissed, errors, forgotten>>
         /\ \A x \in Consumer :
                \/ pc'[x] = pc[x] /\ raw'[x] = raw[x] /\ until'[x] = until[x]
                \/ pc'[x] = "idle" /\ raw'[x] = NoBody /\ now' = now
         /\ unlogged \subseteq unlogged'
         /\ \A x \in Consumer : pc[x] \in {"bury", "log"} =>
               \/ pc'[x] = pc[x] /\ raw'[x] = raw[x]
               \/ raw[x].job \in settled => raw[x].job \in unlogged'
  <1>0. StoreIn(Body) /\ ClientsIn(Body, Place) /\ Punctual /\ PopPc \subseteq Place
    BY DEF Basic, Place
  <1>1. Advance \/ \E d \in Driver : Crash(d)
    BY DEF WorkerCrash, Tick
  <1>2. /\ UNCHANGED store /\ StoreIn(Body)' /\ Stored' = Stored
        /\ ClientsIn(Body, Place)' /\ Punctual' /\ now <= now'
        /\ \A x \in Consumer :
              \/ pc'[x] = pc[x] /\ raw'[x] = raw[x] /\ until'[x] = until[x]
              \/ pc'[x] = "idle" /\ raw'[x] = NoBody /\ now' = now
        /\ \A x : Single(x) => Single(x)'
    BY <1>0, <1>1, EnvironmentMoves
  <1>3. UNCHANGED <<failedLog, unanswered, sent, settled, succeeded, dismissed, errors, forgotten>>
    BY DEF WorkerCrash, Tick, Crash, Advance
  <1>4. /\ unlogged \subseteq unlogged' /\ unlogged' \subseteq unlogged \cup settled
        /\ \A x \in Consumer : pc[x] \in {"bury", "log"} =>
               \/ pc'[x] = pc[x] /\ raw'[x] = raw[x]
               \/ raw[x].job \in settled => raw[x].job \in unlogged'
    <2>1. CASE Tick
      BY <2>1 DEF Tick, Advance
    <2>2. ASSUME NEW d \in Driver, WorkerCrash(d)
          PROVE  /\ unlogged' = unlogged \cup
                      ({raw[x].job : x \in {y \in Consumer : DriverOf[y] = d /\ pc[y] \in {"bury", "log"}}}
                       \cap settled)
                 /\ \A x \in Consumer : DriverOf[x] # d => pc'[x] = pc[x] /\ raw'[x] = raw[x]
      BY <2>2 DEF WorkerCrash, Crash
    <2>3. CASE \E d \in Driver : WorkerCrash(d)
      BY <2>2, <2>3
    <2> QED
      BY <2>1, <2>3
  <1>5. \A x \in Consumer : (pc'[x] \in ProcessPc) <=> (raw'[x] # NoBody)
    BY <1>2 DEF Basic, ProcessPc
  <1>6. Known' /\ Pushed'
    BY <1>2, <1>3 DEF Basic, Known, Pushed
  <1>7. unlogged' \subseteq sent'
    BY <1>3, <1>4 DEF Basic
  <1>8. loose' \subseteq sent'
    <2>1. loose \subseteq sent' /\ (loose' = loose \/ Watch({}))
      BY <1>3 DEF Basic, WorkerCrash, Tick
    <2> QED
      BY <1>6, <2>1, WatchKnown
  <1> QED
    BY <1>2, <1>3, <1>4, <1>5, <1>6, <1>7, <1>8 DEF Basic

-----------------------------------------------------------------------------
(* The steps that are not Process(c), by what they do to the records.      *)
Elsewhere ==
    \/ \E j \in Job : Dispatch(j)
    \/ \E p \in unanswered : DispatchAgain(p)
    \/ \E c \in Consumer : Fetch(c)
    \/ (\E b \in failedLog : Forget(b)) \/ Flush
    \/ (\E d \in Driver : WorkerCrash(d)) \/ Tick
    \/ UNCHANGED vars

(* They leave no payload out, count nothing, and a worker that took a job  *)
(* has not yet decided anything about it.                                  *)
LEMMA ElsewhereMoves ==
  ASSUME Basic, Elsewhere
  PROVE  /\ Basic' /\ Stored \subseteq Stored' /\ now <= now'
         /\ UNCHANGED <<settled, succeeded, dismissed, errors>>
         /\ \A b \in Stored' : b \in Stored \/ (b.attempts = 0 /\ b.job \in sent')
         /\ \A j \in sent' \ sent : \E b \in Stored' : b.job = j
         /\ \A x \in Consumer :
               \/ pc'[x] = pc[x] /\ raw'[x] = raw[x]
               \/ pc'[x] \in PopPc /\ raw'[x] = NoBody
               \/ pc'[x] = "held" /\ raw'[x] \in Stored
         /\ unlogged \subseteq unlogged' /\ forgotten \subseteq forgotten'
         /\ failedLog' \subseteq failedLog
         /\ \A f \in failedLog \ failedLog' : f.job \in forgotten'
         /\ \A x \in Consumer : pc[x] \in {"bury", "log"} =>
               \/ pc'[x] = pc[x] /\ raw'[x] = raw[x]
               \/ raw[x].job \in settled => raw[x].job \in unlogged'
  <1>0. now \in Nat
    BY DriverAssumption DEF Basic, ClientsIn, DriverAssumption
  <1>1. ASSUME NEW j \in Job, Dispatch(j)
        PROVE  /\ Basic' /\ Stored' = Stored \cup {NewPayload(j)}
               /\ NewPayload(j).attempts = 0 /\ NewPayload(j).job = j
               /\ j \notin sent /\ sent' = sent \cup {j}
               /\ UNCHANGED <<now, pc, raw, settled, succeeded, dismissed, errors, unlogged,
                              forgotten, failedLog>>
    BY <1>1, DispatchBasic, DispatchMoves
  <1>2. CASE \E j \in Job : Dispatch(j)
    BY <1>0, <1>1, <1>2
  <1>a. ASSUME NEW p \in unanswered, DispatchAgain(p)
        PROVE  /\ Basic' /\ Stored' = Stored \cup {p.body}
               /\ p.body.attempts = 0 /\ p.body.job \in sent /\ sent' = sent
               /\ UNCHANGED <<now, pc, raw, settled, succeeded, dismissed, errors, unlogged,
                              forgotten, failedLog>>
    BY <1>a, AgainBasic, AgainMoves
  <1>b. CASE \E p \in unanswered : DispatchAgain(p)
    BY <1>0, <1>a, <1>b
  <1>3. ASSUME NEW c \in Consumer, Fetch(c)
        PROVE  /\ Basic' /\ Stored' = Stored /\ now' = now
               /\ UNCHANGED <<failedLog, sent, settled, succeeded, dismissed, errors, unlogged, forgotten>>
               /\ pc[c] \notin {"bury", "log"}
               /\ \A x \in Consumer \ {c} : pc'[x] = pc[x] /\ raw'[x] = raw[x]
               /\ \/ pc'[c] \in PopPc /\ raw'[c] = NoBody
                  \/ pc'[c] = "held" /\ raw'[c] \in Stored
    <2>1. /\ Basic' /\ Stored' = Stored /\ now' = now
          /\ UNCHANGED <<failedLog, sent, settled, succeeded, dismissed, errors, unlogged, forgotten>>
          /\ pc[c] \in PopPc
          /\ \A x \in Consumer \ {c} : pc'[x] = pc[x] /\ raw'[x] = raw[x]
          /\ \/ pc'[c] \in PopPc /\ raw'[c] = raw[c]
             \/ pc'[c] = "held" /\ raw'[c] \in Stored
      BY <1>3, FetchBasic, FetchMoves
    <2>2. raw[c] = NoBody /\ pc[c] \notin {"bury", "log"}
      BY <2>1 DEF Basic, PopPc, ProcessPc
    <2> QED
      BY <2>1, <2>2
  <1>4. CASE \E c \in Consumer : Fetch(c)
    BY <1>0, <1>3, <1>4
  <1>5. CASE (\E b \in failedLog : Forget(b)) \/ Flush
    <2>1. /\ Basic' /\ UNCHANGED <<store, driverVars, sent, settled, succeeded, dismissed, errors>>
          /\ UNCHANGED unlogged
          /\ forgotten \subseteq forgotten' /\ failedLog' \subseteq failedLog
          /\ \A f \in failedLog \ failedLog' : f.job \in forgotten'
          /\ Stored' = Stored
      BY <1>5, CleanupBasic
    <2>2. UNCHANGED <<now, pc, raw>>
      BY <2>1 DEF driverVars
    <2> QED
      BY <1>0, <2>1, <2>2
  <1>6. CASE (\E d \in Driver : WorkerCrash(d)) \/ Tick
    <2>1. /\ Basic' /\ Stored' = Stored /\ now <= now'
          /\ UNCHANGED <<failedLog, sent, settled, succeeded, dismissed, errors, forgotten>>
          /\ \A x \in Consumer :
                \/ pc'[x] = pc[x] /\ raw'[x] = raw[x]
                \/ pc'[x] = "idle" /\ raw'[x] = NoBody
          /\ unlogged \subseteq unlogged'
          /\ \A x \in Consumer : pc[x] \in {"bury", "log"} =>
               \/ pc'[x] = pc[x] /\ raw'[x] = raw[x]
               \/ raw[x].job \in settled => raw[x].job \in unlogged'
      BY <1>6, EnvironmentBasic
    <2> QED
      BY <2>1 DEF PopPc
  <1>7. CASE UNCHANGED vars
    <2>1. UNCHANGED <<store, driverVars, failedLog, sent, settled, succeeded, dismissed, errors,
                      unlogged, forgotten, loose>>
      BY <1>7 DEF vars, history
    <2>2. Stored' = Stored /\ UNCHANGED <<now, pc, raw, unanswered>>
      BY <2>1 DEF store, driverVars, Stored
    <2>3. StoreIn(Body)' /\ ClientsIn(Body, Place)' /\ Punctual'
      BY <2>1 DEF store, driverVars, Basic, StoreIn, ClientsIn, Punctual
    <2>4. Basic'
      BY <2>1, <2>2, <2>3 DEF Basic, Known, Pushed
    <2> QED
      BY <1>0, <2>1, <2>2, <2>4
  <1> QED
    BY <1>2, <1>b, <1>4, <1>5, <1>6, <1>7 DEF Elsewhere

(* No job is lost.                                                         *)
LEMMA JobsKept ==
  ASSUME Basic, NoJobLost, Elsewhere \/ \E c \in Consumer : Process(c)
  PROVE  NoJobLost'
  <1>0. \A j \in sent \ settled : \E b \in Stored : b.job = j
    BY DEF NoJobLost, JobStored
  <1>1. SUFFICES \A j \in sent' \ settled' : \E b \in Stored' : b.job = j
    BY DEF NoJobLost, JobStored
  <1>2. CASE Elsewhere
    <2>1. /\ Stored \subseteq Stored' /\ settled' = settled
          /\ \A j \in sent' \ sent : \E b \in Stored' : b.job = j
      BY <1>2, ElsewhereMoves
    <2> QED
      BY <1>0, <2>1
  <1>3. ASSUME NEW c \in Consumer, Process(c)
        PROVE  \A j \in sent' \ settled' : \E b \in Stored' : b.job = j
    <2>1. \A b \in Stored : b \in Stored' \/ (b = raw[c] /\ raw[c].job \in settled')
      BY <1>3, ProcessStored
    <2>2. settled \subseteq settled' /\ sent' = sent
      BY <1>3, ProcessStored, ProcessMoves
    <2> QED
      BY <1>0, <2>1, <2>2
  <1> QED
    BY <1>2, <1>3

-----------------------------------------------------------------------------
(* A job that was given all its tries stays so.                            *)
LEMMA ExhaustedStays ==
  ASSUME Basic, Basic', now <= now', \A j \in Job : errors[j] <= errors'[j],
         NEW f \in Body, Exhausted(f)
  PROVE  Exhausted(f)'
  <1>1. f.job \in Job
    BY Payloads
  <1>2. /\ now \in Nat /\ now' \in Nat
        /\ errors[f.job] \in Nat /\ errors'[f.job] \in Nat /\ errors[f.job] <= errors'[f.job]
    BY <1>1, DriverAssumption DEF Basic, ClientsIn, DriverAssumption
  <1>3. /\ RetryUntil[f.job] # Unset => RetryUntil[f.job] \in Nat
        /\ MaxTries[f.job] # Unset => MaxTries[f.job] \in Nat
    BY <1>1, LifecycleAssumption DEF LifecycleAssumption
  <1>4. CASE RetryUntil[f.job] # Unset /\ now >= RetryUntil[f.job]
    BY <1>2, <1>3, <1>4 DEF Exhausted
  <1>5. CASE MaxTries[f.job] # Unset /\ errors[f.job] > MaxTries[f.job]
    BY <1>2, <1>3, <1>5 DEF Exhausted
  <1> QED
    BY <1>4, <1>5 DEF Exhausted

(* Counted, without the properties it is made of.                          *)
LEMMA CountedMeans ==
  /\ AttemptsAreErrors <=> /\ \A b \in Stored : b.attempts <= errors[b.job]
                           /\ \A c \in Consumer : raw[c] # NoBody =>
                                 raw[c].attempts <= errors[raw[c].job]
  /\ ExhaustedBeforeFailed <=> \A f \in failedLog : Exhausted(f)
  BY DEF AttemptsAreErrors, Held, ExhaustedBeforeFailed, Exhausted

LEMMA CountedElsewhere ==
  ASSUME Basic, Counted, Elsewhere
  PROVE  Counted'
  <1>1. /\ Basic' /\ now <= now'
        /\ UNCHANGED <<settled, succeeded, errors>>
        /\ \A b \in Stored' : b \in Stored \/ (b.attempts = 0 /\ b.job \in sent')
        /\ \A x \in Consumer :
               \/ pc'[x] = pc[x] /\ raw'[x] = raw[x]
               \/ pc'[x] \in PopPc /\ raw'[x] = NoBody
               \/ pc'[x] = "held" /\ raw'[x] \in Stored
        /\ failedLog' \subseteq failedLog
    BY ElsewhereMoves
  <1>2. /\ \A b \in Stored : b.attempts <= errors[b.job]
        /\ \A x \in Consumer : raw[x] # NoBody => raw[x].attempts <= errors[raw[x].job]
        /\ \A f \in failedLog : Exhausted(f)
        /\ \A x \in Consumer : Stage(x)
    BY CountedMeans DEF Counted
  <1>3. \A j \in Job : errors[j] \in Nat /\ errors[j] <= errors'[j]
    BY <1>1 DEF Basic
  <1>4. \A f \in Body : Exhausted(f) => Exhausted(f)'
    BY <1>1, <1>3, ExhaustedStays
  <1>5. \A b \in Stored' : b.attempts <= errors'[b.job]
    <2>1. sent' \subseteq Job
      BY <1>1 DEF Basic, Known
    <2> QED
      BY <1>1, <1>2, <1>3, <2>1
  <1>6. \A x \in Consumer : raw'[x] # NoBody => raw'[x].attempts <= errors'[raw'[x].job]
    BY <1>1, <1>2
  <1>7. \A f \in failedLog' : Exhausted(f)'
    BY <1>1, <1>2, <1>4 DEF Basic
  <1>8. ASSUME NEW x \in Consumer PROVE Stage(x)'
    <2>1. CASE pc'[x] = pc[x] /\ raw'[x] = raw[x]
      <3>1. pc[x] \in {"bury", "log"} => raw[x] \in Body
        BY DEF Basic, ClientsIn, ProcessPc
      <3> QED
        BY <1>1, <1>2, <1>4, <2>1, <3>1 DEF Stage
    <2>2. CASE pc'[x] \in PopPc \cup {"held"}
      BY <2>2 DEF Stage, PopPc
    <2> QED
      BY <1>1, <2>1, <2>2
  <1>9. AttemptsAreErrors' /\ ExhaustedBeforeFailed'
    BY <1>5, <1>6, <1>7 DEF AttemptsAreErrors, Held, ExhaustedBeforeFailed, Exhausted
  <1> QED
    BY <1>8, <1>9 DEF Counted

(* A call of Job.Release, up to its script, re-encodes the payload.        *)
LEMMA ReencodeMoves ==
  ASSUME Basic, NEW c \in Consumer, HandlerReleases(c) \/ Yield(c) \/ Retry(c)
  PROVE  Reencodes(c)
  <1>1. Process(c)
    BY DEF Process
  <1>2. pc[c] \in {"handling", "yield", "retry"} /\ UNCHANGED settled
    BY DEF HandlerReleases, Yield, Retry, history
  <1>3. PICK l \in {"release", "asked"} : \E delay : Reencode(c, delay, l)
    BY DEF HandlerReleases, Yield, Retry
  <1>4. raw[c] \in Body
    BY <1>1, ProcessMoves
  <1>5. /\ pc' = [pc EXCEPT ![c] = l] /\ raw' = [raw EXCEPT ![c] = Again(raw[c])]
        /\ UNCHANGED <<store, until>>
    BY <1>3, <1>4 DEF Reencode, Again
  <1> QED
    BY <1>2, <1>3, <1>5 DEF Reencodes, Basic, ClientsIn

(* What the step that ends in a stage has established.                     *)
LEMMA StageReached ==
  ASSUME Basic, Counted, NEW c \in Consumer, Process(c), Basic',
         \A f \in Body : Exhausted(f) => Exhausted(f)'
  PROVE  Stage(c)'
  <1>0. /\ raw[c] \in Body /\ raw[c].job \in Job /\ raw[c].attempts \in Nat
        /\ errors[raw[c].job] \in Nat /\ now \in Nat /\ raw[c] # NoBody
    BY ProcessMoves, Payloads, DriverAssumption DEF Basic, ClientsIn, DriverAssumption
  <1>g. \A l : Goto(c, l) => pc'[c] = l
    BY DEF Goto, Basic, ClientsIn
  <1>1. raw[c].attempts <= errors[raw[c].job] /\ Stage(c)
    BY <1>0, CountedMeans DEF Counted
  <1>2. CASE Start(c)
    <2>1. /\ raw' = raw
          /\ \/ pc'[c] = "handling"
             \/ pc'[c] = "discard" /\ raw[c].job \in Malformed \cup Unhandled
      BY <1>2, <1>g DEF Start, ParseJob, resolveHandler
    <2> QED
      BY <2>1 DEF Stage
  <1>3. CASE HandlerOk(c)
    <2>1. pc'[c] = "ack" /\ raw' = raw /\ raw[c].job \in succeeded'
      BY <1>3, <1>g DEF HandlerOk
    <2> QED
      BY <2>1 DEF Stage
  <1>4. CASE HandlerFails(c)
    <2>1. /\ raw' = raw /\ now' = now
          /\ errors' = [errors EXCEPT ![raw[c].job] = @ + 1]
          /\ \/ pc'[c] = "bury" /\ HasFailed(raw[c])
             \/ pc'[c] = "retry"
             \/ pc'[c] = "yield"
      BY <1>4, <1>g DEF HandlerFails
    <2>2. errors'[raw[c].job] = errors[raw[c].job] + 1
      BY <1>0, <2>1 DEF Basic
    <2>3. raw[c].attempts < errors'[raw[c].job]
      BY <1>0, <1>1, <2>2
    <2>4. HasFailed(raw[c]) => Exhausted(raw[c])'
      <3>1. MaxTries[raw[c].job] # Unset => MaxTries[raw[c].job] \in Nat
        BY <1>0, LifecycleAssumption DEF LifecycleAssumption
      <3>2. CASE MaxTries[raw[c].job] # Unset /\ raw[c].attempts >= MaxTries[raw[c].job]
        <4>1. errors'[raw[c].job] > MaxTries[raw[c].job]
          BY <1>0, <1>1, <2>2, <3>1, <3>2
        <4> QED
          BY <2>1, <3>2, <4>1 DEF Exhausted
      <3>3. CASE RetryUntil[raw[c].job] # Unset /\ now >= RetryUntil[raw[c].job]
        BY <2>1, <3>3 DEF Exhausted
      <3> QED
        BY <3>2, <3>3 DEF HasFailed
    <2> QED
      <3>1. raw'[c] = raw[c]
        BY <2>1
      <3>2. pc'[c] \notin {"ack", "discard", "log", "release", "asked"}
        BY <2>1
      <3>3. pc'[c] = "bury" => Exhausted(raw[c])'
        BY <2>1, <2>4
      <3> QED
        BY <2>3, <3>1, <3>2, <3>3 DEF Stage
  <1>5. CASE Bury(c)
    <2>1. pc[c] = "bury" /\ pc'[c] \in {"bury", "log"} /\ UNCHANGED <<raw, now, errors>>
      BY <1>5, <1>g DEF Bury, DeleteRaw
    <2> QED
      BY <1>1, <2>1 DEF Stage, Exhausted
  <1>6. CASE Ack(c)
    <2>1. \/ pc'[c] = "idle"
          \/ pc'[c] = pc[c] /\ pc[c] \in {"ack", "discard"} /\ UNCHANGED <<raw, succeeded>>
      BY <1>6, <1>g DEF Ack, DeleteRaw, Finish
    <2> QED
      BY <1>1, <2>1 DEF Stage
  <1>7. CASE HandlerDeletes(c)
    <2>1. pc[c] = "handling" /\ pc' = pc
      BY <1>7 DEF HandlerDeletes, driverVars
    <2> QED
      BY <2>1 DEF Stage
  <1>8. CASE HandlerReleases(c) \/ Yield(c) \/ Retry(c)
    <2>1. Reencodes(c)
      BY <1>8, ReencodeMoves
    <2>2. raw'[c].attempts = raw[c].attempts + 1 /\ pc'[c] \in {"release", "asked"}
      BY <1>0, <2>1, Payloads DEF Reencodes
    <2>3. raw'[c].attempts # 0
      BY <1>0, <2>2
    <2> QED
      BY <2>2, <2>3 DEF Stage
  <1>9. CASE Release(c)
    <2>1. \/ pc'[c] \in {"idle", "handling"}
          \/ pc'[c] = pc[c] /\ pc[c] \in {"release", "asked"} /\ raw' = raw
      BY <1>9, <1>g DEF Release, Finish
    <2> QED
      BY <1>1, <2>1 DEF Stage
  <1>10. CASE Log(c)
    <2>1. pc'[c] = "idle"
      BY <1>10, <1>g DEF Log, Finish
    <2> QED
      BY <2>1 DEF Stage
  <1> QED
    BY <1>2, <1>3, <1>4, <1>5, <1>6, <1>7, <1>8, <1>9, <1>10 DEF Process

LEMMA CountedProcess ==
  ASSUME Basic, Counted, NEW c \in Consumer, Process(c)
  PROVE  Counted'
  <1>0. Basic'
    BY ProcessBasic
  <1>1. /\ \A b \in Stored : b.attempts <= errors[b.job]
        /\ \A x \in Consumer : raw[x] # NoBody => raw[x].attempts <= errors[raw[x].job]
        /\ \A f \in failedLog : Exhausted(f)
        /\ \A x \in Consumer : Stage(x)
    BY CountedMeans DEF Counted
  <1>2. /\ pc[c] \in ProcessPc /\ raw[c] \in Body
        /\ Others(c) /\ (Keeps(c) \/ Drops(c) \/ Reencodes(c)) /\ now' = now
    BY ProcessMoves
  <1>3. /\ succeeded \subseteq succeeded'
        /\ failedLog' = failedLog \/ (pc[c] = "log" /\ failedLog' = failedLog \cup {raw[c]})
        /\ \A j \in Job : errors[j] \in Nat /\ errors'[j] \in Nat /\ errors[j] <= errors'[j]
    BY ProcessRecords DEF Basic
  <1>4. now \in Nat /\ now <= now'
    BY <1>2, DriverAssumption DEF Basic, ClientsIn, DriverAssumption
  <1>5. \A f \in Body : Exhausted(f) => Exhausted(f)'
    BY <1>0, <1>3, <1>4, ExhaustedStays
  <1>6. ASSUME NEW b \in Body, b.attempts <= errors[b.job]
        PROVE  b.attempts <= errors'[b.job]
    BY <1>3, <1>6, Payloads
  <1>7. \A b \in Stored' : b.attempts <= errors'[b.job]
    <2>1. \A b \in Stored' : b \in Stored \/ b = raw[c]
      BY ProcessStored
    <2>2. Stored \subseteq Body
      BY BodiesAreStored
    <2>3. raw[c] # NoBody
      BY <1>2, Payloads
    <2> QED
      BY <1>1, <1>2, <1>6, <2>1, <2>2, <2>3
  <1>8. \A x \in Consumer : raw'[x] # NoBody => raw'[x].attempts <= errors'[raw'[x].job]
    <2>1. ASSUME NEW x \in Consumer, raw'[x] = raw[x], raw'[x] # NoBody
          PROVE  raw'[x].attempts <= errors'[raw'[x].job]
      <3>1. raw[x] \in Body
        BY <2>1 DEF Basic, ClientsIn
      <3> QED
        BY <1>1, <1>6, <2>1, <3>1
    <2>2. ASSUME Reencodes(c)
          PROVE  raw'[c].attempts <= errors'[raw'[c].job]
      <3>1. /\ raw'[c].attempts = raw[c].attempts + 1 /\ raw'[c].job = raw[c].job
            /\ raw[c].job \in Job /\ raw[c].attempts \in Nat /\ raw[c] # NoBody
        BY <1>2, <2>2, Payloads DEF Reencodes
      <3>2. raw[c].attempts < errors'[raw[c].job]
        <4>1. CASE pc[c] \in {"yield", "retry"}
          <5>1. raw[c].attempts < errors[raw[c].job]
            BY <1>1, <4>1 DEF Stage
          <5> QED
            BY <1>3, <3>1, <5>1
        <4>2. CASE pc[c] = "handling"
          <5>1. HandlerReleases(c)
            <6>g. \A k : Goto(c, k) => pc'[c] = k
              BY DEF Goto, Basic, ClientsIn
            <6>1. ~HandlerOk(c) /\ ~HandlerFails(c) /\ ~HandlerDeletes(c)
              BY <2>2, <4>2, <6>g DEF Reencodes, HandlerOk, HandlerFails, HandlerDeletes, driverVars
            <6> QED
              BY <4>2, <6>1 DEF Process, Start, Ack, Yield, Retry, Release, Bury, Log
          <5>2. errors'[raw[c].job] = errors[raw[c].job] + 1
            BY <3>1, <5>1 DEF HandlerReleases, Basic
          <5>3. raw[c].attempts <= errors[raw[c].job]
            BY <1>1, <3>1
          <5> QED
            BY <1>3, <3>1, <5>2, <5>3
        <4> QED
          BY <2>2, <4>1, <4>2 DEF Reencodes
      <3> QED
        BY <1>3, <3>1, <3>2
    <2>3. \A x \in Consumer : raw'[x] # NoBody => raw'[x] = raw[x] \/ (x = c /\ Reencodes(c))
      BY <1>2 DEF Others, Keeps, Drops
    <2> QED
      BY <2>1, <2>2, <2>3
  <1>9. \A f \in failedLog' : Exhausted(f)'
    <2>1. pc[c] = "log" => Exhausted(raw[c])
      BY <1>1 DEF Stage
    <2> QED
      BY <1>1, <1>2, <1>3, <1>5, <2>1 DEF Basic
  <1>10. ASSUME NEW x \in Consumer PROVE Stage(x)'
    <2>1. CASE x = c
      BY <1>0, <1>5, <2>1, StageReached
    <2>2. CASE x # c
      <3>1. pc'[x] = pc[x] /\ raw'[x] = raw[x]
        BY <1>2, <2>2 DEF Others
      <3>2. pc[x] \in {"yield", "retry", "bury", "log"} => raw[x] \in Body
        BY DEF Basic, ClientsIn, ProcessPc
      <3>3. pc[x] \in {"yield", "retry", "bury", "log"} => raw[x].attempts < errors'[raw[x].job]
        <4>1. ASSUME pc[x] \in {"yield", "retry", "bury", "log"}
              PROVE  /\ raw[x].attempts < errors[raw[x].job]
                     /\ raw[x].job \in Job /\ raw[x].attempts \in Nat
          BY <1>1, <3>2, <4>1, Payloads DEF Stage
        <4> QED
          BY <1>3, <4>1
      <3>4. pc[x] \in {"bury", "log"} => Exhausted(raw[x])'
        BY <1>1, <1>5, <3>1, <3>2 DEF Stage, Exhausted
      <3> QED
        BY <1>1, <1>3, <3>1, <3>3, <3>4 DEF Stage
    <2> QED
      BY <2>1, <2>2
  <1>11. AttemptsAreErrors' /\ ExhaustedBeforeFailed'
    BY <1>7, <1>8, <1>9 DEF AttemptsAreErrors, Held, ExhaustedBeforeFailed, Exhausted
  <1> QED
    BY <1>10, <1>11 DEF Counted

-----------------------------------------------------------------------------
(* No job is dropped in silence.                                           *)
Burying(j) == \E c \in Consumer : pc[c] \in {"bury", "log"} /\ raw[c].job = j

Accounted(j) ==
    \/ j \in succeeded \cup dismissed \cup Malformed \cup Unhandled \cup unlogged \cup forgotten
    \/ \E f \in failedLog : f.job = j
    \/ Burying(j)

LEMMA DropElsewhere ==
  ASSUME Basic, NoSilentDrop, Elsewhere
  PROVE  NoSilentDrop'
  <1>1. /\ UNCHANGED <<settled, succeeded, dismissed>>
        /\ unlogged \subseteq unlogged' /\ forgotten \subseteq forgotten'
        /\ \A f \in failedLog \ failedLog' : f.job \in forgotten'
        /\ \A x \in Consumer : pc[x] \in {"bury", "log"} =>
               \/ pc'[x] = pc[x] /\ raw'[x] = raw[x]
               \/ raw[x].job \in settled => raw[x].job \in unlogged'
    BY ElsewhereMoves
  <1>2. SUFFICES ASSUME NEW j \in settled, Accounted(j) PROVE Accounted(j)'
    BY <1>1 DEF NoSilentDrop, Accounted, Burying
  <1>3. CASE j \in succeeded \cup dismissed \cup Malformed \cup Unhandled \cup unlogged \cup forgotten
    BY <1>1, <1>3 DEF Accounted
  <1>4. CASE \E f \in failedLog : f.job = j
    BY <1>1, <1>4 DEF Accounted
  <1>5. CASE Burying(j)
    <2>1. PICK c \in Consumer : pc[c] \in {"bury", "log"} /\ raw[c].job = j
      BY <1>5 DEF Burying
    <2>2. (pc'[c] \in {"bury", "log"} /\ raw'[c].job = j) \/ j \in unlogged'
      BY <1>1, <2>1
    <2> QED
      BY <2>2 DEF Accounted, Burying
  <1> QED
    BY <1>2, <1>3, <1>4, <1>5 DEF Accounted

(* The worker that deletes a failed job goes on to record it.              *)
LEMMA BuryGoesOn ==
  ASSUME Basic, NEW c \in Consumer, Process(c)
  PROVE  /\ pc[c] = "bury" => pc'[c] \in {"bury", "log"} /\ raw'[c] = raw[c]
         /\ pc[c] = "log" => raw[c] \in failedLog' \/ raw[c].job \in unlogged'
         /\ pc[c] = "handling" /\ settled' # settled => raw[c].job \in dismissed'
  <1>g. \A l : Goto(c, l) => pc'[c] = l
    BY DEF Goto, Basic, ClientsIn
  <1>1. ASSUME pc[c] = "bury" PROVE pc'[c] \in {"bury", "log"} /\ raw'[c] = raw[c]
    <2>1. Bury(c)
      BY <1>1 DEF Process, Start, HandlerOk, HandlerFails, HandlerDeletes, HandlerReleases, Ack,
                  Yield, Retry, Release, Log
    <2> QED
      BY <1>1, <1>g, <2>1 DEF Bury, DeleteRaw
  <1>2. ASSUME pc[c] = "log" PROVE raw[c] \in failedLog' \/ raw[c].job \in unlogged'
    <2>1. Log(c)
      BY <1>2 DEF Process, Start, HandlerOk, HandlerFails, HandlerDeletes, HandlerReleases, Ack,
                  Yield, Retry, Release, Bury
    <2> QED
      BY <2>1 DEF Log, LogRecord
  <1>3. ASSUME pc[c] = "handling", settled' # settled PROVE raw[c].job \in dismissed'
    <2>1. HandlerOk(c) \/ HandlerFails(c) \/ HandlerDeletes(c) \/ HandlerReleases(c)
      BY <1>3 DEF Process, Start, Ack, Yield, Retry, Release, Bury, Log
    <2> QED
      BY <1>3, <2>1 DEF HandlerOk, HandlerFails, HandlerDeletes, HandlerReleases
  <1> QED
    BY <1>1, <1>2, <1>3

LEMMA DropProcess ==
  ASSUME Basic, Counted, NoSilentDrop, NEW c \in Consumer, Process(c)
  PROVE  NoSilentDrop'
  <1>1. raw[c] \in Body /\ Others(c) /\ Touches(c) /\ forgotten' = forgotten
    BY ProcessMoves
  <1>2. /\ succeeded \subseteq succeeded' /\ unlogged \subseteq unlogged'
        /\ failedLog \subseteq failedLog' /\ dismissed \subseteq dismissed'
    BY ProcessRecords
  <1>3. /\ pc[c] = "bury" => pc'[c] \in {"bury", "log"} /\ raw'[c] = raw[c]
        /\ pc[c] = "log" => raw[c] \in failedLog' \/ raw[c].job \in unlogged'
        /\ pc[c] = "handling" /\ settled' # settled => raw[c].job \in dismissed'
    BY BuryGoesOn
  <1>4. ASSUME NEW j, Accounted(j) PROVE Accounted(j)'
    <2>1. CASE j \in succeeded \cup dismissed \cup Malformed \cup Unhandled \cup unlogged \cup forgotten
      BY <1>1, <1>2, <2>1 DEF Accounted
    <2>2. CASE \E f \in failedLog : f.job = j
      BY <1>2, <2>2 DEF Accounted
    <2>3. CASE Burying(j)
      <3>1. PICK x \in Consumer : pc[x] \in {"bury", "log"} /\ raw[x].job = j
        BY <2>3 DEF Burying
      <3>2. CASE x = c /\ pc[c] = "log"
        BY <1>3, <3>1, <3>2 DEF Accounted
      <3>3. CASE x # c \/ pc[c] = "bury"
        <4>1. pc'[x] \in {"bury", "log"} /\ raw'[x].job = j
          BY <1>1, <1>3, <3>1, <3>3 DEF Others
        <4> QED
          BY <4>1 DEF Accounted, Burying
      <3> QED
        BY <3>1, <3>2, <3>3
    <2> QED
      BY <1>4, <2>1, <2>2, <2>3 DEF Accounted
  <1>5. \A j \in settled : Accounted(j)'
    BY <1>4 DEF NoSilentDrop, Accounted, Burying
  <1>6. CASE settled' = settled
    BY <1>5, <1>6 DEF NoSilentDrop, Accounted, Burying
  <1>7. CASE /\ pc[c] \in {"handling", "ack", "discard", "bury"}
             /\ settled' # settled /\ settled' = settled \cup {raw[c].job}
    <2>1. \/ Accounted(raw[c].job) \/ pc[c] = "handling"
      BY <1>7 DEF Counted, Stage, Accounted, Burying
    <2>2. \E j : j = raw[c].job /\ Accounted(j)'
      BY <1>3, <1>4, <1>7, <2>1 DEF Accounted
    <2> QED
      BY <1>5, <1>7, <2>2 DEF NoSilentDrop, Accounted, Burying
  <1> QED
    BY <1>1, <1>6, <1>7 DEF Touches

-----------------------------------------------------------------------------
(* A job that has not failed, was not held too long and not pushed twice,  *)
(* is one payload in one place.                                            *)
LEMMA FreshDispatch ==
  ASSUME Basic, Fresh, NEW k \in Job, Dispatch(k)
  PROVE  Fresh'
  <1> DEFINE q == NewPayload(k)
  <1>1. /\ Stored' = Stored \cup {q} /\ q \in Body /\ q.job = k /\ reserved' = reserved
        /\ \A x : Single(x) /\ (x = q => q \notin Stored) => Single(x)'
        /\ k \notin sent /\ sent' = sent \cup {k}
        /\ UNCHANGED <<now, pc, raw, until, settled, dismissed, errors, loose>>
    BY DispatchMoves
  <1>3. Overrun' = Overrun
    BY <1>1 DEF Overrun
  <1>4. q \notin Stored /\ q # NoBody /\ \A x \in Consumer : raw[x] # q
    BY <1>1, Payloads DEF Basic, Known
  <1>5. Untouched(k)'
    <2>1. Single(q)
      BY <1>4 DEF Single, Stored, Once, Range
    <2>2. Single(q)' /\ Leased(q)'
      BY <1>1, <1>4, <2>1 DEF Leased
    <2>3. k \notin settled
      BY <1>1 DEF Basic
    <2> QED
      BY <1>1, <2>2, <2>3 DEF Untouched
  <1>6. ASSUME NEW j \in sent \ loose, errors[j] = 0 PROVE Untouched(j)'
    <2>1. Untouched(j) /\ NewPayload(j).job = j /\ j # k
      BY <1>1, <1>6, Payloads DEF Fresh, Basic, Known
    <2> HIDE DEF q
    <2>2. NewPayload(j) # q
      BY <1>1, <2>1
    <2>3. Single(NewPayload(j))' /\ Leased(NewPayload(j))'
      BY <1>1, <2>1, <2>2 DEF Untouched, Leased
    <2> QED
      BY <1>1, <2>1, <2>2, <2>3 DEF Untouched, Over
  <1> QED
    BY <1>1, <1>3, <1>5, <1>6 DEF Fresh

LEMMA FreshAgain ==
  ASSUME Basic, Fresh, NEW p \in unanswered, DispatchAgain(p)
  PROVE  Fresh'
  <1> DEFINE q == p.body
  <1>1. /\ Stored' = Stored \cup {q} /\ q \in Body /\ reserved' = reserved
        /\ \A x : Single(x) /\ (x = q => q \notin Duplicates(p)) => Single(x)'
        /\ q \notin Duplicates(p) => q \in Stored
        /\ Watch(Duplicates(p))
        /\ UNCHANGED <<now, pc, raw, until, sent, settled, dismissed, errors>>
    BY AgainMoves
  <1>2. /\ loose \subseteq loose' /\ \A b \in Overrun' : b.job \in loose'
        /\ q \in Duplicates(p) => q.job \in loose'
    BY <1>1 DEF Watch
  <1> HIDE DEF q
  <1>3. ASSUME NEW j \in sent \ loose', errors[j] = 0 PROVE Untouched(j)'
    <2>1. Untouched(j) /\ NewPayload(j).job = j
      BY <1>2, <1>3, Payloads DEF Fresh, Basic, Known
    <2>2. NewPayload(j) = q => q \notin Duplicates(p) /\ q \in Stored
      BY <1>1, <1>2, <1>3, <2>1
    <2>3. Single(NewPayload(j))' /\ Leased(NewPayload(j))'
      BY <1>1, <2>1, <2>2 DEF Untouched, Leased
    <2> QED
      BY <1>1, <2>1, <2>2, <2>3 DEF Untouched, Over
  <1> QED
    BY <1>1, <1>2, <1>3 DEF Fresh

LEMMA FreshFetch ==
  ASSUME Basic, Fresh, NEW c \in Consumer, Fetch(c)
  PROVE  Fresh'
  <1>1. /\ Stored' = Stored /\ UNCHANGED <<sent, settled, dismissed, errors>>
        /\ \A x \in Consumer \ {c} : raw'[x] = raw[x] /\ pc'[x] = pc[x]
        /\ pc[c] \in PopPc
        /\ raw'[c] = raw[c] \/ raw'[c] \in Stored
    BY FetchMoves
  <1>2. PopStep(c) /\ Watch({}) /\ raw[c] = NoBody
    BY <1>1 DEF Fetch, Basic, PopPc, ProcessPc
  <1>3. /\ StoreIn(Body) /\ ClientsIn(Body, Place) /\ Punctual
        /\ PopPc \cup {"held"} \subseteq Place
    BY DEF Basic, Place, ProcessPc
  <1>4. ASSUME NEW j \in sent \ loose, errors[j] = 0 PROVE Untouched(j)'
    <2>1. /\ Untouched(j) /\ NewPayload(j) \in Body /\ NewPayload(j).job = j
          /\ NewPayload(j) # NoBody
      BY <1>4, Payloads DEF Fresh, Basic, Known
    <2>2. NewPayload(j) \notin Overrun
      BY <2>1, <1>4 DEF Fresh
    <2>3. Single(NewPayload(j))' /\ Leased(NewPayload(j))'
      BY <1>2, <1>3, <2>1, <2>2, PopLease DEF Untouched
    <2>4. j \in settled => \A x \in Consumer : raw'[x] = NewPayload(j) => Over(x, j)'
      BY <1>1, <1>2, <2>1 DEF Untouched, Over
    <2> QED
      BY <1>1, <2>1, <2>3, <2>4 DEF Untouched
  <1>5. loose \subseteq loose' /\ \A b \in Overrun' : b.job \in loose'
    BY <1>2 DEF Watch
  <1> QED
    BY <1>1, <1>4, <1>5 DEF Fresh

LEMMA FreshOther ==
  ASSUME Basic, Fresh,
         \/ (\E b \in failedLog : Forget(b)) \/ Flush
         \/ (\E d \in Driver : WorkerCrash(d)) \/ Tick
         \/ UNCHANGED vars
  PROVE  Fresh'
  <1>1. /\ UNCHANGED <<reserved, sent, settled, dismissed, errors>> /\ Stored' = Stored
        /\ \A x : Single(x) => Single(x)'
        /\ \A x \in Consumer : \/ raw'[x] = raw[x] /\ until'[x] = until[x] /\ pc'[x] = pc[x]
                               \/ raw'[x] = NoBody
        /\ loose \subseteq loose'
        /\ \A b \in Overrun' : b.job \in loose'
    <2>1. CASE (\E d \in Driver : WorkerCrash(d)) \/ Tick
      <3>1. /\ UNCHANGED <<store, sent, settled, dismissed, errors>> /\ Stored' = Stored
            /\ \A x : Single(x) => Single(x)'
            /\ \A x \in Consumer : \/ raw'[x] = raw[x] /\ until'[x] = until[x] /\ pc'[x] = pc[x]
                                   \/ raw'[x] = NoBody
        BY <2>1, EnvironmentBasic
      <3>2. CASE Tick
        BY <3>1, <3>2 DEF Tick, Watch, store
      <3>3. ASSUME NEW d \in Driver, WorkerCrash(d)
            PROVE  loose' = loose /\ now' = now
        BY <3>3 DEF WorkerCrash, Crash
      <3>4. CASE \E d \in Driver : WorkerCrash(d)
        <4>1. Overrun' \subseteq Overrun
          BY <3>1, <3>3, <3>4 DEF Overrun
        <4> QED
          BY <3>1, <3>3, <3>4, <4>1 DEF Fresh, store
      <3> QED
        BY <2>1, <3>2, <3>4
    <2>2. CASE (\E b \in failedLog : Forget(b)) \/ Flush \/ UNCHANGED vars
      <3>1. UNCHANGED <<store, driverVars, sent, settled, dismissed, errors, loose>>
        BY <2>2 DEF Forget, Flush, vars, history
      <3>2. UNCHANGED <<ready, delayed, reserved, now, pc, raw, until>>
        BY <3>1 DEF store, driverVars
      <3>3. Overrun' = Overrun /\ Stored' = Stored
        BY <3>2 DEF Overrun, Stored
      <3>4. \A x : Single(x) => Single(x)'
        BY <3>2 DEF Single
      <3> QED
        BY <3>1, <3>2, <3>3, <3>4 DEF Fresh
    <2> QED
      BY <2>1, <2>2
  <1>3. ASSUME NEW j \in sent \ loose, errors[j] = 0 PROVE Untouched(j)'
    <2>1. Untouched(j) /\ NewPayload(j) # NoBody
      BY <1>3, Payloads DEF Fresh, Basic, Known
    <2>2. Leased(NewPayload(j))'
      BY <1>1, <2>1 DEF Untouched, Leased
    <2> QED
      BY <1>1, <2>1, <2>2 DEF Untouched, Over
  <1> QED
    BY <1>1, <1>3 DEF Fresh

(* Another job's payload is untouched by what a worker does with the one   *)
(* it holds.                                                               *)
LEMMA FreshNeighbour ==
  ASSUME Basic, NEW c \in Consumer, Process(c), NEW j \in Job, Untouched(j), raw[c].job # j
  PROVE  Untouched(j)'
  <1> DEFINE r == raw[c]
             p == NewPayload(j)
  <1>1. /\ StoreIn(Body) /\ r \in Body /\ stamp[c] \in Nat
        /\ Others(c) /\ (Keeps(c) \/ Drops(c) \/ Reencodes(c)) /\ Touches(c)
    BY ProcessMoves DEF Basic, ClientsIn
  <1>2. p \in Body /\ p.job = j /\ p # NoBody /\ p # r /\ p # Again(r)
    BY <1>1, Payloads
  <1>3. /\ dismissed \subseteq dismissed' /\ (j \in settled' => j \in settled)
    BY ProcessRecords, ProcessStored
  <1>4. Single(p) /\ Leased(p)
    BY DEF Untouched
  <1> HIDE DEF r, p
  <1>5. \A x \in Consumer : raw'[x] = p => /\ x # c /\ raw[x] = p
                                           /\ until'[x] = until[x] /\ pc'[x] = pc[x]
    BY <1>1, <1>2 DEF Others, Keeps, Drops, Reencodes, r
  <1>6. /\ Single(p)' /\ (p \in Stored' => p \in Stored)
        /\ p \in DOMAIN reserved => p \in DOMAIN reserved' /\ reserved'[p] = reserved[p]
    <2>1. CASE UNCHANGED <<store, settled>>
      BY <1>4, <2>1 DEF store, Single, Stored
    <2>2. CASE LuaDelete(r)
      BY <1>1, <1>2, <1>4, <2>2, DeleteRemoves
    <2>3. CASE LuaRelease(r, stamp[c])
      BY <1>1, <1>2, <1>4, <2>3, ReleaseStores
    <2> QED
      BY <1>1, <2>1, <2>2, <2>3 DEF Touches, r
  <1>7. Leased(p)'
    BY <1>4, <1>5, <1>6 DEF Leased
  <1> QED
    BY <1>3, <1>5, <1>6, <1>7 DEF Untouched, Over, p

(* The first run of a job, up to the deletion.                             *)
LEMMA FreshRun ==
  ASSUME Basic, NEW c \in Consumer, NEW j \in Job, Untouched(j), raw[c] = NewPayload(j),
         Start(c) \/ HandlerOk(c) \/ HandlerDeletes(c) \/ Ack(c)
  PROVE  Untouched(j)'
  <1> DEFINE p == NewPayload(j)
  <1>0. p \in Body /\ p.job = j /\ p # NoBody /\ StoreIn(Body)
    BY Payloads DEF Basic
  <1>1. Process(c)
    BY DEF Process
  <1>2. /\ Single(p) /\ Leased(p) /\ \A x \in Consumer \ {c} : raw[x] # p
        /\ j \in settled => p \notin Stored /\ Over(c, j)
    BY DEF Untouched, Leased
  <1>3. Others(c) /\ (Keeps(c) \/ Drops(c))
    <2>1. Others(c) /\ (Keeps(c) \/ Drops(c) \/ Reencodes(c))
      BY <1>1, ProcessMoves
    <2>2. ~Reencodes(c)
      <3>g. \A l : Goto(c, l) => pc'[c] = l
        BY DEF Goto, Basic, ClientsIn
      <3>1. pc'[c] \notin {"release", "asked"}
        BY <3>g DEF Start, HandlerOk, HandlerDeletes, Ack, DeleteRaw, Finish, driverVars
      <3> QED
        BY <3>1 DEF Reencodes
    <2> QED
      BY <2>1, <2>2
  <1> HIDE DEF p
  <1>4. \A x \in Consumer \ {c} : raw'[x] # p
    BY <1>2, <1>3 DEF Others
  <1>5. ASSUME LuaDelete(p) PROVE Single(p)' /\ p \notin Stored'
    <2>1. /\ Stored' \subseteq Stored /\ \A x : Single(x) => Single(x)'
          /\ Single(p) /\ p \in DOMAIN reserved => p \notin Stored'
      BY <1>0, <1>5, DeleteRemoves
    <2>2. p \in Stored => p \in DOMAIN reserved
      BY <1>2 DEF Leased, p
    <2> QED
      BY <1>2, <2>1, <2>2
  <1>6. ASSUME UNCHANGED store
        PROVE  Single(p)' /\ Stored' = Stored /\ reserved' = reserved
    BY <1>2, <1>6 DEF store, Single, Stored
  <1>7. ASSUME LuaDelete(p) \/ UNCHANGED store PROVE Single(p)' /\ Leased(p)'
    <2>1. raw'[c] = p => raw[c] = p /\ until'[c] = until[c]
      BY <1>0, <1>3 DEF Keeps, Drops, p
    <2>2. CASE LuaDelete(p)
      BY <1>4, <1>5, <2>2 DEF Leased
    <2>3. CASE UNCHANGED store
      BY <1>2, <1>4, <1>6, <2>1, <2>3 DEF Leased
    <2> QED
      BY <1>7, <2>2, <2>3
  <1>8. ASSUME LuaDelete(p) \/ UNCHANGED store,
               j \in settled' => p \notin Stored' /\ (raw'[c] = p => Over(c, j)')
        PROVE  Untouched(j)'
    BY <1>4, <1>7, <1>8 DEF Untouched, p
  <1>g. \A l : Goto(c, l) => pc'[c] = l
    BY DEF Goto, Basic, ClientsIn
  <1>9. CASE Start(c)
    <2>1. UNCHANGED <<store, settled, dismissed>> /\ pc[c] = "held"
      BY <1>9 DEF Start, history
    <2>2. j \notin settled
      BY <1>2, <2>1 DEF Over
    <2> QED
      BY <1>8, <2>1, <2>2
  <1>10. CASE HandlerOk(c)
    <2>1. UNCHANGED <<store, settled>> /\ pc'[c] = "ack"
      BY <1>10, <1>g DEF HandlerOk
    <2>2. Over(c, j)'
      BY <2>1 DEF Over
    <2> QED
      BY <1>2, <1>6, <1>8, <2>1, <2>2
  <1>11. CASE HandlerDeletes(c)
    <2>1. LuaDelete(p) /\ j \in dismissed' /\ pc'[c] = "handling"
      BY <1>0, <1>11 DEF HandlerDeletes, driverVars, p
    <2>2. Over(c, j)'
      BY <2>1 DEF Over
    <2> QED
      BY <1>5, <1>8, <2>1, <2>2
  <1>12. CASE Ack(c)
    <2>1. /\ LuaDelete(p) \/ (UNCHANGED <<store, settled>> /\ Finish(c))
          /\ Finish(c) \/ (pc' = pc /\ raw' = raw)
          /\ pc[c] \in {"ack", "discard"}
      BY <1>12 DEF Ack, DeleteRaw, p
    <2>2. raw'[c] = p => Over(c, j)'
      <3>1. Finish(c) => raw'[c] = NoBody
        BY DEF Finish, Basic, ClientsIn
      <3> QED
        BY <1>0, <2>1, <3>1 DEF Over
    <2> QED
      BY <1>2, <1>5, <1>6, <1>8, <2>1, <2>2
  <1> QED
    BY <1>9, <1>10, <1>11, <1>12

LEMMA FreshProcess ==
  ASSUME Basic, Counted, Fresh, NEW c \in Consumer, Process(c)
  PROVE  Fresh'
  <1>1. /\ raw[c] \in Body /\ raw[c].job \in Job /\ raw[c].attempts \in Nat
        /\ raw[c] # NoBody /\ Again(raw[c]).job = raw[c].job
        /\ Others(c) /\ (Keeps(c) \/ Drops(c) \/ Reencodes(c))
        /\ UNCHANGED <<now, sent, loose>>
    BY ProcessMoves, Payloads
  <1>2. /\ \A j \in Job : errors[j] \in Nat /\ errors'[j] \in Nat /\ errors[j] <= errors'[j]
    BY ProcessRecords DEF Basic
  <1>3. raw[c].attempts <= errors[raw[c].job] /\ Stage(c)
    BY <1>1, CountedMeans DEF Counted
  <1>4. \A b \in Overrun' : b.job \in loose'
    <2>1. SUFFICES ASSUME NEW x \in Consumer, raw'[x] # NoBody, until'[x] <= now'
                   PROVE  raw'[x].job \in loose
      BY <1>1 DEF Overrun
    <2>2. raw[x] # NoBody /\ until[x] <= now /\ raw'[x].job = raw[x].job
      BY <1>1, <2>1 DEF Others, Keeps, Drops, Reencodes
    <2> QED
      BY <2>2 DEF Fresh, Overrun
  <1>5. ASSUME NEW j \in sent \ loose, errors'[j] = 0 PROVE Untouched(j)'
    <2>1. errors[j] = 0 /\ j \in Job
      BY <1>2, <1>5 DEF Basic, Known
    <2>2. Untouched(j)
      BY <1>5, <2>1 DEF Fresh
    <2>3. CASE raw[c].job # j
      BY <2>1, <2>2, <2>3, FreshNeighbour
    <2>4. CASE raw[c].job = j
      <3>1. raw[c].attempts = 0
        BY <1>1, <1>3, <2>1, <2>4
      <3>2. pc[c] \notin {"yield", "retry", "bury", "log", "release", "asked"}
        BY <1>3, <2>1, <2>4, <3>1 DEF Stage
      <3>3. raw[c] = NewPayload(j)
        BY <1>1, <2>4, <3>1, Payloads
      <3>4. ~HandlerFails(c) /\ ~HandlerReleases(c)
        BY <1>2, <1>5, <2>1, <2>4 DEF HandlerFails, HandlerReleases, Basic
      <3>5. Start(c) \/ HandlerOk(c) \/ HandlerDeletes(c) \/ Ack(c)
        BY <3>2, <3>4 DEF Process, Yield, Retry, Release, Bury, Log
      <3> QED
        BY <2>1, <2>2, <3>3, <3>5, FreshRun
    <2> QED
      BY <2>3, <2>4
  <1> QED
    BY <1>1, <1>4, <1>5 DEF Fresh

-----------------------------------------------------------------------------
(* The invariant holds of every behaviour.                                 *)
LEMMA LifeInit == Init => LifeInv
  <1> SUFFICES ASSUME Init PROVE LifeInv
    OBVIOUS
  <1>1. /\ ready = <<>> /\ delayed = Empty /\ reserved = Empty /\ notify = 0
        /\ now = 0 /\ lastMigratedAt = [d \in Driver |-> Never]
        /\ stamp = [c \in Consumer |-> 0] /\ pc = [c \in Consumer |-> "idle"]
        /\ raw = [c \in Consumer |-> NoBody] /\ until = [c \in Consumer |-> 0] /\ faults = 0
        /\ unanswered = {} /\ dismissed = {}
        /\ failedLog = {} /\ sent = {} /\ settled = {} /\ succeeded = {}
        /\ errors = [j \in Job |-> 0] /\ unlogged = {} /\ forgotten = {} /\ loose = {}
    BY DEF Init, DriverInit, EmptyStore
  <1>2. Stored = {} /\ Held = {} /\ Overrun = {}
    BY <1>1 DEF Stored, Range, Empty, Held, Overrun
  <1>3. StoreIn(Body)
    <2>1. ZSet(Empty, Body)
      BY FS_EmptySet DEF ZSet, Empty
    <2> QED
      BY <1>1, <2>1 DEF StoreIn
  <1>4. ClientsIn(Body, Place) /\ Punctual
    BY <1>1, DriverAssumption DEF DriverAssumption, ClientsIn, Punctual, Place, PopPc
  <1>5. Basic
    BY <1>1, <1>2, <1>3, <1>4 DEF Basic, Known, Pushed, ProcessPc
  <1>6. Counted
    BY <1>1, <1>2 DEF Counted, AttemptsAreErrors, ExhaustedBeforeFailed, Stage
  <1>7. NoJobLost /\ NoSilentDrop /\ Fresh
    BY <1>1, <1>2 DEF NoJobLost, NoSilentDrop, Fresh
  <1> QED
    BY <1>5, <1>6, <1>7 DEF LifeInv

LEMMA LifeNext == LifeInv /\ [Next]_vars => LifeInv'
  <1> SUFFICES ASSUME LifeInv, [Next]_vars PROVE LifeInv'
    OBVIOUS
  <1>0. Basic /\ NoJobLost /\ Counted /\ NoSilentDrop /\ Fresh
    BY DEF LifeInv
  <1>1. Elsewhere \/ \E c \in Consumer : Process(c)
    BY DEF Next, Elsewhere
  <1>2. NoJobLost'
    BY <1>0, <1>1, JobsKept
  <1>3. CASE Elsewhere
    <2>1. Basic' /\ Counted' /\ NoSilentDrop'
      BY <1>0, <1>3, ElsewhereMoves, CountedElsewhere, DropElsewhere
    <2>2. Fresh'
      BY <1>0, <1>3, FreshDispatch, FreshAgain, FreshFetch, FreshOther DEF Elsewhere
    <2> QED
      BY <1>2, <2>1, <2>2 DEF LifeInv
  <1>4. ASSUME NEW c \in Consumer, Process(c) PROVE LifeInv'
    BY <1>0, <1>2, <1>4, ProcessBasic, CountedProcess, DropProcess, FreshProcess DEF LifeInv
  <1> QED
    BY <1>1, <1>3, <1>4

LEMMA LifeAlways == Spec => []LifeInv
  BY LifeInit, LifeNext, PTL DEF Spec

(* The queue, the workers, the failed-job table and the histories keep     *)
(* their types, and a worker is past Pop exactly while it holds a job.     *)
THEOREM LifecycleTypeOK == Spec => []TypeOK
  <1>1. LifeInv => TypeOK
    BY DEF LifeInv, Basic, StoreIn, ZSet, ClientsIn, Place, Pushed, TypeOK
  <1> QED
    BY <1>1, LifeAlways, PTL

(* A dispatched job has a payload in the queue until a worker that         *)
(* processed it deleted one: retries, migrations, failed calls, calls that *)
(* are sent again and crashes lose no job.                                 *)
THEOREM JobsAreNotLost == Spec => []NoJobLost
  <1>1. LifeInv => NoJobLost
    BY DEF LifeInv
  <1> QED
    BY <1>1, LifeAlways, PTL

(* A job that was deleted succeeded, was deleted by its handler, could not *)
(* be handled, or is recorded as failed unless the worker died before it   *)
(* did, the record itself failed or was removed.                           *)
THEOREM DropsAreAccounted == Spec => []NoSilentDrop
  <1>1. LifeInv => NoSilentDrop
    BY DEF LifeInv
  <1> QED
    BY <1>1, LifeAlways, PTL

(* Only a job that was given all its tries, or whose deadline has passed,  *)
(* is recorded as failed.                                                  *)
THEOREM FailedMeansExhausted == Spec => []ExhaustedBeforeFailed
  <1>1. LifeInv => ExhaustedBeforeFailed
    BY DEF LifeInv, Counted
  <1> QED
    BY <1>1, LifeAlways, PTL

(* No payload counts more attempts than the pipeline returned errors for   *)
(* its job and its handler called Release.                                 *)
THEOREM AttemptsAreEarned == Spec => []AttemptsAreErrors
  <1>1. LifeInv => AttemptsAreErrors
    BY DEF LifeInv, Counted
  <1> QED
    BY <1>1, LifeAlways, PTL

(* Of a job whose first run succeeded, or whose handler deleted it,        *)
(* nothing is left in the queue and nobody runs it again, provided that    *)
(* its holder was in time, its push was not sent twice and its handler did *)
(* not release it: whatever is lost, or sent again, when it is deleted.    *)
THEOREM FirstSuccessEnds == Spec => []FirstSuccessIsFinal
  <1>1. ASSUME LifeInv, NEW j \in settled \ loose, errors[j] = 0
        PROVE  /\ \A b \in Stored : b.job # j
               /\ \A c \in Consumer : raw[c] # NoBody /\ raw[c].job = j => Over(c, j)
    <2>1. Untouched(j) /\ j \in settled
      BY <1>1 DEF LifeInv, Basic, Fresh
    <2>2. \A b \in Body : b.job = j /\ b.attempts <= errors[b.job] => b = NewPayload(j)
      <3> TAKE b \in Body
      <3>1. b.attempts \in Nat
        BY Payloads
      <3>2. b.job = j /\ b.attempts <= errors[b.job] => b.attempts = 0
        BY <1>1, <3>1
      <3> QED
        BY <3>2, Payloads
    <2>3. \A b \in Stored : b \in Body /\ b.attempts <= errors[b.job]
      BY <1>1, BodiesAreStored, CountedMeans DEF LifeInv, Counted
    <2>4. \A c \in Consumer : raw[c] # NoBody =>
             raw[c] \in Body /\ raw[c].attempts <= errors[raw[c].job]
      BY <1>1, CountedMeans DEF LifeInv, Counted, Basic, ClientsIn
    <2> QED
      BY <2>1, <2>2, <2>3, <2>4 DEF Untouched
  <1>2. LifeInv => FirstSuccessIsFinal
    BY <1>1 DEF FirstSuccessIsFinal, JobStored, Over
  <1> QED
    BY <1>2, LifeAlways, PTL

-----------------------------------------------------------------------------
(* How far the retries of a job go. A payload is within the tries of its   *)
(* job, and one that is retried has a try left.                            *)
Within(b) == MaxTries[b.job] # Unset => b.attempts <= MaxTries[b.job]

WithinTries == \A b \in Stored \cup Held : Within(b)

TriesInv ==
    /\ \A b \in Stored : Within(b)
    /\ \A c \in Consumer : raw[c] # NoBody => Within(raw[c])
    /\ \A c \in Consumer : pc[c] = "retry" => Within(Again(raw[c]))
    /\ \A c \in Consumer : pc[c] \notin {"yield", "asked"}

LEMMA TriesElsewhere ==
  ASSUME Basic, TriesInv, Elsewhere
  PROVE  TriesInv'
  <1>1. /\ Basic'
        /\ \A b \in Stored' : b \in Stored \/ (b.attempts = 0 /\ b.job \in sent')
        /\ \A x \in Consumer :
               \/ pc'[x] = pc[x] /\ raw'[x] = raw[x]
               \/ pc'[x] \in PopPc /\ raw'[x] = NoBody
               \/ pc'[x] = "held" /\ raw'[x] \in Stored
    BY ElsewhereMoves
  <1>2. \A b : b.attempts = 0 /\ b.job \in Job => Within(b)
    BY LifecycleAssumption DEF LifecycleAssumption, Within
  <1>3. sent' \subseteq Job
    BY <1>1 DEF Basic, Known
  <1>4. \A b \in Stored' : Within(b)
    BY <1>1, <1>2, <1>3 DEF TriesInv
  <1>5. \A x \in Consumer : raw'[x] # NoBody => Within(raw'[x])
    BY <1>1 DEF TriesInv
  <1>6. \A x \in Consumer : pc'[x] \in {"retry", "yield", "asked"} => pc'[x] = pc[x] /\ raw'[x] = raw[x]
    BY <1>1 DEF PopPc
  <1> QED
    BY <1>4, <1>5, <1>6 DEF TriesInv, Within

LEMMA TriesProcess ==
  ASSUME YieldDelay = {}, Basic, TriesInv, NEW c \in Consumer, Process(c)
  PROVE  TriesInv'
  <1>1. /\ pc[c] \in ProcessPc /\ raw[c] \in Body /\ raw[c] # NoBody
        /\ Others(c) /\ (Keeps(c) \/ Drops(c) \/ Reencodes(c))
    BY ProcessMoves, Payloads
  <1>2. \A b \in Stored' : b \in Stored \/ b = raw[c]
    BY ProcessStored
  <1>3. \A b \in Stored' : Within(b)
    BY <1>1, <1>2 DEF TriesInv
  <1>g. \A l : Goto(c, l) => pc'[c] = l
    BY DEF Goto, Basic, ClientsIn
  <1>4. /\ ~HandlerReleases(c) /\ ~Yield(c)
        /\ pc'[c] \notin {"yield", "asked"}
        /\ pc'[c] = "retry" => HandlerFails(c) /\ ~HasFailed(raw[c])
    <2>1. ~HandlerReleases(c) /\ ~Yield(c)
      BY DEF HandlerReleases, Yield
    <2>2. CASE Start(c) \/ HandlerOk(c) \/ HandlerFails(c)
      BY <1>g, <2>1, <2>2 DEF Start, HandlerOk, HandlerFails
    <2>3. CASE HandlerDeletes(c)
      BY <2>1, <2>3 DEF HandlerDeletes, driverVars
    <2>4. CASE Ack(c) \/ Bury(c) \/ Log(c)
      BY <1>g, <2>1, <2>4 DEF Ack, Bury, Log, DeleteRaw, Finish
    <2>5. CASE Retry(c)
      BY <2>1, <2>5 DEF Retry, Reencode, Basic, ClientsIn
    <2>6. CASE Release(c)
      <3>1. pc[c] = "release"
        BY <2>6 DEF Release, TriesInv
      <3> QED
        BY <1>g, <2>1, <2>6, <3>1 DEF Release, Finish
    <2> QED
      BY <2>1, <2>2, <2>3, <2>4, <2>5, <2>6 DEF Process
  <1>5. Reencodes(c) => pc[c] = "retry"
    <2>1. ASSUME Reencodes(c), pc[c] = "handling" PROVE FALSE
      <3>1. HandlerOk(c) \/ HandlerFails(c) \/ HandlerDeletes(c)
        BY <1>4, <2>1 DEF Process, Start, Ack, Retry, Release, Bury, Log
      <3> QED
        BY <1>g, <2>1, <3>1 DEF Reencodes, HandlerOk, HandlerFails, HandlerDeletes, driverVars
    <2> QED
      BY <2>1 DEF Reencodes, TriesInv
  <1>6. \A x \in Consumer : raw'[x] # NoBody => Within(raw'[x])
    BY <1>1, <1>5 DEF Others, Keeps, Drops, Reencodes, TriesInv
  <1>7. ~HasFailed(raw[c]) => Within(Again(raw[c]))
    <2>1. /\ raw[c].job \in Job /\ raw[c].attempts \in Nat
          /\ Again(raw[c]).job = raw[c].job /\ Again(raw[c]).attempts = raw[c].attempts + 1
      BY <1>1, Payloads
    <2>2. MaxTries[raw[c].job] # Unset => MaxTries[raw[c].job] \in Nat
      BY <2>1, LifecycleAssumption DEF LifecycleAssumption
    <2> QED
      BY <2>1, <2>2 DEF HasFailed, Within
  <1>8. pc'[c] = "retry" => raw'[c] = raw[c]
    BY <1>1 DEF Keeps, Drops, Reencodes
  <1>9. \A x \in Consumer : /\ pc'[x] \notin {"yield", "asked"}
                            /\ pc'[x] = "retry" => Within(Again(raw'[x]))
    BY <1>1, <1>4, <1>7, <1>8 DEF Others, TriesInv
  <1> QED
    BY <1>3, <1>6, <1>9 DEF TriesInv, Within, Again

(* With no middleware and no handler that releases jobs of its own (that   *)
(* skips HasFailed and still costs an attempt), no payload of a job with a *)
(* MaxTries is ever beyond it: however the runs, crashes, calls that are   *)
(* sent again and second deliveries of its payloads interleave, Release    *)
(* re-encodes a job at most MaxTries times over.                           *)
THEOREM TriesAreKept ==
    ASSUME YieldDelay = {}
    PROVE  Spec => []WithinTries
  <1>1. Init => TriesInv
    <2> SUFFICES ASSUME Init PROVE TriesInv
      OBVIOUS
    <2>1. ready = <<>> /\ delayed = Empty /\ reserved = Empty
          /\ pc = [c \in Consumer |-> "idle"] /\ raw = [c \in Consumer |-> NoBody]
      BY DEF Init, DriverInit, EmptyStore
    <2>2. Stored = {}
      BY <2>1 DEF Stored, Range, Empty
    <2> QED
      BY <2>1, <2>2 DEF TriesInv
  <1>2. ASSUME LifeInv, TriesInv, [Next]_vars PROVE TriesInv'
    <2>1. Elsewhere \/ \E c \in Consumer : Process(c)
      BY <1>2 DEF Next, Elsewhere
    <2> QED
      BY <1>2, <2>1, TriesElsewhere, TriesProcess DEF LifeInv
  <1>3. TriesInv => WithinTries
    BY DEF TriesInv, WithinTries, Held
  <1> QED
    BY <1>1, <1>2, <1>3, LifeAlways, PTL DEF Spec

(* What Release leaves behind is bounded: a job has at most one payload in *)
(* the queue for each error of its pipeline and each release of its        *)
(* handler, and the one it was dispatched with.                            *)
THEOREM CopiesAreBounded ==
    Spec => [](\A j \in sent : Cardinality(JobStored(j)) <= errors[j] + 1)
  <1>1. ASSUME LifeInv, NEW j \in sent
        PROVE  Cardinality(JobStored(j)) <= errors[j] + 1
    <2>1. j \in Job /\ errors[j] \in Nat
      BY <1>1 DEF LifeInv, Basic, Known
    <2> DEFINE f == [b \in JobStored(j) |-> b.attempts]
               T == 0..errors[j]
    <2>2. \A b \in JobStored(j) : b \in Body /\ b.job = j /\ b.attempts \in T
      <3>1. JobStored(j) \subseteq Body
        BY <1>1, BodiesAreStored DEF LifeInv, JobStored
      <3>2. \A b \in JobStored(j) : b.job = j /\ b.attempts <= errors[j]
        BY <1>1 DEF LifeInv, Counted, AttemptsAreErrors, JobStored
      <3> QED
        BY <2>1, <3>1, <3>2, Payloads
    <2>3. f \in [JobStored(j) -> T]
      BY <2>2
    <2>4. \A a, b \in JobStored(j) : f[a] = f[b] => a = b
      BY <2>2 DEF Body
    <2>5. f \in Injection(JobStored(j), T)
      BY <2>3, <2>4 DEF Injection, IsInjective
    <2>6. IsFiniteSet(T) /\ Cardinality(T) = errors[j] + 1
      <3>1. \A n \in Nat : IsFiniteSet(0..n) /\ Cardinality(0..n) = n + 1
        <4> TAKE n \in Nat
        <4>1. 0 \in Int /\ n \in Int /\ ~(0 > n) /\ n - 0 + 1 = n + 1
          OBVIOUS
        <4> QED
          BY <4>1, FS_Interval
      <3> QED
        BY <2>1, <3>1
    <2> HIDE DEF f, T
    <2> QED
      BY <2>5, <2>6, FS_Injection
  <1>2. LifeInv => \A j \in sent : Cardinality(JobStored(j)) <= errors[j] + 1
    BY <1>1
  <1> QED
    BY <1>2, LifeAlways, PTL

-----------------------------------------------------------------------------
(* The delay of a retry. The counter is behind the errors of the job, so   *)
(* the entry of the list that BackoffDuration takes is not behind the one  *)
(* that is due.                                                            *)
LEMMA DelayOfRetry ==
  ASSUME LifeInv, NEW c \in Consumer, pc[c] = "retry", Backoff[raw[c].job] # <<>>
  PROVE  LET v == Backoff[raw[c].job]
             n == errors[raw[c].job]
             due == IF n <= Len(v) THEN n ELSE Len(v)
         IN  /\ v \in Seq(Nat) /\ due \in 1..Len(v)
             /\ \E i \in 1..due : BackoffDuration(raw[c]) = v[i]
  <1>1. raw[c] \in Body /\ raw[c].job \in Job /\ raw[c].attempts \in Nat
    BY Payloads DEF LifeInv, Basic, ClientsIn, ProcessPc
  <1>2. errors[raw[c].job] \in Nat /\ raw[c].attempts < errors[raw[c].job]
    BY <1>1 DEF LifeInv, Basic, Counted, Stage
  <1> DEFINE v == Backoff[raw[c].job]
             a == raw[c].attempts
             n == errors[raw[c].job]
             due == IF n <= Len(v) THEN n ELSE Len(v)
             idx == IF a - 1 < 0 THEN 0 ELSE IF a - 1 >= Len(v) THEN Len(v) - 1 ELSE a - 1
  <1>3. v \in Seq(Nat) /\ v # <<>>
    BY <1>1, LifecycleAssumption DEF LifecycleAssumption
  <1>4. Len(v) \in Nat /\ Len(v) > 0
    BY <1>3
  <1>5. BackoffDuration(raw[c]) = v[idx + 1]
    BY DEF BackoffDuration, BackoffSeconds
  <1> HIDE DEF v, a, n
  <1>6. due \in 1..Len(v) /\ idx + 1 \in 1..due
    BY <1>1, <1>2, <1>4 DEF a, n
  <1> HIDE DEF idx, due
  <1>7. v \in Seq(Nat) /\ due \in 1..Len(v) /\ \E i \in 1..due : BackoffDuration(raw[c]) = v[i]
    BY <1>3, <1>5, <1>6
  <1> QED
    BY <1>7 DEF due, v, n

(* A backoff of one number, as WithBackoff is given it, is applied to      *)
(* every retry as documented.                                              *)
THEOREM SingleBackoffHolds ==
    ASSUME \A j \in Job : Len(Backoff[j]) = 1
    PROVE  Spec => []ProgressiveBackoff
  <1>1. ASSUME LifeInv, NEW c \in Consumer, pc[c] = "retry"
        PROVE  LET v == Backoff[raw[c].job]
                   n == errors[raw[c].job]
               IN  BackoffDuration(raw[c]) = v[IF n <= Len(v) THEN n ELSE Len(v)]
    <2> DEFINE v == Backoff[raw[c].job]
               n == errors[raw[c].job]
               due == IF n <= Len(v) THEN n ELSE Len(v)
    <2>1. raw[c].job \in Job
      BY <1>1, Payloads DEF LifeInv, Basic, ClientsIn, ProcessPc
    <2>2. Len(v) = 1 /\ v # <<>>
      BY <2>1
    <2>3. due \in 1..1 /\ \E i \in 1..due : BackoffDuration(raw[c]) = v[i]
      BY <1>1, <2>2, DelayOfRetry
    <2> HIDE DEF due, v, n
    <2>4. BackoffDuration(raw[c]) = v[due]
      BY <2>3
    <2> QED
      BY <2>4 DEF due, v, n
  <1>2. LifeInv => ProgressiveBackoff
    BY <1>1 DEF ProgressiveBackoff
  <1> QED
    BY <1>2, LifeAlways, PTL

(* A list of growing delays never makes a retry wait longer than the delay *)
(* that is due by the documentation: the counter is behind, so the code    *)
(* errs towards the earlier, shorter delays.                               *)
THEOREM BackoffIsNotLonger ==
    ASSUME \A j \in Job : \A k \in 1..Len(Backoff[j]) :
               \A i \in 1..k : Backoff[j][i] <= Backoff[j][k]
    PROVE  Spec => [](\A c \in Consumer :
               pc[c] = "retry" /\ Backoff[raw[c].job] # <<>> =>
                   LET v == Backoff[raw[c].job]
                       n == errors[raw[c].job]
                   IN  BackoffDuration(raw[c]) <= v[IF n <= Len(v) THEN n ELSE Len(v)])
  <1> DEFINE NotLonger(c) ==
          LET v == Backoff[raw[c].job]
              n == errors[raw[c].job]
          IN  BackoffDuration(raw[c]) <= v[IF n <= Len(v) THEN n ELSE Len(v)]
  <1>1. ASSUME LifeInv, NEW c \in Consumer, pc[c] = "retry", Backoff[raw[c].job] # <<>>
        PROVE  NotLonger(c)
    <2> DEFINE v == Backoff[raw[c].job]
               n == errors[raw[c].job]
               due == IF n <= Len(v) THEN n ELSE Len(v)
    <2>1. raw[c].job \in Job
      BY <1>1, Payloads DEF LifeInv, Basic, ClientsIn, ProcessPc
    <2>2. due \in 1..Len(v) /\ \E i \in 1..due : BackoffDuration(raw[c]) = v[i]
      BY <1>1, DelayOfRetry
    <2>3. \A k \in 1..Len(v) : \A i \in 1..k : v[i] <= v[k]
      BY <2>1
    <2> HIDE DEF due, v, n
    <2>4. BackoffDuration(raw[c]) <= v[due]
      BY <2>2, <2>3
    <2> QED
      BY <2>4 DEF due, v, n
  <1>2. LifeInv => \A c \in Consumer :
            pc[c] = "retry" /\ Backoff[raw[c].job] # <<>> => NotLonger(c)
    BY <1>1
  <1> QED
    BY <1>2, LifeAlways, PTL
=============================================================================
