----------------------------- MODULE JobLifecycle -----------------------------
(***************************************************************************)
(* What a Worker does with a popped job: process and handleFailure of      *)
(* pkg/queue/worker.go, the Job methods they call (pkg/queue/job.go) and   *)
(* the backoff rule (pkg/queue/payload.go), on top of the Redis driver.    *)
(*                                                                         *)
(* A payload is the job it describes and its attempts counter: Release     *)
(* re-encodes the payload with the counter incremented, so it is another   *)
(* string, another member of the sorted sets. The remaining fields of a    *)
(* payload never change and are constants of the job.                      *)
(*                                                                         *)
(* The error of a worker's Redis call is logged and otherwise ignored; a   *)
(* call whose reply was lost may be sent again. A handler may return, and  *)
(* may call Delete and Release of its job before it does.                  *)
(***************************************************************************)
EXTENDS RedisDriver

CONSTANTS Job,
          MaxTries,       \* of each job, or Unset
          RetryUntil,     \* of each job, or Unset
          Backoff,        \* of each job, in seconds: <<>> for nil, <<n>> for n
          Malformed,      \* jobs whose payload is not JSON
          Unhandled,      \* jobs no handler is registered for
          DispatchDelay,  \* delays jobs are dispatched with
          YieldDelay,     \* delays of ReleaseErrors and of a handler's Release
          Unset,
          MaxSent,        \* bound: jobs that are dispatched
          MaxErrors       \* bound: errors and handlers' releases, per job

ASSUME LifecycleAssumption ==
    /\ MaxTries \in [Job -> Nat \cup {Unset}]
    /\ RetryUntil \in [Job -> Nat \cup {Unset}]
    /\ Backoff \in [Job -> Seq(Nat)]
    /\ Malformed \cup Unhandled \subseteq Job
    /\ DispatchDelay \cup YieldDelay \subseteq Nat
    /\ MaxSent \in Nat
    /\ MaxErrors \in Nat
    /\ NoBody \notin [job : Job, attempts : Nat]

VARIABLES failedLog,   \* the failed_jobs table: payloads
          sent,        \* history: jobs dispatched
          settled,     \* history: jobs of which a payload was deleted
          succeeded,   \* history: jobs whose handler returned nil
          dismissed,   \* history: jobs whose handler called Delete
          errors,      \* history: per job, errors the pipeline returned and
                       \* releases its handler called
          unlogged,    \* history: jobs whose failure record was lost
          forgotten,   \* history: jobs whose failure record was removed
          loose        \* history: jobs held beyond their reservation or
                       \* pushed twice

history == <<sent, settled, succeeded, dismissed, errors, unlogged, forgotten, loose>>
vars == <<store, driverVars, failedLog, history>>

Init ==
    /\ DriverInit
    /\ failedLog = {}
    /\ sent = {}
    /\ settled = {}
    /\ succeeded = {}
    /\ dismissed = {}
    /\ errors = [j \in Job |-> 0]
    /\ unlogged = {}
    /\ forgotten = {}
    /\ loose = {}

Watch(more) == loose' = loose \cup {b.job : b \in Overrun' \cup more}

-----------------------------------------------------------------------------
(* Pure parts of the payload.                                              *)

NewPayload(j) == [job |-> j, attempts |-> 0]

(* The list is indexed by the attempt, clamped to its ends.                *)
BackoffSeconds(j, attempt) ==
    LET v == Backoff[j]
        idx == IF attempt - 1 < 0 THEN 0
               ELSE IF attempt - 1 >= Len(v) THEN Len(v) - 1
               ELSE attempt - 1
    IN  IF v = <<>> THEN 0 ELSE v[idx + 1]

BackoffDuration(b) == BackoffSeconds(b.job, b.attempts)

(* ParseJob fails only on a body that is not JSON: a command it cannot     *)
(* decode leaves the job without properties.                               *)
ParseJob(b) == b.job \notin Malformed

resolveHandler(b) == b.job \notin Unhandled

(* Mutant: the run that has just failed is counted too.                   *)
HasFailedTooSoon(b) ==
    \/ MaxTries[b.job] # Unset /\ b.attempts + 1 >= MaxTries[b.job]
    \/ RetryUntil[b.job] # Unset /\ now >= RetryUntil[b.job]

HasFailed(b) ==
    \/ MaxTries[b.job] # Unset /\ b.attempts >= MaxTries[b.job]
    \/ RetryUntil[b.job] # Unset /\ now >= RetryUntil[b.job]

-----------------------------------------------------------------------------
(* Dispatcher.dispatch: a delay of zero is an immediate push.              *)
Dispatch(j) ==
    /\ j \notin sent
    /\ Cardinality(sent) < MaxSent
    /\ sent' = sent \cup {j}
    /\ \E delay \in DispatchDelay :
          Produce(NewPayload(j), IF delay > 0 THEN now + delay ELSE Immediately)
    /\ UNCHANGED <<failedLog, settled, succeeded, dismissed, errors, unlogged,
                   forgotten, loose>>

(* The client sends a push again whose reply was lost.                     *)
DispatchAgain(p) ==
    /\ ProduceAgain(p)
    /\ Watch(Duplicates(p))
    /\ UNCHANGED <<failedLog, sent, settled, succeeded, dismissed, errors, unlogged,
                   forgotten>>

Fetch(c) ==
    /\ PopStep(c)
    /\ Watch({})
    /\ UNCHANGED <<failedLog, sent, settled, succeeded, dismissed, errors, unlogged,
                   forgotten>>

(* Mutant: the attempt is counted when the job is taken, not when it is    *)
(* released.                                                               *)
StartCounts(c) ==
    /\ pc[c] = "held"
    /\ Goto(c, IF ParseJob(raw[c]) /\ resolveHandler(raw[c]) THEN "handling"
               ELSE "discard")
    /\ raw' = [raw EXCEPT ![c].attempts = @ + 1]
    /\ UNCHANGED <<store, now, lastMigratedAt, until, faults, unanswered, failedLog,
                   history>>

(* process, up to the pipeline: ParseJob and resolveHandler.               *)
Start(c) ==
    /\ pc[c] = "held"
    /\ Goto(c, IF ParseJob(raw[c]) /\ resolveHandler(raw[c]) THEN "handling"
               ELSE "discard")
    /\ UNCHANGED <<store, now, lastMigratedAt, raw, until, faults, unanswered,
                   failedLog, history>>

(* The pipeline returns nil, a ReleaseError, or any other error.           *)
HandlerOk(c) ==
    /\ pc[c] = "handling"
    /\ Goto(c, "ack")
    /\ succeeded' = succeeded \cup {raw[c].job}
    /\ UNCHANGED <<store, now, lastMigratedAt, raw, until, faults, unanswered,
                   failedLog, sent, settled, dismissed, errors, unlogged, forgotten,
                   loose>>

HandlerFails(c) ==
    /\ pc[c] = "handling"
    /\ errors[raw[c].job] < MaxErrors
    /\ \/ Goto(c, IF HasFailed(raw[c]) THEN "bury" ELSE "retry")
       \/ YieldDelay # {} /\ Goto(c, "yield")
    /\ errors' = [errors EXCEPT ![raw[c].job] = @ + 1]
    /\ UNCHANGED <<store, now, lastMigratedAt, raw, until, faults, unanswered,
                   failedLog, sent, settled, succeeded, dismissed, unlogged, forgotten,
                   loose>>

-----------------------------------------------------------------------------
(* Mutant: the job is kept.                                                *)
FinishKeeps(c) ==
    /\ Goto(c, "idle")
    /\ UNCHANGED <<raw, until>>

(* The end of process: the job is dropped, whatever the call returned.     *)
Finish(c) ==
    /\ Goto(c, "idle")
    /\ raw' = [raw EXCEPT ![c] = NoBody]
    /\ until' = [until EXCEPT ![c] = 0]

(* Job.Delete: executed, executed and sent again, or not executed. What    *)
(* follows it is the caller's.                                             *)
DeleteRaw(c, follows) ==
    /\ \/ /\ LuaDelete(raw[c])
          /\ settled' = settled \cup {raw[c].job}
          /\ \/ follows /\ UNCHANGED faults
             \/ Fault /\ UNCHANGED <<pc, stamp, raw, until>>
       \/ /\ Fault
          /\ follows
          /\ UNCHANGED <<store, settled>>
    /\ UNCHANGED <<now, lastMigratedAt, unanswered>>

(* Mutant: the popped payload is deleted by a call of its own, before the  *)
(* release, which may fail.                                                *)
ReencodeDeletes(c, delay, l) ==
    /\ LuaDelete(raw[c])
    /\ raw' = [raw EXCEPT ![c].attempts = @ + 1]
    /\ pc' = [pc EXCEPT ![c] = l]
    /\ stamp' = [stamp EXCEPT ![c] = now + delay]
    /\ UNCHANGED <<now, lastMigratedAt, until, faults, unanswered>>

(* Job.Release up to the script: RawJob.Body becomes the payload with one  *)
(* more attempt, so the payload that is released is not the one reserved.  *)
Reencode(c, delay, l) ==
    /\ raw' = [raw EXCEPT ![c].attempts = @ + 1]
    /\ pc' = [pc EXCEPT ![c] = l]
    /\ stamp' = [stamp EXCEPT ![c] = now + delay]
    /\ UNCHANGED <<store, now, lastMigratedAt, until, faults, unanswered>>

(* The script: executed, executed and sent again, or not executed. Called  *)
(* by the handler, Release returns to it with the new body.                *)
Release(c) ==
    LET return == IF pc[c] = "release" THEN Finish(c)
                  ELSE Goto(c, "handling") /\ UNCHANGED <<raw, until>>
    IN  /\ pc[c] \in {"release", "asked"}
        /\ \/ /\ LuaRelease(raw[c], stamp[c])
              /\ \/ return /\ UNCHANGED faults
                 \/ Fault /\ UNCHANGED <<pc, stamp, raw, until>>
           \/ /\ Fault
              /\ return
              /\ UNCHANGED store
        /\ UNCHANGED <<now, lastMigratedAt, unanswered, failedLog, history>>

-----------------------------------------------------------------------------
(* A handler that calls Delete and goes on. A call that fails changes      *)
(* nothing, and one that is sent again is two of these.                    *)
HandlerDeletes(c) ==
    /\ pc[c] = "handling"
    /\ LuaDelete(raw[c])
    /\ settled' = settled \cup {raw[c].job}
    /\ dismissed' = dismissed \cup {raw[c].job}
    /\ UNCHANGED <<driverVars, failedLog, sent, succeeded, errors, unlogged, forgotten,
                   loose>>

HandlerReleases(c) ==
    /\ pc[c] = "handling"
    /\ errors[raw[c].job] < MaxErrors
    /\ \E delay \in YieldDelay : Reencode(c, delay, "asked")
    /\ errors' = [errors EXCEPT ![raw[c].job] = @ + 1]
    /\ UNCHANGED <<failedLog, sent, settled, succeeded, dismissed, unlogged, forgotten,
                   loose>>

(* The job succeeded, or could not be parsed, or has no handler.           *)
Ack(c) ==
    /\ pc[c] \in {"ack", "discard"}
    /\ DeleteRaw(c, Finish(c))
    /\ UNCHANGED <<failedLog, sent, succeeded, dismissed, errors, unlogged, forgotten,
                   loose>>

(* handleFailure: a ReleaseError skips HasFailed.                          *)
Yield(c) ==
    /\ pc[c] = "yield"
    /\ \E delay \in YieldDelay : Reencode(c, delay, "release")
    /\ UNCHANGED <<failedLog, history>>

Retry(c) ==
    /\ pc[c] = "retry"
    /\ Reencode(c, BackoffDuration(raw[c]), "release")
    /\ UNCHANGED <<failedLog, history>>

(* Mutant: the job is deleted and not recorded.                            *)
BuryForgets(c) ==
    /\ pc[c] = "bury"
    /\ DeleteRaw(c, Finish(c))
    /\ UNCHANGED <<failedLog, sent, succeeded, dismissed, errors, unlogged, forgotten,
                   loose>>

(* handleFailure of an exhausted job: deleted first, recorded after.       *)
Bury(c) ==
    /\ pc[c] = "bury"
    /\ DeleteRaw(c, Goto(c, "log") /\ UNCHANGED <<raw, until>>)
    /\ UNCHANGED <<failedLog, sent, succeeded, dismissed, errors, unlogged, forgotten,
                   loose>>

(* DatabaseProvider.Log. Rows of the same payload are one here.            *)
LogRecord(b) == failedLog' = failedLog \cup {b}

Log(c) ==
    /\ pc[c] = "log"
    /\ \/ /\ LogRecord(raw[c])
          /\ UNCHANGED <<faults, unlogged>>
       \/ /\ Fault
          /\ unlogged' = unlogged \cup {raw[c].job}
          /\ UNCHANGED failedLog
    /\ Finish(c)
    /\ UNCHANGED <<store, now, lastMigratedAt, unanswered, sent, settled, succeeded,
                   dismissed, errors, forgotten, loose>>

-----------------------------------------------------------------------------
(* The failed-job store, as its users clean it up.                         *)
Forget(b) ==
    /\ b \in failedLog
    /\ failedLog' = failedLog \ {b}
    /\ forgotten' = forgotten \cup {b.job}
    /\ UNCHANGED <<store, driverVars, sent, settled, succeeded, dismissed, errors,
                   unlogged, loose>>

Flush ==
    /\ failedLog # {}
    /\ failedLog' = {}
    /\ forgotten' = forgotten \cup {b.job : b \in failedLog}
    /\ UNCHANGED <<store, driverVars, sent, settled, succeeded, dismissed, errors,
                   unlogged, loose>>

(* The failed jobs a dying worker has deleted are never recorded.          *)
WorkerCrash(d) ==
    LET burying == {c \in Consumer : DriverOf[c] = d /\ pc[c] \in {"bury", "log"}}
    IN  /\ Crash(d)
        /\ unlogged' = unlogged \cup ({raw[c].job : c \in burying} \cap settled)
        /\ UNCHANGED <<failedLog, sent, settled, succeeded, dismissed, errors,
                       forgotten, loose>>

Tick ==
    /\ Advance
    /\ Watch({})
    /\ UNCHANGED <<failedLog, sent, settled, succeeded, dismissed, errors, unlogged,
                   forgotten>>

Process(c) ==
    \/ Start(c)
    \/ HandlerOk(c)
    \/ HandlerFails(c)
    \/ HandlerDeletes(c)
    \/ HandlerReleases(c)
    \/ Ack(c)
    \/ Yield(c)
    \/ Retry(c)
    \/ Release(c)
    \/ Bury(c)
    \/ Log(c)

Next ==
    \/ \E j \in Job : Dispatch(j)
    \/ \E p \in unanswered : DispatchAgain(p)
    \/ \E c \in Consumer : Fetch(c) \/ Process(c)
    \/ \E b \in failedLog : Forget(b)
    \/ Flush
    \/ \E d \in Driver : WorkerCrash(d)
    \/ Tick

Spec == Init /\ [][Next]_vars

-----------------------------------------------------------------------------
Body == [job : Job, attempts : Nat]

ProcessPc == {"held", "handling", "asked", "ack", "discard", "yield", "retry",
              "release", "bury", "log"}

TypeOK ==
    /\ ready \in Seq(Body)
    /\ \A z \in {delayed, reserved} : DOMAIN z \subseteq Body /\ z \in [DOMAIN z -> Nat]
    /\ notify \in Nat
    /\ pc \in [Consumer -> PopPc \cup ProcessPc]
    /\ raw \in [Consumer -> Body \cup {NoBody}]
    /\ \A c \in Consumer : (pc[c] \in ProcessPc) <=> (raw[c] # NoBody)
    /\ failedLog \subseteq Body
    /\ settled \cup succeeded \cup unlogged \cup forgotten \cup loose \subseteq sent
    /\ dismissed \subseteq settled
    /\ errors \in [Job -> Nat]
    /\ \A p \in unanswered : p.body.job \in sent /\ p.body = NewPayload(p.body.job)

Held == {raw[c] : c \in Consumer} \ {NoBody}

JobStored(j) == {b \in Stored : b.job = j}

(* A dispatched job has a payload in the queue until one was deleted by    *)
(* the worker that processed it: no failed call, crash, retry or           *)
(* migration, in any order, makes it disappear.                            *)
NoJobLost == \A j \in sent \ settled : JobStored(j) # {}

(* A deleted job was handled successfully, deleted by its own handler,     *)
(* could not be handled at all, or is recorded as failed: now, by the      *)
(* worker that deleted it, or not at all only because that worker died or  *)
(* its statement failed, or somebody removed the record (Forget, Flush).   *)
NoSilentDrop ==
    \A j \in settled :
        \/ j \in succeeded \cup dismissed \cup Malformed \cup Unhandled
        \/ j \in unlogged \cup forgotten
        \/ \E f \in failedLog : f.job = j
        \/ \E c \in Consumer : pc[c] \in {"bury", "log"} /\ raw[c].job = j

(* A job is recorded as failed only after it was given all its tries: its  *)
(* deadline has passed, or the pipeline returned more errors than MaxTries *)
(* (the counter starts at zero and is compared before it is incremented).  *)
(* A release its handler called counts like an error.                      *)
ExhaustedBeforeFailed ==
    \A f \in failedLog :
        \/ RetryUntil[f.job] # Unset /\ now >= RetryUntil[f.job]
        \/ MaxTries[f.job] # Unset /\ errors[f.job] > MaxTries[f.job]

(* The counter in a payload is never ahead of the errors and the releases  *)
(* called by the handler: a worker that dies, a reservation that runs out, *)
(* and a release that is sent twice cost the job no attempt.               *)
AttemptsAreErrors == \A b \in Stored \cup Held : b.attempts <= errors[b.job]

(* A job whose first run succeeds is gone: no copy of it is left in the    *)
(* queue and nobody has it to run again, unless a holder outlived its      *)
(* reservation, the push was sent twice, or its handler released it. One   *)
(* whose handler deleted it is gone while that handler still runs.         *)
FirstSuccessIsFinal ==
    \A j \in settled \ loose :
        errors[j] = 0 =>
            /\ JobStored(j) = {}
            /\ \A c \in Consumer :
                  raw[c] # NoBody /\ raw[c].job = j =>
                      \/ pc[c] \in {"ack", "discard"}
                      \/ pc[c] = "handling" /\ j \in dismissed

-----------------------------------------------------------------------------
(* "Release moves a job back to the delayed queue with a delay (NACK)"     *)
(* (pkg/queue/redis_driver.go): a job is in one place, unless a holder     *)
(* outlived its reservation or a push was sent twice. The code releases    *)
(* the re-encoded payload and leaves the original in the reserved set.     *)
ReleaseMoves == \A j \in sent \ loose : Cardinality(JobStored(j)) <= 1

(* "progressive backoff in seconds" (README.md): the n-th retry of a job   *)
(* waits for the n-th delay of its list, and for the last one from then    *)
(* on. The code passes a counter that starts at zero to a function that    *)
(* counts from one, so the first delay is used twice.                      *)
ProgressiveBackoff ==
    \A c \in Consumer :
        pc[c] = "retry" =>
            LET v == Backoff[raw[c].job]
                n == errors[raw[c].job]
            IN  BackoffDuration(raw[c]) = v[IF n <= Len(v) THEN n ELSE Len(v)]
=============================================================================
