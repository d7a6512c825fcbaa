------------------------------ MODULE WorkerLoop ------------------------------
(***************************************************************************)
(* Worker.Run and Worker.Stop of pkg/queue/worker.go: the fetch loop, the  *)
(* goroutines it starts, and how it ends. Any goroutine may call Stop at   *)
(* any time, and the parent context may be cancelled at any time. Run may  *)
(* be called again after it returned.                                      *)
(*                                                                         *)
(* The job goroutines are interchangeable, so they are counted by the      *)
(* place they are in: processing a job; past jobsProcessed++ but still     *)
(* holding the semaphore; past the semaphore but not past wg.Done.         *)
(***************************************************************************)
EXTENDS Integers

CONSTANTS Concurrency,   \* WorkerOptions
          MaxJobs,       \* WorkerOptions, 0 = unlimited
          HasMaxTime,    \* is MaxTime > 0?
          StopOnEmpty,   \* WorkerOptions
          Supply,        \* bound: jobs that are in the queue
          MaxRuns        \* bound: calls of Run

ASSUME LoopAssumption ==
    /\ Concurrency \in Nat \ {0}
    /\ MaxJobs \in Nat
    /\ {HasMaxTime, StopOnEmpty} \subseteq BOOLEAN
    /\ Supply \in Nat
    /\ MaxRuns \in Nat

VARIABLES
    loop,           \* where Run is
    stopRequested,  \* Worker.stopRequested
    registered,     \* Worker.fetchCancel is this Run's
    fetchDone,      \* fetchCtx is done
    ctxDone,        \* the parent context is done
    alreadyStopped, \* local of Run
    count,          \* local of runConcurrent
    jobsProcessed,
    running,        \* goroutines in process
    counted,        \* goroutines about to leave the semaphore
    released,       \* goroutines about to call wg.Done
    queued,         \* jobs still in the queue
    popped,         \* history: jobs popped by this Run
    late,           \* history: jobs it popped after Stop was called
    runs            \* history: calls of Run

stopVars == <<stopRequested, registered, fetchDone, ctxDone, alreadyStopped>>
goVars == <<running, counted, released>>
histVars == <<queued, popped, late, runs>>
vars == <<loop, stopVars, count, jobsProcessed, goVars, histVars>>

Init ==
    /\ loop = "out"
    /\ stopRequested = FALSE
    /\ registered = FALSE
    /\ fetchDone = FALSE
    /\ ctxDone = FALSE
    /\ alreadyStopped = FALSE
    /\ count = 0
    /\ jobsProcessed = 0
    /\ running = 0
    /\ counted = 0
    /\ released = 0
    /\ queued = Supply
    /\ popped = 0
    /\ late = 0
    /\ runs = 0

sem == running + counted
wg == running + counted + released

-----------------------------------------------------------------------------
(* Mutant: Stop sets the flag and does not cancel.                         *)
StopOnlyFlags ==
    /\ stopRequested' = TRUE
    /\ UNCHANGED <<loop, registered, fetchDone, ctxDone, alreadyStopped, count,
                   jobsProcessed, goVars, histVars>>

Stop ==
    /\ stopRequested' = TRUE
    /\ fetchDone' = (fetchDone \/ registered)
    /\ UNCHANGED <<loop, registered, ctxDone, alreadyStopped, count,
                   jobsProcessed, goVars, histVars>>

(* Mutant: the fetch context is not derived from the parent.               *)
CancelParentOnly ==
    /\ ctxDone' = TRUE
    /\ UNCHANGED <<loop, stopRequested, registered, fetchDone, alreadyStopped,
                   count, jobsProcessed, goVars, histVars>>

CancelParent ==
    /\ ctxDone' = TRUE
    /\ fetchDone' = TRUE
    /\ UNCHANGED <<loop, stopRequested, registered, alreadyStopped, count,
                   jobsProcessed, goVars, histVars>>

(* Run: a fetch context of its own, and the critical section.              *)
Run ==
    /\ loop = "out"
    /\ runs < MaxRuns
    /\ runs' = runs + 1
    /\ fetchDone' = ctxDone
    /\ registered' = TRUE
    /\ alreadyStopped' = stopRequested
    /\ jobsProcessed' = 0
    /\ popped' = 0
    /\ late' = 0
    /\ loop' = "entered"
    /\ UNCHANGED <<stopRequested, ctxDone, count, goVars, queued>>

(* Mutant: the cancel that a remembered Stop asks for is left out.         *)
EnterUncancelled ==
    /\ loop = "entered"
    /\ loop' = "count"
    /\ UNCHANGED <<stopVars, count, jobsProcessed, goVars, histVars>>

(* Run after the critical section.                                         *)
Enter ==
    /\ loop = "entered"
    /\ fetchDone' = (fetchDone \/ alreadyStopped)
    /\ loop' = "count"
    /\ UNCHANGED <<stopRequested, registered, ctxDone, alreadyStopped, count,
                   jobsProcessed, goVars, histVars>>

(* The head of the loop.                                                   *)
ReadCount ==
    /\ loop = "count"
    /\ count' = jobsProcessed
    /\ loop' = "check"
    /\ UNCHANGED <<stopVars, jobsProcessed, goVars, histVars>>

(* fetchJob up to Pop: the context, then the limits.                       *)
FetchStops ==
    /\ loop = "check"
    /\ \/ fetchDone
       \/ MaxJobs > 0 /\ count >= MaxJobs
       \/ HasMaxTime
    /\ loop' = "drain"
    /\ UNCHANGED <<stopVars, count, jobsProcessed, goVars, queued, popped, late,
                   runs>>

(* Mutant: the limit is compared with > instead of >=.                     *)
FetchContinuesOneMore ==
    /\ loop = "check"
    /\ ~fetchDone
    /\ ~(MaxJobs > 0 /\ count > MaxJobs)
    /\ loop' = "pop"
    /\ UNCHANGED <<stopVars, count, jobsProcessed, goVars, histVars>>

FetchContinues ==
    /\ loop = "check"
    /\ ~fetchDone
    /\ ~(MaxJobs > 0 /\ count >= MaxJobs)
    /\ loop' = "pop"
    /\ UNCHANGED <<stopVars, count, jobsProcessed, goVars, histVars>>

(* driver.Pop returns a job, even if the context was cancelled meanwhile.  *)
PopJob ==
    /\ loop = "pop"
    /\ queued > 0
    /\ queued' = queued - 1
    /\ popped' = popped + 1
    /\ late' = IF stopRequested THEN late + 1 ELSE late
    /\ loop' = "got"
    /\ UNCHANGED <<stopVars, count, jobsProcessed, goVars, runs>>

(* driver.Pop returns no job.                                              *)
PopEmpty ==
    /\ loop = "pop"
    /\ queued = 0
    /\ loop' = IF StopOnEmpty THEN "drain" ELSE "sleep"
    /\ UNCHANGED <<stopVars, count, jobsProcessed, goVars, histVars>>

(* driver.Pop returns an error, after the script has reserved a job that   *)
(* is then nobody's, or without: cancelled, or anything else.              *)
PopError ==
    /\ loop = "pop"
    /\ \/ fetchDone /\ loop' = "drain"
       \/ loop' = "sleep"
    /\ queued' \in {queued, queued - 1} \cap Nat
    /\ UNCHANGED <<stopVars, count, jobsProcessed, goVars, popped, late,
                   runs>>

(* sleepOrStop: the timer, or the context.                                 *)
Sleep ==
    /\ loop = "sleep"
    /\ \/ loop' = "count"
       \/ fetchDone /\ loop' = "drain"
    /\ UNCHANGED <<stopVars, count, jobsProcessed, goVars, histVars>>

-----------------------------------------------------------------------------
(* Mutant: the goroutine is started and then waits for its slot.           *)
SpawnUnbounded ==
    /\ loop = "got"
    /\ running' = running + 1
    /\ loop' = IF Concurrency > 1 THEN "count" ELSE "busy"
    /\ UNCHANGED <<stopVars, count, jobsProcessed, counted, released, histVars>>

(* runConcurrent: a semaphore slot, then a goroutine. runSingle processes  *)
(* in the loop itself.                                                     *)
Spawn ==
    /\ loop = "got"
    /\ sem < Concurrency
    /\ running' = running + 1
    /\ loop' = IF Concurrency > 1 THEN "count" ELSE "busy"
    /\ UNCHANGED <<stopVars, count, jobsProcessed, counted, released, histVars>>

(* process returns and the job is counted.                                 *)
Process ==
    /\ running > 0
    /\ running' = running - 1
    /\ jobsProcessed' = jobsProcessed + 1
    /\ IF Concurrency > 1 THEN counted' = counted + 1 /\ UNCHANGED loop
                          ELSE loop' = "count" /\ UNCHANGED counted
    /\ UNCHANGED <<stopVars, count, released, histVars>>

(* The deferred functions of a job goroutine, in their order.              *)
LeaveSem ==
    /\ counted > 0
    /\ counted' = counted - 1
    /\ released' = released + 1
    /\ UNCHANGED <<loop, stopVars, count, jobsProcessed, running, histVars>>

WgDone ==
    /\ released > 0
    /\ released' = released - 1
    /\ UNCHANGED <<loop, stopVars, count, jobsProcessed, running, counted, histVars>>

(* Mutant: Run does not wait.                                              *)
ReturnAtOnce ==
    /\ loop = "drain"
    /\ fetchDone' = TRUE
    /\ loop' = "out"
    /\ UNCHANGED <<stopRequested, registered, ctxDone, alreadyStopped, count,
                   jobsProcessed, goVars, histVars>>

(* wg.Wait, and the deferred cancel of Run.                                *)
Return ==
    /\ loop = "drain"
    /\ wg = 0
    /\ fetchDone' = TRUE
    /\ loop' = "out"
    /\ UNCHANGED <<stopRequested, registered, ctxDone, alreadyStopped, count,
                   jobsProcessed, goVars, histVars>>

-----------------------------------------------------------------------------
Loop ==
    \/ Enter
    \/ ReadCount
    \/ FetchStops
    \/ FetchContinues
    \/ PopJob
    \/ PopEmpty
    \/ PopError
    \/ Sleep
    \/ Spawn
    \/ Return

Goroutine == Process \/ LeaveSem \/ WgDone

Next == Stop \/ CancelParent \/ Run \/ Loop \/ Goroutine

Spec == Init /\ [][Next]_vars

(* The scheduler runs every goroutine, Redis answers or times out, the     *)
(* sleep timer fires, and handlers return.                                 *)
FairSpec == Spec /\ WF_vars(Loop) /\ WF_vars(Process) /\ WF_vars(LeaveSem) /\ WF_vars(WgDone)

-----------------------------------------------------------------------------
TypeOK ==
    /\ loop \in {"out", "entered", "count", "check", "pop", "sleep", "got",
                 "busy", "drain"}
    /\ stopRequested \in BOOLEAN
    /\ registered \in BOOLEAN
    /\ fetchDone \in BOOLEAN
    /\ ctxDone \in BOOLEAN
    /\ alreadyStopped \in BOOLEAN
    /\ count \in Nat
    /\ jobsProcessed \in Nat
    /\ running \in Nat
    /\ counted \in Nat
    /\ released \in Nat
    /\ queued \in Nat
    /\ popped \in Nat
    /\ late \in Nat
    /\ runs \in Nat

(* A Stop is never missed: as soon as Run is past its first step, a stop   *)
(* request has cancelled the fetch context, whichever of Stop and Run got  *)
(* the mutex first, and in every later Run too.                            *)
StopIsSeen == stopRequested /\ loop \notin {"out", "entered"} => fetchDone

(* After Stop the loop claims at most the job it is already fetching, and  *)
(* none at all when Stop was called before Run.                            *)
AtMostOneLateJob == late <= IF alreadyStopped THEN 0 ELSE 1

(* MaxJobs is exact for a serial worker. A concurrent one counts a job     *)
(* when it is done, so it overshoots by the jobs then in flight.           *)
MaxJobsBound ==
    MaxJobs > 0 =>
        popped <= IF Concurrency > 1 THEN MaxJobs + Concurrency ELSE MaxJobs

(* When Run returns, every job it popped has been processed and no job     *)
(* goroutine of it is left.                                                *)
Drained == loop = "out" => popped = jobsProcessed /\ wg = 0

(* The loop pops before it has a slot: the jobs that are reserved in Redis *)
(* and not finished are the ones in the slots and one more, whose          *)
(* reservation runs while it waits. A serial worker holds one.             *)
ClaimsBounded ==
    popped - jobsProcessed <= IF Concurrency > 1 THEN Concurrency + 1 ELSE 1

-----------------------------------------------------------------------------
(* What the invariants above need to be inductive.                         *)

(* Between the critical section of Run and the cancel that follows it, a   *)
(* stop request is remembered in one of two places.                        *)
StopIsRemembered ==
    /\ loop # "out" => registered
    /\ alreadyStopped => stopRequested
    /\ stopRequested /\ loop = "entered" => fetchDone \/ alreadyStopped

(* Once a late job was popped the loop cannot reach Pop again, and a Run   *)
(* that was stopped before it began never reaches it.                      *)
LateLoop ==
    /\ late > 0 => stopRequested /\ loop \notin {"entered", "pop"}
    /\ alreadyStopped => loop \notin {"pop", "got", "busy", "sleep"}

(* Every popped job is counted, in a goroutine, or waits for a slot.       *)
JobsAccounted == popped = jobsProcessed + running + (IF loop = "got" THEN 1 ELSE 0)

(* The slots of the semaphore; a serial worker has no goroutines.          *)
Slots ==
    /\ running + counted <= Concurrency
    /\ loop = "out" => wg = 0
    /\ Concurrency = 1 => /\ running = IF loop = "busy" THEN 1 ELSE 0
                          /\ counted = 0
                          /\ released = 0
    /\ Concurrency > 1 => loop # "busy"

(* What the copy of the counter still says when it is compared.            *)
CountIsRecent ==
    /\ loop \in {"check", "pop"} =>
          popped <= count + (IF Concurrency > 1 THEN Concurrency ELSE 0)
    /\ loop = "pop" /\ MaxJobs > 0 => count < MaxJobs

Inv ==
    /\ TypeOK
    /\ StopIsSeen
    /\ AtMostOneLateJob
    /\ MaxJobsBound
    /\ StopIsRemembered
    /\ LateLoop
    /\ JobsAccounted
    /\ Slots
    /\ CountIsRecent

-----------------------------------------------------------------------------
(* Run returns after Stop, and after its parent context is cancelled.      *)
StopEnds == stopRequested ~> loop = "out"
CancelEnds == ctxDone ~> loop = "out"

=============================================================================
