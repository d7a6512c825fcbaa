--------------------------- MODULE WorkerLoopProofs ---------------------------
(***************************************************************************)
(* Proofs about WorkerLoop, for every concurrency, job limit, supply of    *)
(* jobs and number of runs.                                                *)
(***************************************************************************)
EXTENDS WorkerLoop, TLAPS

(* The initial state satisfies the inductive invariant.                    *)
LEMMA InitInv == Init => Inv
  <1> SUFFICES ASSUME Init PROVE Inv
    OBVIOUS
  <1> USE LoopAssumption DEF LoopAssumption, Init
  <1>1. TypeOK
    BY DEF TypeOK
  <1>2. StopIsSeen
    BY DEF StopIsSeen
  <1>3. AtMostOneLateJob
    BY DEF AtMostOneLateJob
  <1>4. MaxJobsBound
    BY DEF MaxJobsBound
  <1>5. StopIsRemembered
    BY DEF StopIsRemembered
  <1>6. LateLoop
    BY DEF LateLoop
  <1>7. JobsAccounted
    BY DEF JobsAccounted
  <1>8. Slots
    BY DEF Slots, wg
  <1>9. CountIsRecent
    BY DEF CountIsRecent
  <1> QED
    BY <1>1, <1>2, <1>3, <1>4, <1>5, <1>6, <1>7, <1>8, <1>9 DEF Inv

(* Every step of Stop, of Run and of the job goroutines preserves it.      *)
LEMMA NextInv == Inv /\ [Next]_vars => Inv'
  <1> SUFFICES ASSUME Inv, [Next]_vars PROVE Inv'
    OBVIOUS
  <1> USE LoopAssumption
      DEF LoopAssumption, Inv, TypeOK, StopIsSeen, AtMostOneLateJob, MaxJobsBound,
          StopIsRemembered, LateLoop, JobsAccounted, Slots, CountIsRecent,
          sem, wg, stopVars, goVars, histVars
  <1>1. CASE Stop
    BY <1>1 DEF Stop
  <1>2. CASE CancelParent
    BY <1>2 DEF CancelParent
  <1>3. CASE Run
    <2>1. TypeOK'
      <3>1. /\ stopRequested' \in BOOLEAN
            /\ registered' \in BOOLEAN
            /\ fetchDone' \in BOOLEAN
            /\ ctxDone' \in BOOLEAN
            /\ alreadyStopped' \in BOOLEAN
        BY <1>3, Zenon DEF Run
      <3>2. /\ loop' = "entered"
            /\ jobsProcessed' = 0 /\ popped' = 0 /\ late' = 0
            /\ runs' \in Nat
            /\ UNCHANGED <<count, running, counted, released, queued>>
        BY <1>3 DEF Run
      <3> QED
        BY <3>1, <3>2
    <2>2. StopIsSeen'
      BY <1>3 DEF Run
    <2>3. AtMostOneLateJob'
      BY <1>3 DEF Run
    <2>4. MaxJobsBound'
      BY <1>3 DEF Run
    <2>5. StopIsRemembered'
      BY <1>3 DEF Run
    <2>6. LateLoop'
      BY <1>3 DEF Run
    <2>7. JobsAccounted'
      BY <1>3 DEF Run
    <2>8. Slots'
      BY <1>3 DEF Run
    <2>9. CountIsRecent'
      BY <1>3 DEF Run
    <2> QED
      BY <2>1, <2>2, <2>3, <2>4, <2>5, <2>6, <2>7, <2>8, <2>9
  <1>4. CASE Enter
    BY <1>4 DEF Enter
  <1>5. CASE ReadCount
    BY <1>5 DEF ReadCount
  <1>6. CASE FetchStops
    BY <1>6 DEF FetchStops
  <1>7. CASE FetchContinues
    BY <1>7 DEF FetchContinues
  <1>8. CASE PopJob
    BY <1>8 DEF PopJob
  <1>9. CASE PopEmpty
    BY <1>9 DEF PopEmpty
  <1>10. CASE PopError
    BY <1>10 DEF PopError
  <1>11. CASE Sleep
    BY <1>11 DEF Sleep
  <1>12. CASE Spawn
    BY <1>12 DEF Spawn
  <1>13. CASE Return
    BY <1>13 DEF Return
  <1>14. CASE Process
    BY <1>14 DEF Process
  <1>15. CASE LeaveSem
    BY <1>15 DEF LeaveSem
  <1>16. CASE WgDone
    BY <1>16 DEF WgDone
  <1>17. CASE UNCHANGED vars
    BY <1>17 DEF vars
  <1> QED
    BY <1>1, <1>2, <1>3, <1>4, <1>5, <1>6, <1>7, <1>8, <1>9, <1>10, <1>11,
       <1>12, <1>13, <1>14, <1>15, <1>16, <1>17
    DEF Next, Loop, Goroutine

(* The inductive invariant of the fetch loop holds in every reachable      *)
(* state.                                                                  *)
THEOREM InvHolds == Spec => []Inv
  BY InitInv, NextInv, PTL DEF Spec

(* Worker.Stop and Worker.Run race for the mutex; whoever wins, the fetch  *)
(* context is cancelled before the loop looks at it.                       *)
THEOREM StopNeverMissed == Spec => []StopIsSeen
  <1>1. Inv => StopIsSeen
    BY DEF Inv
  <1> QED
    BY <1>1, InvHolds, PTL

(* Worker.Run claims at most one job after Worker.Stop was called, and     *)
(* none if it was called before.                                           *)
THEOREM OneLateJob == Spec => []AtMostOneLateJob
  <1>1. Inv => AtMostOneLateJob
    BY DEF Inv
  <1> QED
    BY <1>1, InvHolds, PTL

(* MaxJobs is overshot by at most Concurrency jobs, and not at all by a    *)
(* serial worker.                                                          *)
THEOREM OvershootBounded == Spec => []MaxJobsBound
  <1>1. Inv => MaxJobsBound
    BY DEF Inv
  <1> QED
    BY <1>1, InvHolds, PTL

(* Worker.Run returns only when every job it popped has been processed.    *)
THEOREM RunDrains == Spec => []Drained
  <1>1. Inv => Drained
    BY DEF Inv, TypeOK, JobsAccounted, Slots, wg, Drained
  <1> QED
    BY <1>1, InvHolds, PTL

(* Worker.Run holds at most one job more than it has slots for, and one    *)
(* in all when it is serial.                                               *)
THEOREM ClaimsStayBounded == Spec => []ClaimsBounded
  <1>1. Inv => ClaimsBounded
    BY LoopAssumption DEF LoopAssumption, Inv, TypeOK, JobsAccounted, Slots, ClaimsBounded
  <1> QED
    BY <1>1, InvHolds, PTL

-----------------------------------------------------------------------------
(* Why Run ends after Stop, without the fairness that makes it happen: the *)
(* steps of the loop and of its goroutines count down, and there is always *)
(* one to take.                                                            *)

(* What the loop may still do before it is out, when it starts no new      *)
(* round; a job it claims costs the three steps of a goroutine.            *)
StepsOfLoop ==
    CASE loop = "out" -> 0
      [] loop = "drain" -> 1
      [] loop = "check" -> 2
      [] loop \in {"count", "busy"} -> 3
      [] loop \in {"entered", "sleep"} -> 4
      [] loop = "got" -> 7
      [] loop = "pop" -> 8

StepsLeft == StepsOfLoop + 3 * running + 2 * counted + released

Stopping == loop # "out" /\ (stopRequested \/ ctxDone)

(* A step of a stopping Run, or one of somebody else that leaves Run where *)
(* it is.                                                                  *)
WindsDown ==
    Stopping =>
        /\ stopRequested' \/ ctxDone'
        /\ StepsLeft' \in Nat
        /\ StepsLeft' < StepsLeft \/ UNCHANGED <<loop, goVars>>

(* The guards of Loop and Goroutine: for check, pop and sleep one of the   *)
(* alternatives always holds.                                              *)
CanStep ==
    \/ loop \in {"entered", "count", "check", "pop", "sleep"}
    \/ loop = "got" /\ sem < Concurrency
    \/ loop = "drain" /\ wg = 0
    \/ running > 0 \/ counted > 0 \/ released > 0

(* The fetch context is derived from the parent.                           *)
CancelIsSeen == ctxDone => fetchDone

LEMMA CancelIsSeenAlways == Spec => []CancelIsSeen
  <1>1. Init => CancelIsSeen
    BY DEF Init, CancelIsSeen
  <1>2. ASSUME CancelIsSeen, [Next]_vars PROVE CancelIsSeen'
    <2>1. CASE Run
      <3>1. fetchDone' = ctxDone /\ ctxDone' = ctxDone
        BY <2>1 DEF Run
      <3> QED
        BY <3>1, Zenon DEF CancelIsSeen
    <2>2. CASE UNCHANGED <<ctxDone, fetchDone>>
      BY <1>2, <2>2, Zenon DEF CancelIsSeen
    <2>3. CASE CancelParent \/ Stop \/ Enter \/ Return
      BY <1>2, <2>3 DEF CancelIsSeen, CancelParent, Stop, Enter, Return
    <2> QED
      BY <1>2, <2>1, <2>2, <2>3 DEF Next, Loop, Goroutine, ReadCount, FetchStops, FetchContinues,
         PopJob, PopEmpty, PopError, Sleep, Spawn, Process, LeaveSem, WgDone, vars, stopVars
  <1> QED
    BY <1>1, <1>2, PTL DEF Spec

(* Once Stop was called or the parent context cancelled, every step of Run *)
(* and of its job goroutines brings Run nearer to its return, by a measure *)
(* that Stop, CancelParent and idle steps cannot raise: it takes at most   *)
(* StepsLeft more steps, whatever the queue holds and however often Pop    *)
(* fails.                                                                  *)
THEOREM RunWindsDown == Spec => [][WindsDown]_vars
  <1>1. ASSUME Inv, CancelIsSeen, Next PROVE WindsDown
    <2> SUFFICES ASSUME Stopping
                 PROVE  /\ stopRequested' \/ ctxDone'
                        /\ StepsLeft' \in Nat
                        /\ StepsLeft' < StepsLeft \/ UNCHANGED <<loop, goVars>>
      BY DEF WindsDown
    <2>0. /\ loop # "out" /\ (loop = "entered" \/ fetchDone)
          /\ running \in Nat /\ counted \in Nat /\ released \in Nat
          /\ Concurrency \in Nat \ {0}
          /\ (Concurrency = 1 => (running > 0 => loop = "busy"))
      BY <1>1, LoopAssumption
         DEF LoopAssumption, Inv, TypeOK, StopIsSeen, CancelIsSeen, Stopping, Slots
    <2>1. stopRequested' \/ ctxDone'
      BY <1>1 DEF Stopping, Next, Loop, Goroutine, Stop, CancelParent, Run, Enter, ReadCount,
           FetchStops, FetchContinues, PopJob, PopEmpty, PopError, Sleep, Spawn, Return,
           Process, LeaveSem, WgDone, stopVars
    <2> USE <2>0 DEF StepsLeft, StepsOfLoop, goVars
    <2>2. CASE Stop \/ CancelParent
      BY <1>1, <2>1, <2>2 DEF Stop, CancelParent, Inv, TypeOK
    <2>3. CASE Enter \/ ReadCount \/ FetchStops
      BY <2>1, <2>3 DEF Enter, ReadCount, FetchStops
    <2>4. CASE PopJob \/ PopEmpty \/ PopError \/ Sleep
      BY <2>1, <2>4 DEF PopJob, PopEmpty, PopError, Sleep
    <2>5. CASE Spawn
      BY <2>1, <2>5 DEF Spawn
    <2>6. CASE Return
      BY <2>1, <2>6 DEF Return
    <2>7. CASE Process
      BY <1>1, <2>1, <2>7 DEF Process, Inv, TypeOK
    <2>8. CASE LeaveSem \/ WgDone
      BY <1>1, <2>1, <2>8 DEF LeaveSem, WgDone, Inv, TypeOK
    <2>9. ~Run /\ ~FetchContinues
      BY DEF Run, FetchContinues
    <2> QED
      BY <1>1, <2>2, <2>3, <2>4, <2>5, <2>6, <2>7, <2>8, <2>9 DEF Next, Loop, Goroutine
  <1>2. Inv /\ CancelIsSeen /\ [Next]_vars => [WindsDown]_vars
    BY <1>1
  <1> QED
    BY <1>2, InvHolds, CancelIsSeenAlways, PTL DEF Spec

(* Run, its goroutines and the semaphore never wait for each other: until  *)
(* Run is out, the loop or one of its goroutines can take a step.          *)
THEOREM RunIsNeverStuck == Spec => [](loop # "out" => CanStep)
  <1>1. Inv => (loop # "out" => CanStep)
    BY LoopAssumption DEF LoopAssumption, Inv, TypeOK, Slots, CanStep, sem, wg
  <1> QED
    BY <1>1, InvHolds, PTL
=============================================================================
