--------------------------- MODULE MiddlewareProofs ---------------------------
(***************************************************************************)
(* Proofs about MiddlewareStack, for every finite set of workers, every    *)
(* order of the middleware, every limit, TTL and decay, and any number of  *)
(* failed calls and crashes.                                               *)
(***************************************************************************)
EXTENDS MiddlewareStack, FiniteSetTheorems, SequenceTheorems, TLAPS

-----------------------------------------------------------------------------
(* SetNX, acquired and acknowledged.                                       *)
Acquires(t) == SetNX(t) /\ CallNext(t)

(* What a step does to one goroutine: it rests, ends, returns, turns to    *)
(* its last call, calls next, waits, or is started at the top of the stack *)
(* or below a Timeout. Only SetNX goes past the lock, only Attempt has the *)
(* limiter take back its increment, and only Failed trips the throttle.    *)
Moves(u) ==
    \/ at'[u] = at[u]
    \/ at'[u] = Idle
    \/ at[u].dir # "idle" /\ \E e \in Result : at'[u] = Returned(u, e)
    \/ /\ \E e \in Result : at'[u] = Exec("undo", at[u].index, at[u].first, e)
       /\ at[u].dir # "idle"
       /\ (In(u, "throttle") /\ Failed(u)) \/ Attempt(u)
    \/ /\ at'[u] = Exec("call", at[u].index + 1, at[u].first, "nil")
       /\ at[u].dir = "call"
       /\ Acquires(u) \/ ~In(u, "lock")
    \/ at'[u] = Exec("wait", at[u].index, at[u].first, "nil") /\ at[u].dir = "call"
    \/ at'[u] = Entered(1)
    \/ \E k \in DOMAIN stack : stack[k] = "timeout" /\ at'[u] = Entered(k + 1)

(* Every step of the composed system moves every goroutine that way, and   *)
(* leaves the stack alone.                                                 *)
LEMMA StepMoves ==
    ASSUME TypeOK, [Next]_vars
    PROVE  /\ stack' = stack
           /\ at' = [u \in Thread |-> at'[u]]
           /\ \A u \in Thread : Moves(u)
  <1> USE DEF TypeOK, PipelineTypeOK
  <1>r. \A r \in Runner : <<r, "then">> \in Thread /\ <<r, "next">> \in Thread
    BY DEF Thread
  <1>e. \A t \in Thread : at[t].err \in Result
    BY DEF Execution
  <1>f. "nil" \in Result /\ "error" \in Result /\ "release" \in Result
    BY DEF Result
  <1>1. ASSUME NEW r \in Runner, Then(r) \/ Crash(r)
        PROVE  stack' = stack /\ at' = [u \in Thread |-> at'[u]] /\ \A u \in Thread : Moves(u)
    BY <1>1, <1>r DEF Then, Crash, Move, Moves
  <1>2. ASSUME NEW t \in Thread, Handler(t)
        PROVE  stack' = stack /\ at' = [u \in Thread |-> at'[u]] /\ \A u \in Thread : Moves(u)
    BY <1>2 DEF Handler, InHandler, Return, Move, Moves
  <1>3. ASSUME NEW r \in Runner, Timeout(r)
        PROVE  stack' = stack /\ at' = [u \in Thread |-> at'[u]] /\ \A u \in Thread : Moves(u)
    BY <1>3, <1>r DEF Timeout, Called, In, CallNext, Move, Moves
  <1>4. ASSUME NEW r \in Runner, TimeoutReturns(r) \/ DoneFirst(r) \/ TimedOut(r)
        PROVE  stack' = stack /\ at' = [u \in Thread |-> at'[u]] /\ \A u \in Thread : Moves(u)
    BY <1>4, <1>r, <1>e, <1>f DEF TimeoutReturns, DoneFirst, TimedOut, Resumed, Return, Move, Moves
  <1>5. ASSUME NEW t \in Thread, SetNX(t)
        PROVE  stack' = stack /\ at' = [u \in Thread |-> at'[u]] /\ \A u \in Thread : Moves(u)
    <2>1. /\ stack' = stack /\ at[t].dir = "call"
          /\ CallNext(t) \/ Return(t, "error") \/ at' = at
      BY <1>5 DEF SetNX, Called
    <2> QED
      BY <1>5, <2>1, <1>f DEF Acquires, CallNext, Return, Move, Moves
  <1>6. ASSUME NEW t \in Thread, TurnedAway(t) \/ Del(t) \/ DelResent(t)
        PROVE  stack' = stack /\ at' = [u \in Thread |-> at'[u]] /\ \A u \in Thread : Moves(u)
    BY <1>6, <1>e, <1>f DEF TurnedAway, Del, DelResent, Called, Resumed, Return, Move, Moves
  <1>7. ASSUME NEW t \in Thread, Attempt(t)
        PROVE  stack' = stack /\ at' = [u \in Thread |-> at'[u]] /\ \A u \in Thread : Moves(u)
    <2>1. /\ stack' = stack /\ at[t].dir = "call" /\ In(t, "rate_limit")
          /\ Undo(t, "release") \/ CallNext(t) \/ Return(t, "error") \/ at' = at
      BY <1>7 DEF Attempt, Called
    <2>2. ~In(t, "lock")
      BY <2>1 DEF In
    <2> QED
      BY <1>7, <2>1, <2>2, <1>f DEF Undo, CallNext, Return, Move, Moves
  <1>8. ASSUME NEW t \in Thread, AttemptFails(t) \/ Keep(t) \/ Decr(t) \/ DecrResent(t)
        PROVE  stack' = stack /\ at' = [u \in Thread |-> at'[u]] /\ \A u \in Thread : Moves(u)
    BY <1>8, <1>e, <1>f DEF AttemptFails, Keep, Decr, DecrResent, Refunds, Called, Resumed, Undoing,
                            Return, Move, Moves
  <1>9. ASSUME NEW t \in Thread, ThrottleCalled(t)
        PROVE  stack' = stack /\ at' = [u \in Thread |-> at'[u]] /\ \A u \in Thread : Moves(u)
    BY <1>9 DEF ThrottleCalled, Called, In, CallNext, Move, Moves
  <1>10. ASSUME NEW t \in Thread, Failed(t)
         PROVE  stack' = stack /\ at' = [u \in Thread |-> at'[u]] /\ \A u \in Thread : Moves(u)
    <2>1. /\ stack' = stack /\ In(t, "throttle") /\ at[t].dir # "idle"
          /\ Undo(t, "release") \/ Return(t, at[t].err)
      BY <1>10 DEF Failed, Resumed
    <2> QED
      BY <1>10, <2>1, <1>e, <1>f DEF Undo, Return, Move, Moves
  <1>11. ASSUME NEW t \in Thread, Succeeded(t) \/ FailedResent(t) \/ Uncounted(t) \/ DelCounter(t)
         PROVE  stack' = stack /\ at' = [u \in Thread |-> at'[u]] /\ \A u \in Thread : Moves(u)
    BY <1>11, <1>e, <1>f DEF Succeeded, FailedResent, Uncounted, DelCounter, Resumed, Undoing,
                             Return, Move, Moves
  <1>12. CASE Tick \/ UNCHANGED vars
    BY <1>12 DEF Tick, Advance, vars, pipeline, Moves
  <1> QED
    BY <1>1, <1>2, <1>3, <1>4, <1>5, <1>6, <1>7, <1>8, <1>9, <1>10, <1>11, <1>12
       DEF Next, TimeoutNext, LockNext, LimiterNext, ThrottleNext

-----------------------------------------------------------------------------
(* The stack is what a goroutine cannot leave by any other way than it     *)
(* came: it never returns past the place it was started at, which is the   *)
(* top, or the place below a Timeout.                                      *)
Control ==
    \A t \in Thread :
        /\ at[t].first <= at[t].index
        /\ at[t].dir # "idle" =>
             \/ at[t].first = 1
             \/ \E k \in DOMAIN stack : stack[k] = "timeout" /\ at[t].first = k + 1

(* The stacks are sequences of middleware without repetition.              *)
LEMMA StackFacts ==
    ASSUME TypeOK
    PROVE  /\ Len(stack) \in Nat
           /\ DOMAIN stack = 1..Len(stack)
           /\ \A i, j \in DOMAIN stack : stack[i] = stack[j] => i = j
  BY PipelineAssumption DEF PipelineAssumption, TypeOK, PipelineTypeOK

(* A return goes outwards, ends, or is sent to Timeout.                    *)
LEMMA ReturnFacts ==
    ASSUME TypeOK, Control, NEW t \in Thread, NEW e \in Result
    PROVE  LET s == Returned(t, e)
           IN  /\ s \in Execution
               /\ \/ s = Idle
                  \/ s.dir = "sent" /\ s.index = at[t].index /\ s.first = at[t].first
                     /\ at[t].index = at[t].first
                  \/ s.dir = "ret" /\ s.index = at[t].index - 1 /\ s.first = at[t].first
                     /\ at[t].first < at[t].index
  <1>1. at[t] \in Execution
    BY DEF TypeOK, PipelineTypeOK
  <1>2. at[t].first \in Nat /\ at[t].index \in Nat /\ at[t].first <= at[t].index
    BY <1>1 DEF Execution, Control
  <1>3. "nil" \in Result
    BY DEF Result
  <1> QED
    BY <1>1, <1>2, <1>3 DEF Returned, Exec, Idle, Execution

(* The place of a goroutine after a step.                                  *)
LEMMA MoveFacts ==
    ASSUME TypeOK, Control, NEW t \in Thread, Moves(t), stack' = stack
    PROVE  /\ at'[t] \in Execution
           /\ at'[t].first <= at'[t].index
           /\ at'[t].dir # "idle" =>
                \/ at'[t].first = 1
                \/ \E k \in DOMAIN stack : stack[k] = "timeout" /\ at'[t].first = k + 1
  <1>1. /\ at[t] \in Execution
        /\ at[t].first \in Nat /\ at[t].index \in Nat /\ at[t].first <= at[t].index
        /\ at[t].dir # "idle" =>
             \/ at[t].first = 1
             \/ \E k \in DOMAIN stack : stack[k] = "timeout" /\ at[t].first = k + 1
    BY DEF TypeOK, PipelineTypeOK, Control, Execution
  <1>2. CASE at'[t] = at[t]
    BY <1>1, <1>2
  <1>3. CASE at'[t] = Idle
    BY <1>3 DEF Idle, Exec, Execution, Result
  <1>4. CASE at[t].dir # "idle" /\ \E e \in Result : at'[t] = Returned(t, e)
    <2>1. PICK e \in Result : at'[t] = Returned(t, e)
      BY <1>4
    <2>2. CASE at'[t] = Idle
      BY <2>2 DEF Idle, Exec, Execution, Result
    <2>3. CASE at'[t] # Idle
      BY <1>1, <1>4, <2>1, <2>3, ReturnFacts
    <2> QED
      BY <2>2, <2>3
  <1>5. CASE /\ \E e \in Result : at'[t] = Exec("undo", at[t].index, at[t].first, e)
             /\ at[t].dir # "idle"
    BY <1>1, <1>5 DEF Exec, Execution
  <1>6. CASE /\ at'[t] = Exec("call", at[t].index + 1, at[t].first, "nil")
             /\ at[t].dir = "call"
    BY <1>1, <1>6 DEF Exec, Execution, Result
  <1>7. CASE /\ at'[t] = Exec("wait", at[t].index, at[t].first, "nil")
             /\ at[t].dir = "call"
    BY <1>1, <1>7 DEF Exec, Execution, Result
  <1>8. CASE at'[t] = Entered(1)
    BY <1>8 DEF Entered, Exec, Execution, Result
  <1>9. CASE \E k \in DOMAIN stack : stack[k] = "timeout" /\ at'[t] = Entered(k + 1)
    BY <1>9, StackFacts DEF Entered, Exec, Execution, Result
  <1> QED
    BY <1>2, <1>3, <1>4, <1>5, <1>6, <1>7, <1>8, <1>9 DEF Moves

(* A goroutine is inside the lock after a step only if it was before, or   *)
(* if this is the step by which it set the key.                            *)
LEMMA HoldsFacts ==
    ASSUME TypeOK, Control, NEW t \in Thread, Moves(t), ~Acquires(t), stack' = stack,
           Holds(t)'
    PROVE  Holds(t)
  <1>1. /\ at[t] \in Execution
        /\ at[t].first \in Nat /\ at[t].index \in Nat /\ at[t].first <= at[t].index
    BY DEF TypeOK, PipelineTypeOK, Control, Execution
  <1>2. PICK i \in DOMAIN stack :
            /\ stack[i] = "lock"
            /\ at'[t].first <= i
            /\ i < at'[t].index \/ (i = at'[t].index /\ at'[t].dir = "ret")
    BY DEF Holds
  <1>3. i \in Nat \ {0}
    BY StackFacts
  <1>4. CASE at'[t] = at[t]
    BY <1>2, <1>4 DEF Holds
  <1>5. CASE at'[t] = Idle
    BY <1>2, <1>3, <1>5 DEF Idle, Exec
  <1>6. CASE \E e \in Result : at'[t] = Returned(t, e)
    <2>1. PICK e \in Result : at'[t] = Returned(t, e)
      BY <1>6
    <2>2. at'[t] # Idle
      BY <1>2, <1>3 DEF Idle, Exec
    <2>3. at'[t].first = at[t].first /\ i < at[t].index
      BY <1>1, <1>2, <1>3, <2>1, <2>2, ReturnFacts
    <2> QED
      BY <1>2, <2>3 DEF Holds
  <1>7. CASE \E e \in Result : at'[t] = Exec("undo", at[t].index, at[t].first, e)
    BY <1>2, <1>3, <1>7 DEF Exec, Holds
  <1>8. CASE at'[t] = Exec("call", at[t].index + 1, at[t].first, "nil") /\ ~In(t, "lock")
    BY <1>1, <1>2, <1>3, <1>8 DEF Exec, In, Holds
  <1>9. CASE at'[t] = Exec("wait", at[t].index, at[t].first, "nil")
    BY <1>2, <1>3, <1>9 DEF Exec, Holds
  <1>10. CASE \E k \in Nat : at'[t] = Entered(k)
    BY <1>2, <1>3, <1>10 DEF Entered, Exec
  <1> QED
    BY <1>4, <1>5, <1>6, <1>7, <1>8, <1>9, <1>10, StackFacts DEF Moves

-----------------------------------------------------------------------------
(* A key without a TTL has never counted past 0, and a TTL is pending and  *)
(* at most a decay away.                                                   *)
TtlInv ==
    \A k \in Counter :
        /\ expireAt[k] = NoTtl => counter[k] <= 0
        /\ expireAt[k] # NoTtl => now < expireAt[k] /\ expireAt[k] <= now + Decay

(* The goroutines that the limiter turned away in this window and that     *)
(* have not taken their increment back.                                    *)
Over == {t \in Thread : Undoing(t, "rate_limit") /\ born[t] = window}

(* The counter is never below what the window let through and has still to *)
(* take back, but for the decrements that take back nothing it counted.    *)
LimiterInv ==
    /\ \A t \in Thread : born[t] <= window
    /\ used + Cardinality(Over) <= counter["rate_limit"] + strayed
    /\ WindowBound

(* As many of the last errors as the throttle's counter says, less the     *)
(* counts that are no error of their own, were counted since its TTL was   *)
(* started.                                                                *)
ThrottleInv ==
    LET n == counter["throttle"] - recounted
    IN  /\ 0 <= n
        /\ n <= Len(failed) \/ Len(failed) = MaxExceptions
        /\ counter["throttle"] > 0 =>
             \A i \in 1..Len(failed) :
                 i > Len(failed) - n => failed[i] >= expireAt["throttle"] - Decay

MiddlewareInv ==
    /\ TypeOK
    /\ Control
    /\ KeyIsHeld
    /\ TtlInv
    /\ LimiterInv
    /\ ThrottleInv

(* Sets of goroutines are finite.                                          *)
LEMMA ThreadsFinite ==
    /\ IsFiniteSet(Thread)
    /\ \A S \in SUBSET Thread : IsFiniteSet(S) /\ Cardinality(S) \in Nat
  <1>1. IsFiniteSet({"then", "next"})
    <2>1. {"then", "next"} = {"then"} \cup {"next"}
      OBVIOUS
    <2>2. IsFiniteSet({"then"}) /\ IsFiniteSet({"next"})
      BY FS_Singleton
    <2>3. IsFiniteSet({"then"} \cup {"next"})
      BY <2>2, FS_Union, Zenon
    <2> QED
      BY <2>1, <2>3
  <1>2. IsFiniteSet(Thread)
    BY <1>1, PipelineAssumption, FS_Product DEF PipelineAssumption, Thread
  <1> QED
    BY <1>2, FS_Subset, FS_CardinalityType

-----------------------------------------------------------------------------
(* Initially nobody runs and there is no key.                              *)
LEMMA MiddlewareInit == Init => MiddlewareInv
  <1> SUFFICES ASSUME Init PROVE MiddlewareInv
    OBVIOUS
  <1> USE DEF Init, PipelineInit, TimeoutInit, LockInit, CounterInit, LimiterInit, ThrottleInit
  <1>1. Idle \in Execution
    BY DEF Idle, Exec, Execution, Result
  <1>2. TypeOK
    BY <1>1, PipelineAssumption, ThrottleAssumption
       DEF PipelineAssumption, ThrottleAssumption, TypeOK, PipelineTypeOK, LockTypeOK,
           CounterTypeOK, LimiterTypeOK, ThrottleTypeOK, NoTtl, Counter
  <1>3. Control
    BY DEF Control, Idle, Exec
  <1>4. \A t \in Thread : ~Holds(t)
    BY <1>2, StackFacts DEF Holds, Idle, Exec
  <1>5. KeyIsHeld
    BY <1>4 DEF KeyIsHeld
  <1>6. TtlInv
    BY DEF TtlInv
  <1>7. Over = {}
    BY DEF Over, Undoing, Idle, Exec
  <1>8. LimiterInv
    BY <1>7, FS_EmptySet, LimiterAssumption
       DEF LimiterAssumption, LimiterInv, WindowBound, Counter
  <1>9. ThrottleInv
    BY ThrottleAssumption DEF ThrottleAssumption, ThrottleInv, Counter
  <1> QED
    BY <1>2, <1>3, <1>5, <1>6, <1>8, <1>9 DEF MiddlewareInv

(* The control of the goroutines, from what a step does to each of them.   *)
LEMMA ControlStep ==
    ASSUME TypeOK, Control, [Next]_vars
    PROVE  Control' /\ at' \in [Thread -> Execution] /\ stack' = stack
  <1>1. /\ stack' = stack
        /\ at' = [u \in Thread |-> at'[u]]
        /\ \A u \in Thread : Moves(u)
    BY StepMoves
  <1>2. \A t \in Thread :
           /\ at'[t] \in Execution
           /\ at'[t].first <= at'[t].index
           /\ at'[t].dir # "idle" =>
                \/ at'[t].first = 1
                \/ \E k \in DOMAIN stack : stack[k] = "timeout" /\ at'[t].first = k + 1
    BY <1>1, MoveFacts
  <1> QED
    BY <1>1, <1>2 DEF Control

(* The counters of Redis keep their types.                                 *)
LEMMA CounterTypes ==
    ASSUME CounterTypeOK, NEW k \in Counter, NEW time \in Nat
    PROVE  /\ LuaIncr(k, time) => CounterTypeOK'
           /\ DecrKey(k) => CounterTypeOK'
           /\ \A K \in SUBSET Counter : Remove(K) => CounterTypeOK'
           /\ UNCHANGED counters => CounterTypeOK'
  BY CounterAssumption DEF CounterAssumption, CounterTypeOK, LuaIncr, DecrKey, Remove, counters, NoTtl

(* An error that is counted is the last of the history, behind the others  *)
(* or all of them but the first.                                           *)
LEMMA CountFailureIs ==
    ASSUME ThrottleTypeOK, now \in 0..MaxNow, CountFailure
    PROVE  /\ failed' \in Seq(0..MaxNow) /\ Len(failed') <= MaxExceptions
           /\ Len(failed) \in Nat /\ Len(failed') \in Nat \ {0}
           /\ failed'[Len(failed')] = now
           /\ \/ /\ Len(failed) < MaxExceptions /\ Len(failed') = Len(failed) + 1
                 /\ \A i \in 1..(Len(failed') - 1) : failed'[i] = failed[i]
              \/ /\ Len(failed) = MaxExceptions /\ Len(failed') = MaxExceptions
                 /\ \A i \in 1..(Len(failed') - 1) : failed'[i] = failed[i + 1]
  <1>1. /\ failed \in Seq(0..MaxNow) /\ Len(failed) \in Nat /\ Len(failed) <= MaxExceptions
        /\ MaxExceptions \in Nat \ {0} /\ now \in 0..MaxNow
    BY ThrottleAssumption DEF ThrottleAssumption, ThrottleTypeOK
  <1>2. CASE Len(failed) < MaxExceptions
    <2>1. failed' = Append(failed, now)
      BY <1>2 DEF CountFailure
    <2>2. /\ failed' \in Seq(0..MaxNow) /\ Len(failed') = Len(failed) + 1
          /\ failed'[Len(failed) + 1] = now
          /\ \A i \in 1..Len(failed) : failed'[i] = failed[i]
      BY <1>1, <2>1
    <2> QED
      BY <1>1, <1>2, <2>2
  <1>3. CASE Len(failed) = MaxExceptions
    <2> DEFINE t == Tail(failed)
    <2>1. failed' = Append(t, now) /\ failed # <<>>
      BY <1>1, <1>3 DEF CountFailure
    <2>2. /\ t \in Seq(0..MaxNow) /\ Len(t) = Len(failed) - 1 /\ Len(t) \in Nat
          /\ \A i \in 1..Len(t) : t[i] = failed[i + 1]
      BY <1>1, <2>1
    <2> HIDE DEF t
    <2>3. /\ failed' \in Seq(0..MaxNow) /\ Len(failed') = Len(t) + 1
          /\ failed'[Len(t) + 1] = now
          /\ \A i \in 1..Len(t) : failed'[i] = t[i]
      BY <1>1, <2>1, <2>2
    <2> QED
      BY <1>1, <1>3, <2>2, <2>3
  <1> QED
    BY <1>1, <1>2, <1>3

(* Every variable keeps its type.                                          *)
LEMMA TypeStep ==
    ASSUME TypeOK, Control, [Next]_vars
    PROVE  TypeOK'
  <1>a. Control' /\ at' \in [Thread -> Execution] /\ stack' = stack
    BY ControlStep
  <1>c. "rate_limit" \in Counter /\ "throttle" \in Counter
    BY DEF Counter
  <1>n. now \in Nat /\ faults \in Nat /\ MaxNow \in Nat /\ MaxFaults \in Nat
    BY PipelineAssumption DEF PipelineAssumption, TypeOK, PipelineTypeOK
  <1>f. Fault => faults' \in 0..MaxFaults
    BY <1>n DEF Fault
  <1>p. faults' \in 0..MaxFaults /\ now' \in 0..MaxNow => PipelineTypeOK'
    BY <1>a DEF TypeOK, PipelineTypeOK
  <1>1. CASE /\ (\E r \in Runner : Then(r) \/ Crash(r)) \/ (\E t \in Thread : Handler(t))
             /\ UNCHANGED <<deadline, lock, counters, hist, errors>>
    <2>1. faults' \in 0..MaxFaults /\ now' \in 0..MaxNow
      BY <1>1, <1>f DEF Then, Crash, Handler, TypeOK, PipelineTypeOK
    <2> QED
      BY <1>1, <1>p, <2>1 DEF TypeOK, LockTypeOK, CounterTypeOK, LimiterTypeOK, ThrottleTypeOK,
                              lock, counters, hist, errors
  <1>2. CASE TimeoutNext /\ UNCHANGED <<lock, counters, hist, errors>>
    <2>1. faults' \in 0..MaxFaults /\ now' \in 0..MaxNow
      BY <1>2 DEF TimeoutNext, Timeout, TimeoutReturns, DoneFirst, TimedOut, TypeOK, PipelineTypeOK
    <2>2. deadline' \in [Runner -> Nat]
      BY <1>2, <1>n, TimeoutAssumption
         DEF TimeoutNext, Timeout, TimeoutReturns, DoneFirst, TimedOut, TypeOK, TimeoutAssumption
    <2> QED
      BY <1>2, <1>p, <2>1, <2>2 DEF TypeOK, LockTypeOK, CounterTypeOK, LimiterTypeOK,
                                    ThrottleTypeOK, lock, counters, hist, errors
  <1>3. CASE LockNext /\ UNCHANGED <<deadline, counters, hist, errors>>
    <2>1. faults' \in 0..MaxFaults /\ now' \in 0..MaxNow
      BY <1>3, <1>f DEF LockNext, SetNX, TurnedAway, Del, DelResent, TypeOK, PipelineTypeOK
    <2>2. LockTypeOK'
      BY <1>3, <1>n, LockAssumption
         DEF LockNext, SetNX, TurnedAway, Del, DelResent, lock, TypeOK, LockTypeOK, LockAssumption
    <2> QED
      BY <1>3, <1>p, <2>1, <2>2 DEF TypeOK, CounterTypeOK, LimiterTypeOK, ThrottleTypeOK,
                                    counters, hist, errors
  <1>4. CASE LimiterNext /\ UNCHANGED <<deadline, lock, errors>>
    <2>1. faults' \in 0..MaxFaults /\ now' \in 0..MaxNow
      BY <1>4, <1>f DEF LimiterNext, Attempt, AttemptFails, Keep, Decr, DecrResent, TypeOK, PipelineTypeOK
    <2>2. LimiterTypeOK'
      BY <1>4 DEF LimiterNext, Attempt, AttemptFails, Keep, Decr, DecrResent, hist, TypeOK, LimiterTypeOK
    <2>3. LuaIncr("rate_limit", now) \/ DecrKey("rate_limit") \/ UNCHANGED counters
      BY <1>4 DEF LimiterNext, Attempt, AttemptFails, Keep, Decr, DecrResent
    <2>4. CounterTypeOK'
      BY <2>3, <1>c, <1>n, CounterTypes DEF TypeOK
    <2> QED
      BY <1>4, <1>p, <2>1, <2>2, <2>4 DEF TypeOK, LockTypeOK, ThrottleTypeOK, lock, errors
  <1>5. CASE ThrottleNext /\ UNCHANGED <<deadline, lock, hist>>
    <2>1. faults' \in 0..MaxFaults /\ now' \in 0..MaxNow
      BY <1>5, <1>f DEF ThrottleNext, ThrottleCalled, Succeeded, Failed, FailedResent, Uncounted, DelCounter,
                        TypeOK, PipelineTypeOK
    <2>2. /\ CountFailure \/ UNCHANGED failed
          /\ recounted' \in {recounted, recounted + 1, 0}
      BY <1>5 DEF ThrottleNext, ThrottleCalled, Succeeded, Failed, FailedResent, Uncounted,
                  DelCounter, errors
    <2>3. ThrottleTypeOK'
      <3>1. CASE CountFailure
        BY <2>2, <3>1, CountFailureIs DEF TypeOK, PipelineTypeOK, ThrottleTypeOK
      <3>2. CASE UNCHANGED failed
        BY <2>2, <3>2 DEF TypeOK, ThrottleTypeOK
      <3> QED
        BY <2>2, <3>1, <3>2
    <2>4. LuaIncr("throttle", now) \/ Remove({"throttle"}) \/ UNCHANGED counters
      BY <1>5 DEF ThrottleNext, ThrottleCalled, Succeeded, Failed, FailedResent, Uncounted, DelCounter
    <2>5. CounterTypeOK'
      BY <2>4, <1>c, <1>n, CounterTypes DEF TypeOK
    <2> QED
      BY <1>5, <1>p, <2>1, <2>3, <2>5 DEF TypeOK, LockTypeOK, LimiterTypeOK, lock, hist
  <1>6. CASE Tick
    <2>1. faults' \in 0..MaxFaults /\ now' \in 0..MaxNow
      BY <1>6, <1>n DEF Tick, Advance, TypeOK, PipelineTypeOK
    <2>2. CounterTypeOK'
      BY <1>6, <1>c, <1>n, CounterTypes DEF Tick, Expiring, TypeOK
    <2>3. LockTypeOK' /\ LimiterTypeOK' /\ ThrottleTypeOK'
      BY <1>6 DEF Tick, LockTick, LimiterTick, ThrottleTick, TypeOK, LockTypeOK, LimiterTypeOK,
                  ThrottleTypeOK
    <2> QED
      BY <1>6, <1>p, <2>1, <2>2, <2>3 DEF Tick, TypeOK
  <1>7. CASE UNCHANGED vars
    BY <1>7 DEF vars, pipeline, lock, counters, hist, errors, TypeOK, PipelineTypeOK, LockTypeOK,
                CounterTypeOK, LimiterTypeOK, ThrottleTypeOK
  <1> QED
    BY <1>1, <1>2, <1>3, <1>4, <1>5, <1>6, <1>7 DEF Next

-----------------------------------------------------------------------------
(* The key belongs to the one goroutine inside the lock. SetNX succeeds    *)
(* only when nobody is, Del comes from the one that is, DelResent disowns  *)
(* it, and no other step brings a goroutine inside.                        *)
LEMMA LockStep ==
    ASSUME TypeOK, Control, KeyIsHeld, [Next]_vars
    PROVE  KeyIsHeld'
  <1> SUFFICES ASSUME disowned' = {}
               PROVE  /\ \A t \in Thread : Holds(t)' => key' = until'[t] /\ now' < until'[t]
                      /\ \A t, u \in Thread : Holds(t)' /\ Holds(u)' => t = u
    BY DEF KeyIsHeld
  <1>m. /\ stack' = stack
        /\ \A u \in Thread : Moves(u)
        /\ at' \in [Thread -> Execution]
    BY StepMoves, ControlStep
  <1>h. \A t \in Thread : ~Acquires(t) /\ Holds(t)' => Holds(t)
    BY <1>m, HoldsFacts
  <1>o. disowned = {}
    <2>1. disowned \subseteq disowned'
      BY DEF Next, TimeoutNext, LockNext, LimiterNext, ThrottleNext, SetNX, TurnedAway, Del, DelResent,
             Tick, LockTick, lock, vars
    <2> QED
      BY <2>1
  <1>k. /\ \A t \in Thread : Holds(t) => key = until[t] /\ now < until[t]
        /\ \A t, u \in Thread : Holds(t) /\ Holds(u) => t = u
    BY <1>o DEF KeyIsHeld
  <1>n. now \in Nat /\ key \in Nat /\ until \in [Thread -> Nat] /\ at \in [Thread -> Execution]
    BY DEF TypeOK, PipelineTypeOK, LockTypeOK
  <1>1. ASSUME NEW t \in Thread, Acquires(t)
        PROVE  /\ \A u \in Thread : Holds(u)' => key' = until'[u] /\ now' < until'[u]
               /\ \A v, u \in Thread : Holds(v)' /\ Holds(u)' => v = u
    <2>1. /\ key <= now /\ key' = now + Ttl /\ now' = now
          /\ until' = [until EXCEPT ![t] = now + Ttl]
          /\ \A u \in Thread : u # t => at'[u] = at[u]
      <3>1. /\ at'[t] = Exec("call", at[t].index + 1, at[t].first, "nil")
            /\ \A u \in Thread : u # t => at'[u] = at[u]
        BY <1>1, <1>n DEF Acquires, CallNext, Move
      <3>2. at'[t].dir = "call" /\ at'[t].index = at[t].index + 1 /\ at[t].index \in Nat
        BY <3>1, <1>n DEF Exec, Execution
      <3>3. ~Return(t, "error")
        BY <3>2, <1>n DEF Return, Move, Returned, Exec, Idle
      <3>4. at' # at
        BY <3>2
      <3> QED
        BY <1>1, <3>1, <3>3, <3>4 DEF Acquires, SetNX
    <2>2. \A u \in Thread : ~Holds(u)
      BY <2>1, <1>k, <1>n
    <2>3. \A u \in Thread : u # t => ~Holds(u)'
      BY <2>1, <2>2, <1>m DEF Holds
    <2> QED
      BY <2>1, <2>3, <1>n, LockAssumption DEF LockAssumption
  <1>2. ASSUME \A t \in Thread : ~Acquires(t)
        PROVE  \A t \in Thread : Holds(t)' => key' = until'[t] /\ now' < until'[t]
    <2>1. ASSUME NEW t \in Thread, SetNX(t)
          PROVE  \A u \in Thread : ~Holds(u)'
      <3>1. key <= now
        BY <2>1 DEF SetNX
      <3> QED
        BY <3>1, <1>2, <1>h, <1>k, <1>n
    <2>2. ASSUME NEW t \in Thread, Del(t)
          PROVE  \A u \in Thread : ~Holds(u)'
      <3>1. /\ at[t].dir = "ret" /\ at[t].index \in DOMAIN stack /\ stack[at[t].index] = "lock"
            /\ at'[t] = Returned(t, at[t].err)
        BY <2>2, <1>n DEF Del, Resumed, In, Return, Move
      <3>2. /\ at[t].err \in Result /\ at[t].first \in Nat /\ at[t].index \in Nat
            /\ at[t].first <= at[t].index
        BY <1>n DEF Execution, Control
      <3>3. Holds(t)
        BY <3>1, <3>2 DEF Holds
      <3>4. \A i \in DOMAIN stack : i \in Nat \ {0} /\ (stack[i] = "lock" => i = at[t].index)
        BY <3>1, StackFacts
      <3>5. \/ at'[t] = Idle
            \/ at'[t].index = at[t].index /\ at'[t].dir = "sent" /\ at'[t].first = at[t].index
            \/ at'[t].index = at[t].index - 1
        BY <3>1, <3>2, ReturnFacts
      <3>6. ~Holds(t)'
        BY <3>2, <3>4, <3>5, <1>m DEF Holds, Idle, Exec
      <3> QED
        BY <3>3, <3>6, <1>2, <1>h, <1>k
    <2>3. CASE Tick
      <3>1. now' = now + 1 /\ key' = key /\ until' = until
        BY <2>3 DEF Tick, Advance, LockTick
      <3>2. \A t \in Thread : Holds(t) => ~(until[t] <= now')
        BY <2>3 DEF Tick, LockTick
      <3> QED
        BY <3>1, <3>2, <1>2, <1>h, <1>k, <1>n
    <2>4. CASE UNCHANGED <<key, until, now>>
      BY <2>4, <1>2, <1>h, <1>k
    <2>5. \/ \E t \in Thread : SetNX(t) \/ Del(t) \/ DelResent(t)
          \/ Tick
          \/ UNCHANGED <<key, until, now>>
      BY DEF Next, Then, Crash, Handler, TimeoutNext, Timeout, TimeoutReturns, DoneFirst, TimedOut,
             LockNext, TurnedAway, LimiterNext, Attempt, AttemptFails, Keep, Decr, DecrResent,
             ThrottleNext, ThrottleCalled, Succeeded, Failed, FailedResent, Uncounted, DelCounter,
             lock, pipeline, vars
    <2>6. ASSUME NEW t \in Thread, DelResent(t) PROVE FALSE
      BY <2>6 DEF DelResent
    <2> QED
      BY <2>1, <2>2, <2>3, <2>4, <2>5, <2>6
  <1>3. ASSUME \A t \in Thread : ~Acquires(t)
        PROVE  \A t, u \in Thread : Holds(t)' /\ Holds(u)' => t = u
    BY <1>3, <1>h, <1>k
  <1> QED
    BY <1>1, <1>2, <1>3

-----------------------------------------------------------------------------
(* The counters of the limiter and of the throttle, and the clock.         *)
LEMMA CounterStep ==
    ASSUME TypeOK, [Next]_vars
    PROVE  \/ /\ now' = now
              /\ \/ LuaIncr("rate_limit", now) \/ DecrKey("rate_limit")
                 \/ LuaIncr("throttle", now) \/ Remove({"throttle"})
                 \/ UNCHANGED counters
           \/ now' = now + 1 /\ Remove(Expiring(now'))
  <1>1. CASE LimiterNext
    BY <1>1 DEF LimiterNext, Attempt, AttemptFails, Keep, Decr, DecrResent
  <1>2. CASE ThrottleNext
    BY <1>2 DEF ThrottleNext, ThrottleCalled, Succeeded, Failed, FailedResent, Uncounted, DelCounter
  <1>3. CASE Tick
    BY <1>3 DEF Tick, Advance
  <1>4. CASE UNCHANGED <<now, counters>>
    BY <1>4
  <1> QED
    BY <1>1, <1>2, <1>3, <1>4
       DEF Next, Then, Crash, Handler, TimeoutNext, Timeout, TimeoutReturns, DoneFirst, TimedOut,
           LockNext, SetNX, TurnedAway, Del, DelResent, pipeline, vars

(* No step leaves a counter that has counted without a pending expiry.     *)
LEMMA TtlStep ==
    ASSUME TypeOK, TtlInv, [Next]_vars
    PROVE  TtlInv'
  <1>n. now \in Nat /\ counter \in [Counter -> Int] /\ expireAt \in [Counter -> {NoTtl} \cup Nat]
    BY DEF TypeOK, PipelineTypeOK, CounterTypeOK
  <1>1. ASSUME NEW k \in Counter, LuaIncr(k, now), now' = now PROVE TtlInv'
    BY <1>1, <1>n, CounterAssumption DEF CounterAssumption, TtlInv, LuaIncr, NoTtl
  <1>2. ASSUME NEW k \in Counter, DecrKey(k), now' = now PROVE TtlInv'
    BY <1>2, <1>n DEF TtlInv, DecrKey
  <1>3. ASSUME Remove({"throttle"}), now' = now PROVE TtlInv'
    BY <1>3, <1>n DEF TtlInv, Remove
  <1>4. ASSUME UNCHANGED counters, now' = now PROVE TtlInv'
    BY <1>4 DEF TtlInv, counters
  <1>5. ASSUME now' = now + 1, Remove(Expiring(now')) PROVE TtlInv'
    BY <1>5, <1>n, CounterAssumption DEF CounterAssumption, TtlInv, Remove, Expiring, NoTtl
  <1> QED
    BY <1>1, <1>2, <1>3, <1>4, <1>5, CounterStep DEF Counter

-----------------------------------------------------------------------------
(* No step but Attempt makes a goroutine take back an increment.           *)
LEMMA UndoFacts ==
    ASSUME TypeOK, Control, NEW t \in Thread, Moves(t), ~Attempt(t), stack' = stack,
           Undoing(t, "rate_limit")'
    PROVE  Undoing(t, "rate_limit") /\ at'[t] = at[t]
  <1>1. at'[t].dir = "undo" /\ stack[at'[t].index] = "rate_limit"
    BY DEF Undoing, In
  <1>2. \A e \in Result : at'[t] # Returned(t, e)
    BY <1>1 DEF Returned, Exec, Idle
  <1>3. ASSUME In(t, "throttle"), NEW e \in Result,
               at'[t] = Exec("undo", at[t].index, at[t].first, e)
        PROVE  FALSE
    <2>1. at'[t].index = at[t].index
      BY <1>3 DEF Exec
    <2>2. stack[at[t].index] = "throttle"
      BY <1>3 DEF In
    <2> QED
      BY <1>1, <2>1, <2>2
  <1>4. /\ at'[t] # Idle
        /\ at'[t] # Exec("call", at[t].index + 1, at[t].first, "nil")
        /\ at'[t] # Exec("wait", at[t].index, at[t].first, "nil")
        /\ \A k \in Nat : at'[t] # Entered(k)
    BY <1>1 DEF Idle, Exec, Entered
  <1>5. at'[t] = at[t]
    BY <1>2, <1>3, <1>4, StackFacts DEF Moves
  <1> QED
    BY <1>5 DEF Undoing, In

(* The goroutines over the limit grow by the one that Attempt turns away,  *)
(* and a decrement that is not a refund takes one out.                     *)
LEMMA LimiterStep ==
    ASSUME TypeOK, Control, LimiterInv, [Next]_vars
    PROVE  LimiterInv'
  <1>m. /\ stack' = stack
        /\ \A u \in Thread : Moves(u)
        /\ at' \in [Thread -> Execution]
    BY StepMoves, ControlStep
  <1>n. /\ used \in Int /\ strayed \in Nat /\ window \in Nat /\ MaxAttempts \in Nat
        /\ counter \in [Counter -> Int] /\ born \in [Thread -> Nat] /\ now \in Nat
        /\ at \in [Thread -> Execution] /\ "rate_limit" \in Counter /\ "throttle" # "rate_limit"
    BY LimiterAssumption DEF LimiterAssumption, TypeOK, PipelineTypeOK, CounterTypeOK,
                             LimiterTypeOK, Counter
  <1>c. /\ Over \subseteq Thread /\ IsFiniteSet(Over) /\ Cardinality(Over) \in Nat
        /\ \A S \in SUBSET Over : Cardinality(S) \in Nat /\ Cardinality(S) <= Cardinality(Over)
    <2>1. Over \in SUBSET Thread
      BY DEF Over
    <2> QED
      BY <2>1, ThreadsFinite, FS_Subset
  <1>i. /\ \A t \in Thread : born[t] <= window
        /\ used + Cardinality(Over) <= counter["rate_limit"] + strayed
        /\ used <= MaxAttempts + strayed
    BY DEF LimiterInv, WindowBound
  <1>1. ASSUME NEW t \in Thread, Attempt(t) PROVE LimiterInv'
    <2>1. /\ counter'["rate_limit"] = counter["rate_limit"] + 1
          /\ strayed' = strayed /\ window' = window
          /\ born' = [born EXCEPT ![t] = window]
          /\ at[t].dir = "call"
      BY <1>1, <1>n DEF Attempt, LuaIncr, Called
    <2>2. \A u \in Thread : u # t => at'[u] = at[u]
      BY <1>1, <1>n DEF Attempt, Undo, CallNext, Return, Move
    <2>3. Over' \subseteq Over \cup {t}
      BY <2>1, <2>2, <1>m, <1>n DEF Over, Undoing, In
    <2>4. t \notin Over
      BY <2>1 DEF Over, Undoing
    <2>5. \A u \in Thread : born'[u] <= window'
      BY <2>1, <1>i, <1>n
    <2>6. CASE /\ counter'["rate_limit"] <= MaxAttempts
               /\ CallNext(t) /\ used' = used + 1
      <3>1. t \notin Over'
        BY <2>6, <1>n DEF CallNext, Move, Exec, Over, Undoing
      <3>2. Over' \subseteq Over
        BY <2>3, <3>1
      <3>3. Cardinality(Over') \in Nat /\ Cardinality(Over') <= Cardinality(Over)
        BY <3>2, <1>c
      <3> QED
        BY <2>1, <2>5, <2>6, <3>3, <1>c, <1>i, <1>n DEF LimiterInv, WindowBound
    <2>7. CASE used' = used
      <3>1. /\ IsFiniteSet(Over \cup {t})
            /\ Cardinality(Over \cup {t}) = Cardinality(Over) + 1
        BY <2>4, <1>c, FS_AddElement
      <3>2. Cardinality(Over') \in Nat /\ Cardinality(Over') <= Cardinality(Over) + 1
        BY <2>3, <3>1, FS_Subset, FS_CardinalityType
      <3> QED
        BY <2>1, <2>5, <2>7, <3>2, <1>c, <1>i, <1>n DEF LimiterInv, WindowBound
    <2> QED
      BY <1>1, <2>6, <2>7 DEF Attempt
  <1>2. ASSUME \A t \in Thread : ~Attempt(t)
        PROVE  LimiterInv'
    <2>u. \A u \in Thread : Undoing(u, "rate_limit")' => Undoing(u, "rate_limit") /\ at'[u] = at[u]
      BY <1>2, <1>m, UndoFacts
    <2>1. ASSUME NEW t \in Thread, Decr(t) PROVE LimiterInv'
      <3>1. /\ window' = window /\ born' = [born EXCEPT ![t] = 0]
            /\ at[t].dir \in {"ret", "undo"}
            /\ Return(t, at[t].err)
        BY <2>1 DEF Decr, Refunds, Resumed, Undoing
      <3>2. ~Undoing(t, "rate_limit")'
        BY <3>1, <1>m, <1>n DEF Return, Move, Returned, Exec, Idle, Undoing
      <3>3. Over' \subseteq Over \ {t}
        BY <3>1, <3>2, <2>u, <1>n DEF Over
      <3>4. \A u \in Thread : born'[u] <= window'
        BY <3>1, <1>i, <1>n
      <3>5. Cardinality(Over') \in Nat /\ Cardinality(Over') <= Cardinality(Over)
        BY <3>3, <1>c
      <3>6. t \in Over => Cardinality(Over') <= Cardinality(Over) - 1
        <4>1. IsFiniteSet(Over \ {t})
              /\ (t \in Over => Cardinality(Over \ {t}) = Cardinality(Over) - 1)
          BY <1>c, FS_RemoveElement
        <4>2. Cardinality(Over') <= Cardinality(Over \ {t})
          BY <3>3, <4>1, FS_Subset
        <4> QED
          BY <4>1, <4>2
      <3>7. CASE /\ counter'["rate_limit"] = counter["rate_limit"] - 1
                 /\ strayed' = strayed + 1 /\ used' = used
        BY <3>4, <3>5, <3>7, <1>c, <1>i, <1>n DEF LimiterInv, WindowBound
      <3>8. CASE /\ counter'["rate_limit"] = counter["rate_limit"] - 1
                 /\ strayed' = strayed /\ used' = used - 1
        BY <3>4, <3>5, <3>8, <1>c, <1>i, <1>n DEF LimiterInv, WindowBound
      <3>9. CASE /\ counter'["rate_limit"] = counter["rate_limit"] - 1
                 /\ strayed' = strayed /\ used' = used /\ t \in Over
        BY <3>4, <3>5, <3>6, <3>9, <1>c, <1>i, <1>n DEF LimiterInv, WindowBound
      <3>10. CASE counter' = counter /\ strayed' = strayed /\ used' = used
        BY <3>4, <3>5, <3>10, <1>c, <1>i, <1>n DEF LimiterInv, WindowBound
      <3> QED
        BY <2>1, <3>7, <3>8, <3>9, <3>10, <1>n DEF Decr, Refunds, Resumed, DecrKey, Over, counters
    <2>2. CASE Tick /\ "rate_limit" \in Expiring(now')
      <3>1. /\ used' = 0 /\ window' = window + 1 /\ born' = born /\ strayed' = 0
            /\ counter'["rate_limit"] = 0
        BY <2>2, <1>n DEF Tick, LimiterTick, Remove
      <3>2. Over' = {}
        BY <3>1, <1>i, <1>n DEF Over
      <3> QED
        BY <3>1, <3>2, <1>i, <1>n, FS_EmptySet DEF LimiterInv, WindowBound
    <2>3. CASE /\ counter'["rate_limit"] = counter["rate_limit"]
               /\ UNCHANGED <<used, window, strayed>>
               /\ \A u \in Thread : born'[u] = born[u] \/ (at'[u].dir # "undo" /\ born'[u] = 0)
      <3>1. Over' \subseteq Over
        BY <2>3, <2>u DEF Over, Undoing
      <3>2. Cardinality(Over') \in Nat /\ Cardinality(Over') <= Cardinality(Over)
        BY <3>1, <1>c
      <3>3. \A u \in Thread : born'[u] <= window'
        BY <2>3, <1>i, <1>n
      <3> QED
        BY <2>3, <3>2, <3>3, <1>c, <1>i, <1>n DEF LimiterInv, WindowBound
    <2>4. ASSUME NEW t \in Thread, Keep(t)
          PROVE  /\ counter'["rate_limit"] = counter["rate_limit"]
                 /\ UNCHANGED <<used, window, strayed>>
                 /\ \A u \in Thread : born'[u] = born[u] \/ (at'[u].dir # "undo" /\ born'[u] = 0)
      <3>1. at'[t].dir # "undo"
        BY <2>4, <1>n DEF Keep, Return, Move, Returned, Exec, Idle
      <3> QED
        BY <2>4, <3>1, <1>n DEF Keep, counters
    <2>5. CASE Tick /\ "rate_limit" \notin Expiring(now')
      <3>1. counter'["rate_limit"] = counter["rate_limit"] /\ UNCHANGED hist
        BY <2>5, <1>n DEF Tick, LimiterTick, Remove, hist
      <3> QED
        BY <3>1, <2>3 DEF hist
    <2>6. CASE ThrottleNext /\ UNCHANGED hist
      <3>1. counter'["rate_limit"] = counter["rate_limit"]
        BY <2>6, <1>n DEF ThrottleNext, ThrottleCalled, Succeeded, Failed, FailedResent, Uncounted, DelCounter,
                          LuaIncr, Remove, counters
      <3> QED
        BY <2>6, <3>1, <2>3 DEF hist
    <2>7. CASE UNCHANGED <<counters, hist>>
      BY <2>7, <2>3 DEF counters, hist
    <2>8. ASSUME NEW t \in Thread, DecrResent(t) PROVE LimiterInv'
      <3>1. /\ counter'["rate_limit"] = counter["rate_limit"] - 1 /\ strayed' = strayed + 1
            /\ used' = used /\ born' = born /\ window' = window /\ at' = at
        BY <2>8, <1>n DEF DecrResent, DecrKey
      <3>2. Over' = Over
        BY <3>1, <1>m DEF Over, Undoing, In
      <3> QED
        BY <3>1, <3>2, <1>c, <1>i, <1>n DEF LimiterInv, WindowBound
    <2> QED
      BY <1>2, <2>1, <2>2, <2>3, <2>4, <2>5, <2>6, <2>7, <2>8
         DEF Next, LimiterNext, AttemptFails, vars
  <1> QED
    BY <1>1, <1>2

-----------------------------------------------------------------------------
(* Only an error that is counted, or counted again, changes the throttle's *)
(* counter, but for the deletion of the key and its expiry.                *)
LEMMA ThrottleCounts ==
    ASSUME TypeOK, [Next]_vars
    PROVE  \/ /\ now' = now /\ LuaIncr("throttle", now)
              /\ \/ CountFailure /\ recounted' = recounted
                 \/ failed' = failed /\ recounted' = recounted + 1
           \/ /\ failed' = failed
              /\ \/ counter'["throttle"] = 0 /\ recounted' = 0
                 \/ /\ counter'["throttle"] = counter["throttle"]
                    /\ expireAt'["throttle"] = expireAt["throttle"]
                    /\ recounted' = recounted
  <1>n. /\ counter \in [Counter -> Int] /\ expireAt \in [Counter -> {NoTtl} \cup Nat]
        /\ "throttle" \in Counter /\ "throttle" # "rate_limit"
    BY DEF TypeOK, CounterTypeOK, Counter
  <1>1. CASE ThrottleNext
    BY <1>1, <1>n DEF ThrottleNext, ThrottleCalled, Succeeded, Failed, FailedResent, Uncounted,
                      DelCounter, Remove, counters, errors
  <1>2. CASE LimiterNext /\ UNCHANGED errors
    <2>1. LuaIncr("rate_limit", now) \/ DecrKey("rate_limit") \/ UNCHANGED counters
      BY <1>2 DEF LimiterNext, Attempt, AttemptFails, Keep, Decr, DecrResent
    <2> QED
      BY <1>2, <1>n, <2>1 DEF LuaIncr, DecrKey, counters, errors
  <1>3. CASE Tick
    BY <1>3, <1>n DEF Tick, ThrottleTick, Remove
  <1>4. CASE UNCHANGED <<counters, errors>>
    BY <1>4 DEF counters, errors
  <1> QED
    BY <1>1, <1>2, <1>3, <1>4 DEF Next, vars

LEMMA ThrottleStep ==
    ASSUME TypeOK, TtlInv, ThrottleInv, [Next]_vars
    PROVE  ThrottleInv'
  <1> DEFINE c == counter["throttle"]
             x == expireAt["throttle"]
             n == c - recounted
  <1>n. /\ counter \in [Counter -> Int] /\ expireAt \in [Counter -> {NoTtl} \cup Nat]
        /\ "throttle" \in Counter /\ c \in Int /\ x \in Int /\ now \in Nat /\ now \in 0..MaxNow
        /\ ThrottleTypeOK /\ Decay \in Nat /\ MaxExceptions \in Nat \ {0}
        /\ recounted \in Nat /\ Len(failed) \in Nat
    BY PipelineAssumption, CounterAssumption, ThrottleAssumption
       DEF PipelineAssumption, CounterAssumption, ThrottleAssumption, TypeOK, PipelineTypeOK,
           CounterTypeOK, ThrottleTypeOK, Counter, NoTtl
  <1>i. /\ 0 <= n
        /\ n <= Len(failed) \/ Len(failed) = MaxExceptions
        /\ c > 0 => \A i \in 1..Len(failed) : i > Len(failed) - n => failed[i] >= x - Decay
    BY DEF ThrottleInv
  <1>x. LuaIncr("throttle", now) =>
          /\ counter'["throttle"] = c + 1
          /\ expireAt'["throttle"] = IF c + 1 = 1 THEN now + Decay ELSE x
    BY <1>n DEF LuaIncr
  <1>1. CASE CountFailure /\ LuaIncr("throttle", now) /\ recounted' = recounted
    <2>1. /\ counter'["throttle"] = c + 1
          /\ expireAt'["throttle"] = IF c + 1 = 1 THEN now + Decay ELSE x
          /\ counter'["throttle"] - recounted' = n + 1
      BY <1>1, <1>x, <1>n
    <2>2. /\ Len(failed') \in Nat \ {0}
          /\ failed'[Len(failed')] = now
          /\ \/ /\ Len(failed) < MaxExceptions /\ Len(failed') = Len(failed) + 1
                /\ \A i \in 1..(Len(failed') - 1) : failed'[i] = failed[i]
             \/ /\ Len(failed) = MaxExceptions /\ Len(failed') = MaxExceptions
                /\ \A i \in 1..(Len(failed') - 1) : failed'[i] = failed[i + 1]
      BY <1>1, <1>n, CountFailureIs
    <2>4. c > 0 => x <= now + Decay
      BY <1>n DEF TtlInv
    <2>c. c = 0 => n = 0
      BY <1>n, <1>i
    <2>n. n \in Int /\ c >= 0
      BY <1>n, <1>i
    <2> HIDE DEF n, c, x
    <2>5. n + 1 >= 0 /\ (n + 1 <= Len(failed') \/ Len(failed') = MaxExceptions)
      BY <1>n, <1>i, <2>n, <2>2
    <2>6. ASSUME NEW i \in 1..Len(failed'), i > Len(failed') - (n + 1)
          PROVE  failed'[i] >= expireAt'["throttle"] - Decay
      <3>1. CASE i = Len(failed')
        BY <1>n, <2>1, <2>2, <2>4, <2>n, <3>1
      <3>2. CASE i # Len(failed')
        <4>1. n > 0
          BY <1>n, <2>2, <2>n, <2>6, <3>2
        <4>2. c > 0 /\ expireAt'["throttle"] = x
          BY <1>n, <2>1, <2>c, <2>n, <4>1
        <4>3. CASE Len(failed') = Len(failed) + 1
                   /\ \A j \in 1..(Len(failed') - 1) : failed'[j] = failed[j]
          <5>1. /\ i \in 1..(Len(failed') - 1) /\ i \in 1..Len(failed) /\ i > Len(failed) - n
            BY <1>n, <2>2, <2>n, <2>6, <3>2, <4>3
          <5> QED
            BY <1>i, <4>2, <4>3, <5>1
        <4>4. CASE Len(failed') = Len(failed)
                   /\ \A j \in 1..(Len(failed') - 1) : failed'[j] = failed[j + 1]
          <5>1. /\ i \in 1..(Len(failed') - 1) /\ i + 1 \in 1..Len(failed)
                /\ i + 1 > Len(failed) - n
            BY <1>n, <2>2, <2>n, <2>6, <3>2, <4>4
          <5> QED
            BY <1>i, <4>2, <4>4, <5>1
        <4> QED
          BY <2>2, <4>3, <4>4
      <3> QED
        BY <3>1, <3>2
    <2> QED
      BY <2>1, <2>5, <2>6 DEF ThrottleInv
  <1>2. CASE LuaIncr("throttle", now) /\ failed' = failed /\ recounted' = recounted + 1
    <2>1. /\ counter'["throttle"] = c + 1
          /\ expireAt'["throttle"] = IF c + 1 = 1 THEN now + Decay ELSE x
          /\ counter'["throttle"] - recounted' = n
      BY <1>2, <1>x, <1>n
    <2>2. ASSUME NEW i \in 1..Len(failed), i > Len(failed) - n
          PROVE  failed[i] >= expireAt'["throttle"] - Decay
      <3>1. c > 0
        BY <1>n, <1>i, <2>2
      <3> QED
        BY <1>n, <1>i, <2>1, <2>2, <3>1
    <2> QED
      BY <1>2, <1>i, <2>1, <2>2 DEF ThrottleInv
  <1>3. CASE failed' = failed /\ counter'["throttle"] = 0 /\ recounted' = 0
    BY <1>3, <1>n DEF ThrottleInv
  <1>4. CASE /\ failed' = failed
             /\ counter'["throttle"] = counter["throttle"]
             /\ expireAt'["throttle"] = expireAt["throttle"]
             /\ recounted' = recounted
    BY <1>4 DEF ThrottleInv
  <1> QED
    BY <1>1, <1>2, <1>3, <1>4, ThrottleCounts

(* A goroutine begins to delete the counter only by Failed.                *)
LEMMA TripFacts ==
    ASSUME TypeOK, NEW t \in Thread, Moves(t), stack' = stack,
           Undoing(t, "throttle")', ~Undoing(t, "throttle")
    PROVE  Failed(t) /\ at'[t].dir = "undo"
  <1>1. at'[t].dir = "undo" /\ stack[at'[t].index] = "throttle"
    BY DEF Undoing, In
  <1>2. at'[t] # at[t]
    BY DEF Undoing, In
  <1>3. \A e \in Result : at'[t] # Returned(t, e)
    BY <1>1 DEF Returned, Exec, Idle
  <1>4. /\ at'[t] # Idle
        /\ at'[t] # Exec("call", at[t].index + 1, at[t].first, "nil")
        /\ at'[t] # Exec("wait", at[t].index, at[t].first, "nil")
        /\ \A k \in Nat : at'[t] # Entered(k)
    BY <1>1 DEF Idle, Exec, Entered
  <1>5. /\ \E e \in Result : at'[t] = Exec("undo", at[t].index, at[t].first, e)
        /\ (In(t, "throttle") /\ Failed(t)) \/ Attempt(t)
    BY <1>2, <1>3, <1>4, StackFacts DEF Moves
  <1>6. at'[t].index = at[t].index
    BY <1>5 DEF Exec
  <1>7. ~Attempt(t)
    BY <1>1, <1>6 DEF Attempt, Called, In
  <1> QED
    BY <1>1, <1>5, <1>7

-----------------------------------------------------------------------------
(* The inductive invariant of the composed middleware.                     *)
THEOREM MiddlewareInvHolds == Spec => []MiddlewareInv
  <1>1. MiddlewareInv /\ [Next]_vars => MiddlewareInv'
    BY ControlStep, TypeStep, LockStep, TtlStep, LimiterStep, ThrottleStep DEF MiddlewareInv
  <1> QED
    BY <1>1, MiddlewareInit, PTL DEF Spec

(* Every variable of the composed middleware keeps its type.               *)
THEOREM MiddlewareTypeOK == Spec => []TypeOK
  <1>1. MiddlewareInv => TypeOK
    BY DEF MiddlewareInv
  <1> QED
    BY <1>1, MiddlewareInvHolds, PTL

(* lockMiddleware: as long as nobody outlives a key and no DEL is sent     *)
(* twice, the key belongs to the one goroutine inside the lock, wherever   *)
(* the lock is in the stack.                                               *)
THEOREM LockIsHeld == Spec => []KeyIsHeld
  <1>1. MiddlewareInv => KeyIsHeld
    BY DEF MiddlewareInv
  <1> QED
    BY <1>1, MiddlewareInvHolds, PTL

(* Unique and WithoutOverlapping keep handlers apart, as long as no job    *)
(* outlives the TTL of its key, no DEL is sent twice and Timeout is not    *)
(* nested inside the lock.                                                 *)
THEOREM LockExcludes == Spec => []ExclusiveUnlessDisowned
  <1>1. MiddlewareInv => ExclusiveUnlessDisowned
    <2> SUFFICES ASSUME MiddlewareInv, disowned = {}, LockGuardsHandler,
                        NEW t \in Thread, NEW u \in Thread, InHandler(t), InHandler(u)
                 PROVE  t = u
      BY DEF ExclusiveUnlessDisowned
    <2>1. PICK i \in DOMAIN stack :
              stack[i] = "lock" /\ \A j \in DOMAIN stack : stack[j] = "timeout" => j < i
      BY DEF LockGuardsHandler
    <2>2. \A v \in Thread : InHandler(v) => Holds(v)
      <3> SUFFICES ASSUME NEW v \in Thread, InHandler(v) PROVE Holds(v)
        OBVIOUS
      <3>1. i \in 1..Len(stack) /\ Len(stack) \in Nat /\ DOMAIN stack = 1..Len(stack)
        BY <2>1, StackFacts DEF MiddlewareInv
      <3>2. at[v].first <= i
        BY <2>1, <3>1 DEF MiddlewareInv, Control, InHandler
      <3> QED
        BY <2>1, <3>1, <3>2 DEF Holds, InHandler
    <2> QED
      BY <2>2 DEF MiddlewareInv, KeyIsHeld
  <1> QED
    BY <1>1, MiddlewareInvHolds, PTL

(* luaRateLimit and luaThrottle never leave a positive counter without a   *)
(* pending expiry.                                                         *)
THEOREM CountersExpire == Spec => []NeverStuck
  <1>1. MiddlewareInv => NeverStuck
    <2> SUFFICES ASSUME MiddlewareInv, NEW k \in Counter, counter[k] > 0
                 PROVE  now < expireAt[k] /\ expireAt[k] <= now + Decay
      BY DEF NeverStuck
    <2>1. counter[k] \in Int
      BY DEF MiddlewareInv, TypeOK, CounterTypeOK
    <2> QED
      BY <2>1 DEF MiddlewareInv, TtlInv
  <1> QED
    BY <1>1, MiddlewareInvHolds, PTL

(* RateLimited: a window exceeds its limit by no more than the decrements  *)
(* in it that take back nothing it counted.                                *)
THEOREM LimiterBounds == Spec => []WindowBound
  <1>1. MiddlewareInv => WindowBound
    BY DEF MiddlewareInv, LimiterInv
  <1> QED
    BY <1>1, MiddlewareInvHolds, PTL

(* ThrottlesExceptions: a job is backed off only when the last             *)
(* MaxExceptions errors, less the counts that are no error of their own,   *)
(* were all counted within the last decay, for any number of goroutines    *)
(* that increment and delete the counter and any number of lost replies.   *)
THEOREM BackOffIsEarned == Spec => BacksOffOnRecentFailures
  <1> DEFINE Trip == \A t \in Thread :
                 Undoing(t, "throttle")' /\ ~Undoing(t, "throttle")
                     => Recent(MaxExceptions - recounted)'
  <1>1. ASSUME MiddlewareInv, MiddlewareInv', [Next]_vars PROVE Trip
    <2> SUFFICES ASSUME NEW t \in Thread, Undoing(t, "throttle")', ~Undoing(t, "throttle")
                 PROVE  Recent(MaxExceptions - recounted)'
      OBVIOUS
    <2> DEFINE c == counter'["throttle"]
               x == expireAt'["throttle"]
               m == MaxExceptions - recounted'
    <2>1. Failed(t) /\ at'[t].dir = "undo"
      BY <1>1, StepMoves, TripFacts DEF MiddlewareInv
    <2>2. at \in [Thread -> Execution] /\ now' = now
      BY <1>1, <2>1 DEF MiddlewareInv, TypeOK, PipelineTypeOK, Failed
    <2>3. ~Return(t, at[t].err)
      BY <2>1, <2>2 DEF Return, Move, Returned, Exec, Idle
    <2>4. c >= MaxExceptions
      BY <2>1, <2>3 DEF Failed
    <2>5. /\ c \in Int /\ x \in Int /\ now \in Nat /\ Decay \in Nat /\ MaxExceptions \in Nat \ {0}
          /\ failed' \in Seq(0..MaxNow) /\ Len(failed') \in Nat /\ Len(failed') <= MaxExceptions
          /\ recounted' \in Nat
      BY <1>1, <2>2, PipelineAssumption, CounterAssumption, ThrottleAssumption
         DEF PipelineAssumption, CounterAssumption, ThrottleAssumption, MiddlewareInv, TypeOK,
             PipelineTypeOK, CounterTypeOK, ThrottleTypeOK, Counter, NoTtl
    <2>6. /\ c - recounted' <= Len(failed') \/ Len(failed') = MaxExceptions
          /\ \A i \in 1..Len(failed') :
                 i > Len(failed') - (c - recounted') => failed'[i] >= x - Decay
      BY <1>1, <2>4, <2>5 DEF MiddlewareInv, ThrottleInv
    <2>7. now < x
      BY <1>1, <2>2, <2>4, <2>5 DEF MiddlewareInv, TtlInv, Counter
    <2> HIDE DEF c, x
    <2>8. Len(failed') >= m
      BY <2>4, <2>5, <2>6
    <2>9. ASSUME NEW i \in DOMAIN failed', i > Len(failed') - m PROVE failed'[i] > now - Decay
      <3>a. i \in 1..Len(failed')
        BY <2>5
      <3>1. i \in 1..Len(failed') /\ failed'[i] \in 0..MaxNow
        BY <2>5, <3>a, ElementOfSeq
      <3>2. failed'[i] >= x - Decay
        BY <2>4, <2>5, <2>6, <2>9, <3>1
      <3>3. failed'[i] \in Int
        BY <3>1
      <3> QED
        BY <2>5, <2>7, <3>2, <3>3
    <2> QED
      BY <2>2, <2>8, <2>9 DEF Recent
  <1>2. MiddlewareInv /\ MiddlewareInv' /\ [Next]_vars => [Trip]_<<at, errors>>
    BY <1>1
  <1>3. Spec => [][Trip]_<<at, errors>>
    BY <1>2, MiddlewareInvHolds, PTL DEF Spec
  <1> QED
    BY <1>3 DEF BacksOffOnRecentFailures
=============================================================================
