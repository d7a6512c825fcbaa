------------------------------- MODULE Pipeline -------------------------------
(***************************************************************************)
(* Pipeline.Then of pkg/middleware/pipeline.go: a stack of middleware      *)
(* around a handler, run by several goroutines at once. The execution of   *)
(* a goroutine is where it is in the stack and whether it is on its way in *)
(* or on its way out with a result. The modules that extend this one give  *)
(* each middleware its steps; MiddlewareStack puts them together.          *)
(***************************************************************************)
EXTENDS Integers, Sequences, FiniteSets

CONSTANTS Runner,     \* goroutines of workers, each in a process of its own
          Stacks,     \* the stacks a worker may be configured with
          MaxNow,     \* bound: the clock stops here
          MaxFaults   \* bound: failed calls and crashes

Middleware == {"timeout", "lock", "rate_limit", "throttle"}

(* A stack holds a middleware once: two of a kind on one key are no use.   *)
ASSUME PipelineAssumption ==
    /\ IsFiniteSet(Runner)
    /\ Stacks \subseteq Seq(Middleware)
    /\ \A s \in Stacks : \A i, j \in DOMAIN s : s[i] = s[j] => i = j
    /\ MaxNow \in Nat
    /\ MaxFaults \in Nat

(* The goroutine that calls Then, and the one Timeout may start for it.    *)
Thread == Runner \X {"then", "next"}

VARIABLES stack,   \* Pipeline.middleware
          at,      \* the execution of each goroutine
          now,
          faults

pipeline == <<stack, at, now, faults>>

(* What next() may return: nil, a ReleaseError or any other error.         *)
Result == {"nil", "error", "release"}

(* index: the middleware it is in, or the handler, which comes after the   *)
(* last; first: the one it entered by; err: what it is about to return.    *)
Execution == [dir : {"idle", "call", "ret", "undo", "wait", "sent"},
              index : Nat, first : Nat, err : Result]

Exec(d, i, f, e) == [dir |-> d, index |-> i, first |-> f, err |-> e]

Idle == Exec("idle", 0, 0, "nil")

Entered(i) == Exec("call", i, i, "nil")

PipelineInit ==
    /\ stack \in Stacks
    /\ at = [t \in Thread |-> Idle]
    /\ now = 0
    /\ faults = 0

Fault ==
    /\ faults < MaxFaults
    /\ faults' = faults + 1

-----------------------------------------------------------------------------
In(t, m) == at[t].index \in DOMAIN stack /\ stack[at[t].index] = m

(* The middleware m is called; it is back from next(); it has one more     *)
(* call to make before it returns.                                         *)
Called(t, m)  == at[t].dir = "call" /\ In(t, m)
Resumed(t, m) == at[t].dir = "ret" /\ In(t, m)
Undoing(t, m) == at[t].dir = "undo" /\ In(t, m)

InHandler(t) == at[t].dir = "call" /\ at[t].index = Len(stack) + 1

Move(t, s) == at' = [at EXCEPT ![t] = s]

CallNext(t) == Move(t, Exec("call", at[t].index + 1, at[t].first, "nil"))

Undo(t, e) == Move(t, Exec("undo", at[t].index, at[t].first, e))

(* Where a goroutine is when the function it is in returns. The outermost  *)
(* one returns to the worker, or, in Timeout's goroutine, into the channel *)
(* that Timeout reads, if it still does.                                   *)
Returned(t, e) ==
    IF at[t].index > at[t].first
    THEN Exec("ret", at[t].index - 1, at[t].first, e)
    ELSE IF t[2] = "next" /\ at[<<t[1], "then">>].dir = "wait"
    THEN Exec("sent", at[t].index, at[t].first, e)
    ELSE Idle

Return(t, e) == Move(t, Returned(t, e))

-----------------------------------------------------------------------------
(* Then. Bound: a worker starts a job only when the goroutine that Timeout *)
(* left behind in an earlier one is done.                                  *)
Then(r) ==
    /\ at[<<r, "then">>] = Idle
    /\ at[<<r, "next">>] = Idle
    /\ Move(<<r, "then">>, Entered(1))
    /\ UNCHANGED <<stack, now, faults>>

(* The handler returns.                                                    *)
Handler(t) ==
    /\ InHandler(t)
    /\ \E e \in Result : Return(t, e)
    /\ UNCHANGED <<stack, now, faults>>

(* The process dies with both goroutines.                                  *)
Crash(r) ==
    /\ at[<<r, "then">>] # Idle \/ at[<<r, "next">>] # Idle
    /\ Fault
    /\ at' = [at EXCEPT ![<<r, "then">>] = Idle, ![<<r, "next">>] = Idle]
    /\ UNCHANGED <<stack, now>>

Advance ==
    /\ now < MaxNow
    /\ now' = now + 1
    /\ UNCHANGED <<stack, at, faults>>

-----------------------------------------------------------------------------
PipelineTypeOK ==
    /\ stack \in Stacks
    /\ at \in [Thread -> Execution]
    /\ now \in 0..MaxNow
    /\ faults \in 0..MaxFaults
=============================================================================
