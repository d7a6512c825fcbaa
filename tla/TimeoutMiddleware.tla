-------------------------- MODULE TimeoutMiddleware ---------------------------
(***************************************************************************)
(* Timeout of pkg/middleware/timeout.go. next() runs in a goroutine of its *)
(* own, on the context of the pipeline and not on the one with the         *)
(* deadline: when the deadline passes, Timeout returns and everything      *)
(* below it in the stack runs on. The cancellation of the pipeline's own   *)
(* context, which ends the select too, is not modelled here.               *)
(***************************************************************************)
EXTENDS Pipeline

CONSTANT Limit   \* seconds a job may take

ASSUME TimeoutAssumption == Limit \in Nat \ {0}

VARIABLE deadline   \* of the context of each worker's job while Timeout waits, else 0

TimeoutInit == deadline = [r \in Runner |-> 0]

(* The getter gives no timeout, or one that starts now.                    *)
Timeout(r) ==
    LET t == <<r, "then">>
    IN  /\ Called(t, "timeout")
        /\ \/ CallNext(t) /\ UNCHANGED deadline
           \/ /\ at' = [at EXCEPT ![t] = Exec("wait", at[t].index, at[t].first, "nil"),
                                  ![<<r, "next">>] = Entered(at[t].index + 1)]
              /\ deadline' = [deadline EXCEPT ![r] = now + Limit]
        /\ UNCHANGED <<stack, now, faults>>

(* Back from the next() that was called without a timeout.                 *)
TimeoutReturns(r) ==
    /\ Resumed(<<r, "then">>, "timeout")
    /\ Return(<<r, "then">>, at[<<r, "then">>].err)
    /\ UNCHANGED <<stack, now, faults, deadline>>

(* select, case err := <-done.                                             *)
DoneFirst(r) ==
    /\ at[<<r, "then">>].dir = "wait"
    /\ at[<<r, "next">>].dir = "sent"
    /\ at' = [at EXCEPT ![<<r, "then">>] = Returned(<<r, "then">>, at[<<r, "next">>].err),
                        ![<<r, "next">>] = Idle]
    /\ deadline' = [deadline EXCEPT ![r] = 0]
    /\ UNCHANGED <<stack, now, faults>>

(* select, case <-ctx.Done(). A result already in the channel is lost.     *)
TimedOut(r) ==
    /\ at[<<r, "then">>].dir = "wait"
    /\ now >= deadline[r]
    /\ at' = [at EXCEPT ![<<r, "then">>] = Returned(<<r, "then">>, "error"),
                        ![<<r, "next">>] = IF @.dir = "sent" THEN Idle ELSE @]
    /\ deadline' = [deadline EXCEPT ![r] = 0]
    /\ UNCHANGED <<stack, now, faults>>

TimeoutNext ==
    \E r \in Runner : Timeout(r) \/ TimeoutReturns(r) \/ DoneFirst(r) \/ TimedOut(r)
=============================================================================
