----------------------------- MODULE RateLimiter ------------------------------
(***************************************************************************)
(* RateLimited of pkg/middleware/rate_limit.go for one limiter key: a      *)
(* counter that is incremented before a job runs and decremented when the  *)
(* job is turned away or fails, and expires a decay after it last went     *)
(* from 0 to 1. go-redis sends a command whose reply was lost a second     *)
(* time: an increment or a decrement is then executed twice.               *)
(***************************************************************************)
EXTENDS Pipeline, ExpiringCounter

CONSTANT MaxAttempts   \* jobs per window

ASSUME LimiterAssumption == MaxAttempts \in Nat \ {0}

VARIABLES used,      \* history: jobs let through in this window and not refunded
          born,      \* history: the window in which a goroutine incremented
          window,    \* history: how often the key has expired
          strayed    \* history: decrements in this window that take back
                     \* nothing it counted: of an increment of an earlier
                     \* window, or executed once too often

hist == <<used, born, window, strayed>>

LimiterInit ==
    /\ used = 0
    /\ born = [t \in Thread |-> 0]
    /\ window = 0
    /\ strayed = 0

-----------------------------------------------------------------------------
(* Mutant: the count before the increment is compared.                     *)
AttemptOneMore(t) ==
    /\ Called(t, "rate_limit")
    /\ LuaIncr("rate_limit", now)
    /\ born' = [born EXCEPT ![t] = window]
    /\ IF counter["rate_limit"] > MaxAttempts
       THEN Undo(t, "release") /\ UNCHANGED used
       ELSE CallNext(t) /\ used' = used + 1
    /\ UNCHANGED <<stack, now, window, strayed, faults>>

(* The script, and the decision on the count it returns. If the reply is   *)
(* lost nothing is taken back: the job fails without running, or the       *)
(* script is sent again.                                                   *)
Attempt(t) ==
    /\ Called(t, "rate_limit")
    /\ LuaIncr("rate_limit", now)
    /\ born' = [born EXCEPT ![t] = window]
    /\ \/ /\ counter'["rate_limit"] > MaxAttempts
          /\ Undo(t, "release")
          /\ UNCHANGED <<used, faults>>
       \/ /\ counter'["rate_limit"] <= MaxAttempts
          /\ CallNext(t)
          /\ used' = used + 1
          /\ UNCHANGED faults
       \/ /\ Fault
          /\ Return(t, "error") \/ UNCHANGED at
          /\ UNCHANGED used
    /\ UNCHANGED <<stack, now, window, strayed>>

(* The script is not executed: the job fails with that error.              *)
AttemptFails(t) ==
    /\ Called(t, "rate_limit")
    /\ Fault
    /\ Return(t, "error")
    /\ UNCHANGED <<stack, now, counters, hist>>

(* next() returned nil or a ReleaseError.                                  *)
Keep(t) ==
    /\ Resumed(t, "rate_limit")
    /\ at[t].err # "error"
    /\ Return(t, at[t].err)
    /\ born' = [born EXCEPT ![t] = 0]
    /\ UNCHANGED <<stack, now, faults, counters, used, window, strayed>>

(* The job failed with an error that is not a ReleaseError.                *)
Refunds(t) == Resumed(t, "rate_limit") /\ at[t].err = "error"

(* client.Decr for a job that failed, or for one that was turned away. The *)
(* error of Decr itself is ignored.                                        *)
Decr(t) ==
    /\ Refunds(t) \/ Undoing(t, "rate_limit")
    /\ Return(t, at[t].err)
    /\ \/ /\ DecrKey("rate_limit")
          /\ IF born[t] = window
             THEN /\ used' = IF Refunds(t) THEN used - 1 ELSE used
                  /\ UNCHANGED strayed
             ELSE /\ strayed' = strayed + 1
                  /\ UNCHANGED used
          /\ UNCHANGED faults
       \/ /\ Fault
          /\ UNCHANGED <<counters, used, strayed>>
    /\ born' = [born EXCEPT ![t] = 0]
    /\ UNCHANGED <<stack, now, window>>

(* client.Decr is executed, its reply is lost, and it is to be sent again. *)
DecrResent(t) ==
    /\ Refunds(t) \/ Undoing(t, "rate_limit")
    /\ Fault
    /\ DecrKey("rate_limit")
    /\ strayed' = strayed + 1
    /\ UNCHANGED <<stack, at, now, used, born, window>>

LimiterNext ==
    \E t \in Thread : \/ Attempt(t)
                      \/ AttemptFails(t)
                      \/ Keep(t)
                      \/ Decr(t)
                      \/ DecrResent(t)

LimiterTick ==
    /\ IF "rate_limit" \in Expiring(now')
       THEN used' = 0 /\ strayed' = 0 /\ window' = window + 1
       ELSE UNCHANGED <<used, strayed, window>>
    /\ UNCHANGED born

-----------------------------------------------------------------------------
LimiterTypeOK ==
    /\ used \in Int
    /\ born \in [Thread -> Nat]
    /\ window \in Nat
    /\ strayed \in Nat

(* A window lets through MaxAttempts jobs, and at most one more for every  *)
(* decrement in it that takes back nothing it counted: one that came after *)
(* the window of its increment was over, or was executed twice. README.md  *)
(* of the repository promises "N jobs per decay window" with no such       *)
(* exception; without strayed the formula is false.                        *)
WindowBound == used <= MaxAttempts + strayed
=============================================================================
