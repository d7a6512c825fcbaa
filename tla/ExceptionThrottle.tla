-------------------------- MODULE ExceptionThrottle ---------------------------
(***************************************************************************)
(* ThrottlesExceptions of pkg/middleware/throttle.go for one key: a        *)
(* counter of the errors that next() returned, a ReleaseError of a         *)
(* middleware further in included, which releases the job and starts over  *)
(* when it reaches the limit. A success does not touch it. go-redis sends  *)
(* a command whose reply was lost a second time: luaThrottle then counts   *)
(* an error twice.                                                         *)
(***************************************************************************)
EXTENDS Pipeline, ExpiringCounter

CONSTANT MaxExceptions

ASSUME ThrottleAssumption == MaxExceptions \in Nat \ {0}

VARIABLES failed,     \* history: when the last MaxExceptions errors were counted
          recounted   \* history: counts of the key that are not an error of
                      \* their own, since it was last deleted or expired

errors == <<failed, recounted>>

ThrottleInit ==
    /\ failed = <<>>
    /\ recounted = 0

CountFailure ==
    failed' = Append(IF Len(failed) < MaxExceptions THEN failed ELSE Tail(failed), now)

-----------------------------------------------------------------------------
Succeeded(t) ==
    /\ Resumed(t, "throttle")
    /\ at[t].err = "nil"
    /\ Return(t, "nil")
    /\ UNCHANGED <<stack, now, faults, counters, errors>>

(* Mutant: the count is compared before this error is added to the limit.  *)
FailedOneLess(t) ==
    /\ Resumed(t, "throttle")
    /\ at[t].err # "nil"
    /\ LuaIncr("throttle", now)
    /\ CountFailure
    /\ IF counter'["throttle"] >= MaxExceptions - 1
       THEN Undo(t, "release")
       ELSE Return(t, at[t].err)
    /\ UNCHANGED <<stack, now, faults, recounted>>

(* luaThrottle, and the decision on the count it returns. If the reply is  *)
(* lost the error of the job is returned as it is.                         *)
Failed(t) ==
    /\ Resumed(t, "throttle")
    /\ at[t].err # "nil"
    /\ LuaIncr("throttle", now)
    /\ CountFailure
    /\ \/ /\ counter'["throttle"] >= MaxExceptions
          /\ Undo(t, "release")
          /\ UNCHANGED faults
       \/ /\ counter'["throttle"] < MaxExceptions
          /\ Return(t, at[t].err)
          /\ UNCHANGED faults
       \/ Fault /\ Return(t, at[t].err)
    /\ UNCHANGED <<stack, now, recounted>>

(* luaThrottle is executed, its reply is lost, and it is to be sent again. *)
FailedResent(t) ==
    /\ Resumed(t, "throttle")
    /\ at[t].err # "nil"
    /\ Fault
    /\ LuaIncr("throttle", now)
    /\ recounted' = recounted + 1
    /\ UNCHANGED <<stack, at, now, failed>>

(* The script is not executed.                                             *)
Uncounted(t) ==
    /\ Resumed(t, "throttle")
    /\ at[t].err # "nil"
    /\ Fault
    /\ Return(t, at[t].err)
    /\ UNCHANGED <<stack, now, counters, errors>>

(* client.Del, whose error is ignored: executed, once or with its reply    *)
(* lost and to be sent again, or not executed.                             *)
DelCounter(t) ==
    /\ Undoing(t, "throttle")
    /\ \/ /\ Remove({"throttle"})
          /\ recounted' = 0
          /\ \/ Return(t, at[t].err) /\ UNCHANGED faults
             \/ Fault /\ UNCHANGED at
       \/ /\ Fault
          /\ Return(t, at[t].err)
          /\ UNCHANGED <<counters, recounted>>
    /\ UNCHANGED <<stack, now, failed>>

(* The middleware is entered: nothing before next().                       *)
ThrottleCalled(t) ==
    /\ Called(t, "throttle")
    /\ CallNext(t)
    /\ UNCHANGED <<stack, now, faults, counters, errors>>

ThrottleNext ==
    \E t \in Thread : \/ ThrottleCalled(t)
                      \/ Succeeded(t)
                      \/ Failed(t)
                      \/ FailedResent(t)
                      \/ Uncounted(t)
                      \/ DelCounter(t)

ThrottleTick ==
    /\ recounted' = IF "throttle" \in Expiring(now') THEN 0 ELSE recounted
    /\ UNCHANGED failed

-----------------------------------------------------------------------------
ThrottleTypeOK ==
    /\ failed \in Seq(0..MaxNow)
    /\ Len(failed) <= MaxExceptions
    /\ recounted \in Nat

(* The last n errors were counted in the last decay.                       *)
Recent(n) ==
    /\ Len(failed) >= n
    /\ \A i \in DOMAIN failed : i > Len(failed) - n => failed[i] > now - Decay

(* A job is backed off only after MaxExceptions errors in the last decay,  *)
(* or one less for every count since the key was last deleted that is not  *)
(* an error of its own: the errors of an earlier window never count,       *)
(* although goroutines increment and delete the counter in any order and   *)
(* calls fail. The errors need not be consecutive, as the comment on       *)
(* ThrottlesExceptions has it: jobs that succeed between them leave the    *)
(* counter alone.                                                          *)
BacksOffOnRecentFailures ==
    [][\A t \in Thread :
         Undoing(t, "throttle")' /\ ~Undoing(t, "throttle")
             => Recent(MaxExceptions - recounted)']_<<at, errors>>
=============================================================================
