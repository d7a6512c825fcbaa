--------------------------- MODULE MiddlewareStack ----------------------------
(***************************************************************************)
(* The middleware of pkg/middleware composed in a pipeline: goroutines of  *)
(* several workers take jobs of one lock key, one limiter and one throttle *)
(* key through the same stack.                                             *)
(***************************************************************************)
EXTENDS TimeoutMiddleware, LockMiddleware, RateLimiter, ExceptionThrottle

vars == <<pipeline, deadline, lock, counters, hist, errors>>

Init ==
    /\ PipelineInit
    /\ TimeoutInit
    /\ LockInit
    /\ CounterInit
    /\ LimiterInit
    /\ ThrottleInit

(* The clock, and the expiry of the keys.                                  *)
Tick ==
    /\ Advance
    /\ LockTick
    /\ LimiterTick
    /\ ThrottleTick
    /\ Remove(Expiring(now'))
    /\ UNCHANGED deadline

Next ==
    \/ /\ \E r \in Runner : Then(r) \/ Crash(r)
       /\ UNCHANGED <<deadline, lock, counters, hist, errors>>
    \/ /\ \E t \in Thread : Handler(t)
       /\ UNCHANGED <<deadline, lock, counters, hist, errors>>
    \/ TimeoutNext /\ UNCHANGED <<lock, counters, hist, errors>>
    \/ LockNext /\ UNCHANGED <<deadline, counters, hist, errors>>
    \/ LimiterNext /\ UNCHANGED <<deadline, lock, errors>>
    \/ ThrottleNext /\ UNCHANGED <<deadline, lock, hist>>
    \/ Tick

Spec == Init /\ [][Next]_vars

-----------------------------------------------------------------------------
TypeOK ==
    /\ PipelineTypeOK
    /\ deadline \in [Runner -> Nat]
    /\ LockTypeOK
    /\ CounterTypeOK
    /\ LimiterTypeOK
    /\ ThrottleTypeOK

(* No permanent lock-out: a limiter or a throttle that has counted         *)
(* anything expires, a decay from now at the latest, whatever calls fail   *)
(* and whatever order increments, decrements, deletes and the expiry come  *)
(* in.                                                                     *)
NeverStuck ==
    \A k \in Counter :
        counter[k] > 0 => now < expireAt[k] /\ expireAt[k] <= now + Decay
=============================================================================
