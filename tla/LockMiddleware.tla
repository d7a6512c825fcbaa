---------------------------- MODULE LockMiddleware ----------------------------
(***************************************************************************)
(* lockMiddleware of pkg/middleware/unique.go, the common body of Unique   *)
(* and WithoutOverlapping, for the jobs of one key. The lock is a Redis    *)
(* key set with SET NX and a TTL and removed with DEL; it carries no       *)
(* owner. Unique and WithoutOverlapping differ in what a job that finds    *)
(* the key taken returns. go-redis sends a command whose reply was lost a  *)
(* second time.                                                            *)
(***************************************************************************)
EXTENDS Pipeline

CONSTANT Ttl   \* seconds

ASSUME LockAssumption == Ttl \in Nat \ {0}

VARIABLES key,      \* when the key expires; a time not in the future: no key
          until,    \* when the key a goroutine set would expire
          disowned  \* history: goroutines that were inside the lock after their
                    \* key had expired, or had been deleted by a DEL that is
                    \* sent again

lock == <<key, until, disowned>>

LockInit ==
    /\ key = 0
    /\ until = [t \in Thread |-> 0]
    /\ disowned = {}

(* A goroutine inside the lock: it has called next() or is back from it.   *)
Holds(t) ==
    \E i \in DOMAIN stack :
        /\ stack[i] = "lock"
        /\ at[t].first <= i
        /\ \/ i < at[t].index
           \/ i = at[t].index /\ at[t].dir = "ret"

-----------------------------------------------------------------------------
(* Mutant: SET without NX.                                                 *)
SetAlways(t) ==
    /\ Called(t, "lock")
    /\ key' = now + Ttl
    /\ CallNext(t)
    /\ until' = [until EXCEPT ![t] = now + Ttl]
    /\ UNCHANGED <<stack, now, disowned, faults>>

(* client.SetNX: acquired. If the reply is lost the key stays, and either  *)
(* the job fails, or the command is sent again and finds the key taken by  *)
(* itself.                                                                 *)
SetNX(t) ==
    /\ Called(t, "lock")
    /\ key <= now
    /\ key' = now + Ttl
    /\ \/ /\ CallNext(t)
          /\ until' = [until EXCEPT ![t] = now + Ttl]
          /\ UNCHANGED faults
       \/ /\ Fault
          /\ Return(t, "error") \/ UNCHANGED at
          /\ UNCHANGED until
    /\ UNCHANGED <<stack, now, disowned>>

(* Mutant: the DEL is deferred before it is known who has the key.         *)
TurnedAwayDel(t) ==
    /\ Called(t, "lock")
    /\ key > now
    /\ key' = 0
    /\ Return(t, "release")
    /\ UNCHANGED <<stack, now, until, disowned, faults>>

(* client.SetNX: not acquired, and onConflict of Unique (nil) or of        *)
(* WithoutOverlapping; or not executed.                                    *)
TurnedAway(t) ==
    /\ Called(t, "lock")
    /\ \/ /\ key > now
          /\ \E e \in {"nil", "release"} : Return(t, e)
          /\ UNCHANGED faults
       \/ Fault /\ Return(t, "error")
    /\ UNCHANGED <<stack, now, lock>>

(* client.Del after next(), whose error is ignored: executed, or not.      *)
Del(t) ==
    /\ Resumed(t, "lock")
    /\ \/ key' = 0 /\ UNCHANGED faults
       \/ Fault /\ UNCHANGED key
    /\ Return(t, at[t].err)
    /\ until' = [until EXCEPT ![t] = 0]
    /\ UNCHANGED <<stack, now, disowned>>

(* client.Del is executed, its reply is lost, and it is to be sent again.  *)
DelResent(t) ==
    /\ Resumed(t, "lock")
    /\ Fault
    /\ key' = 0
    /\ disowned' = disowned \cup {t}
    /\ UNCHANGED <<stack, at, now, until>>

LockNext == \E t \in Thread : SetNX(t) \/ TurnedAway(t) \/ Del(t) \/ DelResent(t)

LockTick ==
    /\ disowned' = disowned \cup {t \in Thread : Holds(t) /\ until[t] <= now'}
    /\ UNCHANGED <<key, until>>

-----------------------------------------------------------------------------
LockTypeOK ==
    /\ key \in Nat
    /\ until \in [Thread -> Nat]
    /\ disowned \subseteq Thread

(* As long as every goroutine leaves the lock before the key it set        *)
(* expires, and no DEL is sent twice, the key on the server is the one     *)
(* that every goroutine inside the lock set, so there is at most one. A    *)
(* SET NX that is sent twice, a DEL that is not executed, a crash and the  *)
(* order of the calls cannot break it.                                     *)
KeyIsHeld ==
    disowned = {} =>
        /\ \A t \in Thread : Holds(t) => key = until[t] /\ now < until[t]
        /\ \A t, u \in Thread : Holds(t) /\ Holds(u) => t = u

(* Timeout does not sit between the lock and the handler.                  *)
LockGuardsHandler ==
    \E i \in DOMAIN stack :
        /\ stack[i] = "lock"
        /\ \A j \in DOMAIN stack : stack[j] = "timeout" => j < i

(* WithoutOverlapping and Unique: no two jobs of the key are in their      *)
(* handlers at the same time, though keys are left behind by lost replies  *)
(* to SET NX, failed deletes and crashes and handlers are left behind by   *)
(* Timeout, unless a job outlived the TTL of its key; a DEL was sent twice *)
(* and, as the key names no owner, removed the key of the next job; or     *)
(* Timeout is nested inside the lock and gives the lock back while the     *)
(* handler runs on.                                                        *)
ExclusiveUnlessDisowned ==
    disowned = {} /\ LockGuardsHandler =>
        \A t, u \in Thread : InHandler(t) /\ InHandler(u) => t = u
=============================================================================
