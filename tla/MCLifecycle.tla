------------------------------ MODULE MCLifecycle -----------------------------
(* Instances of JobLifecycle for TLC.                                      *)
EXTENDS JobLifecycle, TLC

CONSTANTS c1, c2, d1, d2, tries, deadline, broken, orphan

TwoGoroutines == (c1 :> d1) @@ (c2 :> d1)
OneWorker == c1 :> d1
Goroutines == Permutations(Consumer)

(* tries may fail once and waits longer each time; deadline is retried     *)
(* until the clock reaches 2; broken cannot be parsed and orphan has no    *)
(* handler.                                                                *)
Limits == [j \in Job |-> IF j = tries THEN 1 ELSE Unset]
Deadlines == [j \in Job |-> IF j = deadline THEN 2 ELSE Unset]
Backoffs == [j \in Job |-> IF j = tries THEN <<0, 1>> ELSE <<1>>]
MoreTries == [j \in Job |-> 2]
=============================================================================
