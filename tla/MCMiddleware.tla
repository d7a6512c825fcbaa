---------------------------- MODULE MCMiddleware ------------------------------
(***************************************************************************)
(* Model values for MiddlewareStack.                                       *)
(***************************************************************************)
EXTENDS MiddlewareStack, TLC

(* The order README.md shows, Timeout outermost, around each of the        *)
(* others; Timeout inside the lock; and the two counters nested.           *)
StacksUsed ==
    {<<"timeout", "lock">>, <<"lock", "timeout">>, <<"timeout", "rate_limit">>,
     <<"throttle", "timeout">>, <<"rate_limit", "throttle">>}

Workers == Permutations(Runner)
=============================================================================
