------------------------------ MODULE LeaseQueue ------------------------------
(***************************************************************************)
(* What a queue driver promises (pkg/queue/driver.go), without keys,       *)
(* scripts, clocks and migrations: payloads that were accepted are live    *)
(* until the consumer that leased one settles it or the queue is purged,   *)
(* and a lease is exclusive unless its payload is in doubt. A payload is   *)
(* put in doubt in four ways only: its lease runs out, the queue is purged *)
(* under its holder, it is accepted twice, or it is released twice.        *)
(***************************************************************************)
CONSTANTS Body, Consumer, NoBody

VARIABLES accepted,    \* payloads the queue was given
          unconfirmed, \* the ones whose producer was not told
          live,        \* payloads the queue answers for, leased ones included
          hand,        \* the payload each consumer has leased, or NoBody
          unsure       \* payloads in doubt: their lease may not be exclusive

leaseVars == <<accepted, unconfirmed, live, hand, unsure>>

Held == {hand[c] : c \in Consumer} \ {NoBody}

Init ==
    /\ accepted = {}
    /\ unconfirmed = {}
    /\ live = {}
    /\ hand = [c \in Consumer |-> NoBody]
    /\ unsure = {}

Accept(b) ==
    /\ b \notin accepted
    /\ accepted' = accepted \cup {b}
    /\ unconfirmed' \in {unconfirmed, unconfirmed \cup {b}}
    /\ live' = live \cup {b}
    /\ UNCHANGED <<hand, unsure>>

(* A producer that was not told gives the payload again: it may still be   *)
(* the one the queue has, or there are two of it from here on.             *)
AcceptAgain(b) ==
    /\ b \in unconfirmed
    /\ unconfirmed' \in SUBSET unconfirmed
    /\ live' = live \cup {b}
    /\ \/ b \in live /\ UNCHANGED unsure
       \/ unsure' = unsure \cup {b}
    /\ UNCHANGED <<accepted, hand>>

(* A lease may have run out by the time it is granted.                     *)
Take(c, b) ==
    /\ hand[c] = NoBody
    /\ b \in live
    /\ hand' = [hand EXCEPT ![c] = b]
    /\ unsure' \in {unsure, unsure \cup {b}}
    /\ b \notin unsure' => b \notin Held
    /\ UNCHANGED <<accepted, unconfirmed, live>>

(* The holder is done: the payload is gone, or it is kept, as the holder   *)
(* wished or because its wish got lost. One in doubt may come back.        *)
Settle(c) ==
    LET b == hand[c]
    IN  /\ b # NoBody
        /\ hand' = [hand EXCEPT ![c] = NoBody]
        /\ \/ live' \in {live, live \ {b}}
           \/ b \in unsure /\ live' = live \cup {b}
        /\ UNCHANGED <<accepted, unconfirmed, unsure>>

(* The holder's call was carried out, and will be once more: a payload     *)
(* that is gone stays gone, one that was released is in doubt.             *)
Persist(c) ==
    LET b == hand[c]
    IN  /\ b # NoBody
        /\ \/ live' = live \ {b} /\ UNCHANGED unsure
           \/ live' = live \cup {b} /\ unsure' = unsure \cup {b}
        /\ UNCHANGED <<accepted, unconfirmed, hand>>

Purge ==
    /\ live' = {}
    /\ unsure' = unsure \cup Held
    /\ UNCHANGED <<accepted, unconfirmed, hand>>

(* Consumers die; what they held stays live.                               *)
Lose(C) ==
    /\ hand' = [c \in Consumer |-> IF c \in C THEN NoBody ELSE hand[c]]
    /\ UNCHANGED <<accepted, unconfirmed, live, unsure>>

(* Some leases run out.                                                    *)
RunOut(C) ==
    /\ unsure' = unsure \cup ({hand[c] : c \in C} \ {NoBody})
    /\ UNCHANGED <<accepted, unconfirmed, live, hand>>

Next ==
    \/ \E b \in Body : Accept(b) \/ AcceptAgain(b)
    \/ \E c \in Consumer : Settle(c) \/ Persist(c) \/ \E b \in Body : Take(c, b)
    \/ Purge
    \/ \E C \in SUBSET Consumer : Lose(C) \/ RunOut(C)

Spec == Init /\ [][Next]_leaseVars
=============================================================================
