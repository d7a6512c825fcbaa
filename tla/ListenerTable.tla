----------------------------- MODULE ListenerTable ----------------------------
(***************************************************************************)
(* What the event bus promises (pkg/events/events.go), without slices,     *)
(* arrays and locks: a table of listeners in the order of registration. A  *)
(* call of Fire takes the listeners of its event at one instant and calls  *)
(* these, whatever becomes of the table.                                   *)
(***************************************************************************)
EXTENDS Sequences

CONSTANTS EventType, Goroutine, Listener

VARIABLES table,  \* the listeners of each event type
          todo,   \* the listeners a goroutine's call of Fire has still to call
          called  \* the listeners it has called

tableVars == <<table, todo, called>>

Init ==
    /\ table = [e \in EventType |-> <<>>]
    /\ todo = [g \in Goroutine |-> <<>>]
    /\ called = [g \in Goroutine |-> <<>>]

On(e, l) ==
    /\ table' = [table EXCEPT ![e] = Append(@, l)]
    /\ UNCHANGED <<todo, called>>

Clear(S) ==
    /\ table' = [e \in EventType |-> IF e \in S THEN <<>> ELSE table[e]]
    /\ UNCHANGED <<todo, called>>

Fire(g, e) ==
    /\ todo[g] = <<>>
    /\ todo' = [todo EXCEPT ![g] = table[e]]
    /\ called' = [called EXCEPT ![g] = <<>>]
    /\ UNCHANGED table

CallNext(g) ==
    /\ todo[g] # <<>>
    /\ todo' = [todo EXCEPT ![g] = Tail(@)]
    /\ called' = [called EXCEPT ![g] = Append(@, Head(todo[g]))]
    /\ UNCHANGED table

Next ==
    \/ \E e \in EventType, l \in Listener : On(e, l)
    \/ \E S \in SUBSET EventType : Clear(S)
    \/ \E g \in Goroutine : CallNext(g) \/ \E e \in EventType : Fire(g, e)

Spec == Init /\ [][Next]_tableVars
=============================================================================
