------------------------------- MODULE EventBus -------------------------------
(***************************************************************************)
(* Bus of pkg/events/events.go. On, Clear and ClearAll change the table of *)
(* listeners under the mutex, and Fire takes its slice under it: each is   *)
(* one step. Fire calls the listeners of that slice after the unlock, one  *)
(* by one, while the table changes.                                        *)
(***************************************************************************)
EXTENDS GoSlices

CONSTANTS EventType,
          Goroutine,   \* job goroutines of the workers that share the bus
          MaxOn        \* bound: calls of On

ASSUME BusAssumption == MaxOn \in Nat

VARIABLES listeners,  \* Bus.listeners; a type without an entry has the nil slice
          cells,      \* the arrays of the slices
          firing,     \* the call of Fire a goroutine is in
          added,      \* how often On was called; the listener added n-th is n
          snapshot,   \* history: the listeners a call of Fire is to call
          called      \* history: the listeners it has called

bus == <<listeners, cells, firing, added, snapshot, called>>

NotFiring == [slice |-> NilSlice, next |-> 0]

BusInit ==
    /\ listeners = [e \in EventType |-> NilSlice]
    /\ cells = EmptyHeap
    /\ firing = [g \in Goroutine |-> NotFiring]
    /\ added = 0
    /\ snapshot = [g \in Goroutine |-> <<>>]
    /\ called = [g \in Goroutine |-> <<>>]

-----------------------------------------------------------------------------
On(e) ==
    LET a == CopyAppend(cells, listeners[e], added + 1)
    IN  /\ added < MaxOn
        /\ cells' = a.heap
        /\ listeners' = [listeners EXCEPT ![e] = a.slice]
        /\ added' = added + 1
        /\ UNCHANGED <<firing, snapshot, called>>

Clear(e) ==
    /\ listeners' = [listeners EXCEPT ![e] = NilSlice]
    /\ UNCHANGED <<cells, firing, added, snapshot, called>>

ClearAll ==
    /\ listeners' = [e \in EventType |-> NilSlice]
    /\ UNCHANGED <<cells, firing, added, snapshot, called>>

(* Fire, up to the unlock.                                                 *)
Fire(g, e) ==
    /\ firing[g] = NotFiring
    /\ firing' = [firing EXCEPT ![g] = [slice |-> listeners[e], next |-> 1]]
    /\ snapshot' = [snapshot EXCEPT ![g] = Contents(cells, listeners[e])]
    /\ called' = [called EXCEPT ![g] = <<>>]
    /\ UNCHANGED <<listeners, cells, added>>

(* Mutant: the loop goes through the table and not through its slice.      *)
CallListenerLive(g) ==
    LET f == firing[g]
    IN  /\ f.next \in 1..f.slice.len
        /\ \E e \in EventType :
               /\ f.next <= listeners[e].len
               /\ called' = [called EXCEPT ![g] = Append(@, cells[listeners[e].arr][f.next])]
        /\ firing' = [firing EXCEPT ![g].next = @ + 1]
        /\ UNCHANGED <<listeners, cells, added, snapshot>>

(* One turn of its loop. The listener may call the bus: that is a step of  *)
(* the actions above.                                                      *)
CallListener(g) ==
    LET f == firing[g]
    IN  /\ f.next \in 1..f.slice.len
        /\ called' = [called EXCEPT ![g] = Append(@, cells[f.slice.arr][f.next])]
        /\ firing' = [firing EXCEPT ![g].next = @ + 1]
        /\ UNCHANGED <<listeners, cells, added, snapshot>>

FireReturns(g) ==
    /\ firing[g] # NotFiring
    /\ firing[g].next > firing[g].slice.len
    /\ firing' = [firing EXCEPT ![g] = NotFiring]
    /\ UNCHANGED <<listeners, cells, added, snapshot, called>>

BusNext ==
    \/ \E e \in EventType : On(e) \/ Clear(e)
    \/ ClearAll
    \/ \E g \in Goroutine : (\E e \in EventType : Fire(g, e)) \/ CallListener(g) \/ FireReturns(g)

-----------------------------------------------------------------------------
(* "Fire's snapshot is never aliased by a concurrent append" (events.go):  *)
(* a call of Fire calls the listeners that were registered when it was     *)
(* made, in the order of their registration, whatever On and Clear do      *)
(* until it is done.                                                       *)
FireCallsSnapshot ==
    \A g \in Goroutine :
        /\ called[g] = SubSeq(snapshot[g], 1, Len(called[g]))
        /\ firing[g] = NotFiring => called[g] = snapshot[g]

(* The bus implements the table its users think of: the arrays behind the  *)
(* slices, which On copies and calls of Fire share, cannot be told from    *)
(* sequences that are values. What a call of Fire has still to do is the   *)
(* rest of its slice.                                                      *)
Pending(g) ==
    LET f == firing[g]
    IN  IF f = NotFiring THEN <<>> ELSE SubSeq(cells[f.slice.arr], f.next, f.slice.len)

Table == INSTANCE ListenerTable
             WITH Listener <- Nat,
                  table <- [e \in EventType |-> Contents(cells, listeners[e])],
                  todo <- [g \in Goroutine |-> Pending(g)]

IsListenerTable == Table!Spec
=============================================================================
