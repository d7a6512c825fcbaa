----------------------------- MODULE ManagerProofs ----------------------------
(***************************************************************************)
(* Proofs about the event bus and about the manager and its workers, for   *)
(* every set of workers, goroutines, event types and job names: what the   *)
(* sharing of Go's arrays and maps does not break.                         *)
(***************************************************************************)
EXTENDS Manager, TLAPS

-----------------------------------------------------------------------------
(* Slices.                                                                 *)

(* A heap of arrays of V, and a slice of one of them.                      *)
HeapOf(heap, V) == heap \in Seq(Seq(V))

SliceOf(heap, s) ==
    /\ s \in [arr : Nat, len : Nat]
    /\ s.arr \in 1..Len(heap)
    /\ s.len <= Len(heap[s.arr])

(* A slice as a sequence.                                                  *)
LEMMA ContentsAre ==
  ASSUME NEW V, NEW heap, HeapOf(heap, V), NEW s, SliceOf(heap, s)
  PROVE  /\ Contents(heap, s) \in Seq(V)
         /\ Len(Contents(heap, s)) = s.len
         /\ s.len \in Nat /\ heap[s.arr] \in Seq(V)
         /\ \A i \in 1..s.len : Contents(heap, s)[i] = heap[s.arr][i]
  <1>1. s.len \in Nat /\ heap[s.arr] \in Seq(V) /\ s.len <= Len(heap[s.arr])
    BY DEF HeapOf, SliceOf
  <1> QED
    BY <1>1 DEF Contents

(* Two sequences of one length with the same elements.                     *)
LEMMA SameSeq ==
  ASSUME NEW V, NEW s \in Seq(V), NEW W, NEW t \in Seq(W), Len(s) = Len(t),
         \A i \in 1..Len(s) : s[i] = t[i]
  PROVE  s = t
  OBVIOUS

(* A prefix grows by the next element.                                     *)
LEMMA PrefixGrows ==
  ASSUME NEW V, NEW s \in Seq(V), NEW n \in 1..Len(s)
  PROVE  Append(SubSeq(s, 1, n - 1), s[n]) = SubSeq(s, 1, n)
  <1>0. Len(s) \in Nat /\ n \in Nat /\ n - 1 \in Nat /\ n <= Len(s) /\ s[n] \in V
    OBVIOUS
  <1>1. /\ SubSeq(s, 1, n) \in Seq(V) /\ Len(SubSeq(s, 1, n)) = n
        /\ \A i \in 1..n : SubSeq(s, 1, n)[i] = s[i]
    BY <1>0
  <1>2. /\ SubSeq(s, 1, n - 1) \in Seq(V) /\ Len(SubSeq(s, 1, n - 1)) = n - 1
        /\ \A i \in 1..(n - 1) : SubSeq(s, 1, n - 1)[i] = s[i]
    BY <1>0
  <1>3. /\ Append(SubSeq(s, 1, n - 1), s[n]) \in Seq(V)
        /\ Len(Append(SubSeq(s, 1, n - 1), s[n])) = n
        /\ Append(SubSeq(s, 1, n - 1), s[n])[n] = s[n]
        /\ \A i \in 1..(n - 1) : Append(SubSeq(s, 1, n - 1), s[n])[i] = s[i]
    BY <1>0, <1>2
  <1>4. \A i \in 1..n : i \in 1..(n - 1) \/ i = n
    BY <1>0
  <1>5. \A i \in 1..n : Append(SubSeq(s, 1, n - 1), s[n])[i] = SubSeq(s, 1, n)[i]
    BY <1>1, <1>3, <1>4
  <1> QED
    BY <1>1, <1>3, <1>5, SameSeq

(* An array that is added changes no slice.                                *)
LEMMA AllocateAdds ==
  ASSUME NEW V, NEW heap, HeapOf(heap, V), NEW array \in Seq(V), NEW n \in 0..Len(array)
  PROVE  LET a == Allocate(heap, array, n)
         IN  /\ HeapOf(a.heap, V) /\ SliceOf(a.heap, a.slice)
             /\ Contents(a.heap, a.slice) = SubSeq(array, 1, n)
             /\ a.slice.len = n
             /\ \A s : SliceOf(heap, s) =>
                    /\ SliceOf(a.heap, s) /\ a.heap[s.arr] = heap[s.arr]
                    /\ Contents(a.heap, s) = Contents(heap, s)
  <1> DEFINE h == Append(heap, array)
             t == [arr |-> Len(heap) + 1, len |-> n]
  <1>1. Allocate(heap, array, n).heap = h /\ Allocate(heap, array, n).slice = t
    BY DEF Allocate
  <1>2. /\ heap \in Seq(Seq(V)) /\ Len(heap) \in Nat
        /\ h \in Seq(Seq(V)) /\ Len(h) = Len(heap) + 1
        /\ h[Len(heap) + 1] = array
        /\ \A i \in 1..Len(heap) : h[i] = heap[i]
    BY DEF HeapOf
  <1>3. HeapOf(h, V) /\ SliceOf(h, t) /\ Contents(h, t) = SubSeq(array, 1, n) /\ t.len = n
    BY <1>2 DEF HeapOf, SliceOf, Contents
  <1>4. ASSUME NEW s, SliceOf(heap, s)
        PROVE  SliceOf(h, s) /\ h[s.arr] = heap[s.arr] /\ Contents(h, s) = Contents(heap, s)
    BY <1>2, <1>4 DEF SliceOf, Contents
  <1> HIDE DEF h, t
  <1> QED
    BY <1>1, <1>3, <1>4

(* append: the slice that is returned has the new element; of the others,  *)
(* those in other arrays and those that are no longer keep their contents. *)
LEMMA AppendToAdds ==
  ASSUME NEW V, Nil \in V, NEW heap, HeapOf(heap, V), NEW s, SliceOf(heap, s), NEW x \in V
  PROVE  LET a == AppendTo(heap, s, x)
         IN  /\ HeapOf(a.heap, V) /\ SliceOf(a.heap, a.slice)
             /\ Contents(a.heap, a.slice) = Append(Contents(heap, s), x)
             /\ \A t : SliceOf(heap, t) => SliceOf(a.heap, t)
             /\ \A t : SliceOf(heap, t) /\ (t.arr # s.arr \/ t.len <= s.len) =>
                    Contents(a.heap, t) = Contents(heap, t)
  <1> DEFINE a == AppendTo(heap, s, x)
             cap == Len(heap[s.arr])
  <1>1. /\ Contents(heap, s) \in Seq(V) /\ Len(Contents(heap, s)) = s.len
        /\ s.len \in Nat /\ heap[s.arr] \in Seq(V) /\ cap \in Nat /\ s.len <= cap
        /\ s.arr \in 1..Len(heap) /\ heap \in Seq(Seq(V))
        /\ \A i \in 1..s.len : Contents(heap, s)[i] = heap[s.arr][i]
    <2>1. /\ Contents(heap, s) \in Seq(V) /\ Len(Contents(heap, s)) = s.len
          /\ s.len \in Nat /\ heap[s.arr] \in Seq(V)
          /\ \A i \in 1..s.len : Contents(heap, s)[i] = heap[s.arr][i]
      BY ContentsAre
    <2>2. s.arr \in 1..Len(heap) /\ s.len <= cap /\ heap \in Seq(Seq(V))
      BY DEF SliceOf, HeapOf
    <2> QED
      BY <2>1, <2>2
  <1>2. CASE s.len < cap
    <2> DEFINE h == [heap EXCEPT ![s.arr] = [@ EXCEPT ![s.len + 1] = x]]
               t == [s EXCEPT !.len = @ + 1]
    <2>1. a.heap = h /\ a.slice = t
      BY <1>2 DEF AppendTo
    <2>2. /\ t.arr = s.arr /\ t.len = s.len + 1 /\ t \in [arr : Nat, len : Nat]
      BY DEF SliceOf
    <2>3. /\ h \in Seq(Seq(V)) /\ Len(h) = Len(heap)
          /\ Len(h[s.arr]) = cap /\ h[s.arr] \in Seq(V) /\ h[s.arr][s.len + 1] = x
          /\ \A i \in 1..cap : i # s.len + 1 => h[s.arr][i] = heap[s.arr][i]
          /\ \A k \in 1..Len(heap) : k # s.arr => h[k] = heap[k]
      BY <1>1, <1>2
    <2> HIDE DEF h, t, cap
    <2>4. HeapOf(h, V) /\ SliceOf(h, t)
      BY <1>1, <1>2, <2>2, <2>3 DEF HeapOf, SliceOf
    <2>5. \A u : SliceOf(heap, u) => SliceOf(h, u)
      BY <2>3 DEF SliceOf, cap
    <2>6. Contents(h, t) = Append(Contents(heap, s), x)
      <3>1. /\ Contents(h, t) \in Seq(V) /\ Len(Contents(h, t)) = s.len + 1
            /\ \A i \in 1..(s.len + 1) : Contents(h, t)[i] = h[s.arr][i]
        BY <2>2, <2>4, ContentsAre
      <3>2. /\ Append(Contents(heap, s), x) \in Seq(V)
            /\ Len(Append(Contents(heap, s), x)) = s.len + 1
            /\ Append(Contents(heap, s), x)[s.len + 1] = x
            /\ \A i \in 1..s.len : Append(Contents(heap, s), x)[i] = heap[s.arr][i]
        BY <1>1
      <3>3. \A i \in 1..(s.len + 1) : Contents(h, t)[i] = Append(Contents(heap, s), x)[i]
        <4>1. \A i \in 1..s.len : i \in 1..(s.len + 1) /\ i \in 1..cap /\ i # s.len + 1
          BY <1>1, <1>2
        <4>2. \A i \in 1..(s.len + 1) : i \in 1..s.len \/ i = s.len + 1
          <5>1. s.len \in Nat
            BY <1>1
          <5> QED
            BY <5>1
        <4> QED
          BY <2>3, <3>1, <3>2, <4>1, <4>2
      <3> QED
        BY <3>1, <3>2, <3>3, SameSeq
    <2>7. ASSUME NEW u, SliceOf(heap, u), u.arr # s.arr \/ u.len <= s.len
          PROVE  Contents(h, u) = Contents(heap, u)
      <3>1. /\ Contents(h, u) \in Seq(V) /\ Len(Contents(h, u)) = u.len
            /\ \A i \in 1..u.len : Contents(h, u)[i] = h[u.arr][i]
            /\ Contents(heap, u) \in Seq(V) /\ Len(Contents(heap, u)) = u.len
            /\ \A i \in 1..u.len : Contents(heap, u)[i] = heap[u.arr][i]
        BY <2>4, <2>5, <2>7, ContentsAre
      <3>2. \A i \in 1..u.len : h[u.arr][i] = heap[u.arr][i]
        <4>1. CASE u.arr # s.arr
          BY <2>3, <2>7, <4>1 DEF SliceOf
        <4>2. CASE u.arr = s.arr /\ u.len <= s.len
          <5>1. u.len \in Nat
            BY <2>7 DEF SliceOf
          <5>2. \A i \in 1..u.len : i \in 1..cap /\ i # s.len + 1
            BY <1>1, <4>2, <5>1
          <5>3. \A i \in 1..u.len : h[s.arr][i] = heap[s.arr][i]
            BY <2>3, <5>2
          <5> QED
            BY <4>2, <5>3
        <4> QED
          BY <2>7, <4>1, <4>2
      <3> QED
        BY <3>1, <3>2, SameSeq
    <2> HIDE DEF a
    <2> QED
      BY <2>1, <2>4, <2>5, <2>6, <2>7 DEF a
  <1>3. CASE ~(s.len < cap)
    <2> DEFINE room == IF cap = 0 THEN 1 ELSE 2 * cap
               array == [i \in 1..room |-> IF i <= cap THEN heap[s.arr][i]
                                           ELSE IF i = cap + 1 THEN x ELSE Nil]
    <2>1. a = Allocate(heap, array, s.len + 1)
      BY <1>3 DEF AppendTo
    <2>2. room \in Nat /\ room >= cap + 1 /\ s.len = cap
      BY <1>1, <1>3
    <2>3. /\ array \in Seq(V) /\ Len(array) = room
          /\ \A i \in 1..cap : array[i] = heap[s.arr][i]
          /\ array[cap + 1] = x
      <3> HIDE DEF room
      <3>1. \A i \in 1..cap : heap[s.arr][i] \in V
        BY <1>1
      <3>2. array \in [1..room -> V]
        BY <1>1, <3>1
      <3>3. \A i \in 1..cap : i \in 1..room /\ i <= cap
        BY <1>1, <2>2
      <3>4. cap + 1 \in 1..room /\ ~(cap + 1 <= cap)
        BY <1>1, <2>2
      <3>5. array \in Seq(V) /\ Len(array) = room
        <4> HIDE DEF array
        <4> QED
          BY <2>2, <3>2
      <3> QED
        BY <3>3, <3>4, <3>5
    <2> HIDE DEF array, room, a
    <2>4. /\ HeapOf(a.heap, V) /\ SliceOf(a.heap, a.slice)
          /\ Contents(a.heap, a.slice) = SubSeq(array, 1, s.len + 1)
          /\ \A u : SliceOf(heap, u) =>
                SliceOf(a.heap, u) /\ Contents(a.heap, u) = Contents(heap, u)
      <3> DEFINE n == s.len + 1
      <3>1. n \in 0..Len(array)
        BY <1>1, <2>2, <2>3
      <3> HIDE DEF n
      <3>2. a = Allocate(heap, array, n)
        BY <2>1 DEF n
      <3>3. /\ HeapOf(a.heap, V) /\ SliceOf(a.heap, a.slice)
            /\ \A u : SliceOf(heap, u) =>
                  SliceOf(a.heap, u) /\ Contents(a.heap, u) = Contents(heap, u)
        BY <2>3, <3>1, <3>2, AllocateAdds
      <3>4. Contents(a.heap, a.slice) = SubSeq(array, 1, n)
        <4>1. /\ a.heap[Len(heap) + 1] = array
              /\ a.slice.arr = Len(heap) + 1 /\ a.slice.len = n
          BY <1>1, <2>3, <3>2 DEF Allocate
        <4> QED
          BY <4>1 DEF Contents
      <3> QED
        BY <3>3, <3>4 DEF n
    <2>5. SubSeq(array, 1, s.len + 1) = Append(Contents(heap, s), x)
      <3>1. /\ SubSeq(array, 1, s.len + 1) \in Seq(V)
            /\ Len(SubSeq(array, 1, s.len + 1)) = s.len + 1
            /\ \A i \in 1..(s.len + 1) : SubSeq(array, 1, s.len + 1)[i] = array[i]
        BY <1>1, <2>2, <2>3
      <3>2. /\ Append(Contents(heap, s), x) \in Seq(V)
            /\ Len(Append(Contents(heap, s), x)) = s.len + 1
            /\ Append(Contents(heap, s), x)[s.len + 1] = x
            /\ \A i \in 1..s.len : Append(Contents(heap, s), x)[i] = heap[s.arr][i]
        BY <1>1
      <3>3. \A i \in 1..(s.len + 1) :
               SubSeq(array, 1, s.len + 1)[i] = Append(Contents(heap, s), x)[i]
        BY <1>1, <2>2, <2>3, <3>1, <3>2
      <3> QED
        BY <3>1, <3>2, <3>3, SameSeq
    <2> QED
      BY <2>4, <2>5 DEF a
  <1> QED
    BY <1>2, <1>3

-----------------------------------------------------------------------------
(* The event bus. Every slice is as long as its array, so that On never    *)
(* writes where a call of Fire still reads; a call of Fire has called the  *)
(* first listeners of the snapshot it took.                                *)
Calling(g) ==
    LET f == firing[g]
    IN  /\ SliceOf(cells, f.slice)
        /\ f.next \in 1..(f.slice.len + 1)
        /\ snapshot[g] = Contents(cells, f.slice)
        /\ called[g] = SubSeq(snapshot[g], 1, f.next - 1)

BusInv ==
    /\ HeapOf(cells, Nat) /\ added \in Nat
    /\ listeners \in [EventType -> [arr : Nat, len : Nat]]
    /\ firing \in [Goroutine -> [slice : [arr : Nat, len : Nat], next : Nat]]
    /\ snapshot \in [Goroutine -> Seq(Nat)] /\ called \in [Goroutine -> Seq(Nat)]
    /\ SliceOf(cells, NilSlice)
    /\ \A e \in EventType : SliceOf(cells, listeners[e])
    /\ \A g \in Goroutine : IF firing[g] = NotFiring THEN called[g] = snapshot[g]
                            ELSE Calling(g)

LEMMA BusInitInv == BusInit => BusInv
  <1> SUFFICES ASSUME BusInit PROVE BusInv
    OBVIOUS
  <1>1. /\ listeners = [e \in EventType |-> NilSlice] /\ cells = <<<<>>>>
        /\ firing = [g \in Goroutine |-> NotFiring] /\ added = 0
        /\ snapshot = [g \in Goroutine |-> <<>>] /\ called = [g \in Goroutine |-> <<>>]
    BY DEF BusInit, EmptyHeap
  <1>2. HeapOf(cells, Nat) /\ SliceOf(cells, NilSlice) /\ NilSlice \in [arr : Nat, len : Nat]
    BY <1>1 DEF HeapOf, SliceOf, NilSlice
  <1>3. NotFiring \in [slice : [arr : Nat, len : Nat], next : Nat]
    BY <1>2 DEF NotFiring
  <1> QED
    BY <1>1, <1>2, <1>3 DEF BusInv

(* On: the copy leaves every other array alone.                            *)
LEMMA OnInv ==
  ASSUME BusInv, NEW e \in EventType, On(e)
  PROVE  BusInv'
  <1> DEFINE a == CopyAppend(cells, listeners[e], added + 1)
  <1>1. /\ cells' = a.heap /\ listeners' = [listeners EXCEPT ![e] = a.slice]
        /\ added' = added + 1 /\ UNCHANGED <<firing, snapshot, called>>
    BY DEF On
  <1>2. /\ Contents(cells, listeners[e]) \in Seq(Nat) /\ listeners[e].len \in Nat
        /\ Len(Contents(cells, listeners[e])) = listeners[e].len
        /\ added + 1 \in Nat /\ HeapOf(cells, Nat)
    BY ContentsAre DEF BusInv
  <1> DEFINE array == Append(Contents(cells, listeners[e]), added + 1)
             n == listeners[e].len + 1
  <1>3. array \in Seq(Nat) /\ n \in 0..Len(array)
    BY <1>2
  <1>4. a = Allocate(cells, array, n)
    BY DEF CopyAppend
  <1> HIDE DEF array, n, a
  <1>5. /\ HeapOf(a.heap, Nat) /\ SliceOf(a.heap, a.slice)
        /\ \A s : SliceOf(cells, s) =>
              SliceOf(a.heap, s) /\ Contents(a.heap, s) = Contents(cells, s)
    BY <1>2, <1>3, <1>4, AllocateAdds
  <1>6. a.slice \in [arr : Nat, len : Nat]
    BY <1>5 DEF SliceOf
  <1>7. /\ listeners' \in [EventType -> [arr : Nat, len : Nat]]
        /\ \A x \in EventType : SliceOf(cells', listeners'[x])
    BY <1>1, <1>5, <1>6 DEF BusInv
  <1>8. ASSUME NEW g \in Goroutine, firing[g] # NotFiring PROVE Calling(g)'
    <2>1. Calling(g)
      BY <1>8 DEF BusInv
    <2> QED
      BY <1>1, <1>5, <2>1 DEF Calling
  <1> QED
    BY <1>1, <1>2, <1>5, <1>7, <1>8 DEF BusInv

(* Clear and ClearAll change the table, not the arrays.                    *)
LEMMA ClearInv ==
  ASSUME BusInv, (\E e \in EventType : Clear(e)) \/ ClearAll
  PROVE  BusInv'
  <1>1. UNCHANGED <<cells, firing, added, snapshot, called>>
    BY DEF Clear, ClearAll
  <1>2. NilSlice \in [arr : Nat, len : Nat]
    BY DEF NilSlice
  <1>3. /\ listeners' \in [EventType -> [arr : Nat, len : Nat]]
        /\ \A x \in EventType : listeners'[x] = listeners[x] \/ listeners'[x] = NilSlice
    BY <1>2 DEF Clear, ClearAll, BusInv
  <1>4. \A g \in Goroutine : Calling(g) => Calling(g)'
    BY <1>1 DEF Calling
  <1> QED
    BY <1>1, <1>3, <1>4 DEF BusInv

LEMMA FireInv ==
  ASSUME BusInv, NEW g \in Goroutine, NEW e \in EventType, Fire(g, e)
  PROVE  BusInv'
  <1> DEFINE s == listeners[e]
             f == [slice |-> s, next |-> 1]
  <1>1. /\ firing' = [firing EXCEPT ![g] = f]
        /\ snapshot' = [snapshot EXCEPT ![g] = Contents(cells, s)]
        /\ called' = [called EXCEPT ![g] = <<>>]
        /\ UNCHANGED <<listeners, cells, added>>
    BY DEF Fire
  <1>2. /\ SliceOf(cells, s) /\ s \in [arr : Nat, len : Nat] /\ s.len \in Nat
        /\ Contents(cells, s) \in Seq(Nat)
    BY ContentsAre DEF BusInv
  <1>3. /\ firing' \in [Goroutine -> [slice : [arr : Nat, len : Nat], next : Nat]]
        /\ snapshot' \in [Goroutine -> Seq(Nat)] /\ called' \in [Goroutine -> Seq(Nat)]
    <2>1. f \in [slice : [arr : Nat, len : Nat], next : Nat] /\ <<>> \in Seq(Nat)
      BY <1>2
    <2> HIDE DEF f, s
    <2> QED
      BY <1>1, <1>2, <2>1 DEF BusInv
  <1>4. /\ firing'[g] = f /\ snapshot'[g] = Contents(cells, s) /\ called'[g] = <<>>
        /\ \A x \in Goroutine \ {g} : /\ firing'[x] = firing[x]
                                      /\ snapshot'[x] = snapshot[x] /\ called'[x] = called[x]
    BY <1>1 DEF BusInv
  <1>5. f # NotFiring
    BY DEF NotFiring
  <1>6. Calling(g)'
    <2>1. SubSeq(Contents(cells, s), 1, 0) = <<>>
      BY <1>2
    <2>2. f.slice = s /\ f.next = 1 /\ 1 \in 1..(s.len + 1) /\ 1 - 1 = 0
      BY <1>2
    <2> HIDE DEF f, s
    <2> QED
      BY <1>1, <1>2, <1>4, <2>1, <2>2 DEF Calling
  <1>7. ASSUME NEW x \in Goroutine, x # g, Calling(x) PROVE Calling(x)'
    BY <1>1, <1>4, <1>7 DEF Calling
  <1> HIDE DEF f, s
  <1>8. \A x \in Goroutine : IF firing'[x] = NotFiring THEN called'[x] = snapshot'[x]
                             ELSE Calling(x)'
    BY <1>4, <1>5, <1>6, <1>7 DEF BusInv
  <1> QED
    BY <1>1, <1>3, <1>8 DEF BusInv

LEMMA CallListenerInv ==
  ASSUME BusInv, NEW g \in Goroutine, CallListener(g)
  PROVE  BusInv'
  <1> DEFINE f == firing[g]
             s == f.slice
             n == f.next
             l == cells[s.arr][n]
  <1>1. /\ n \in 1..s.len /\ f # NotFiring
        /\ called' = [called EXCEPT ![g] = Append(@, l)]
        /\ firing' = [firing EXCEPT ![g].next = @ + 1]
        /\ UNCHANGED <<listeners, cells, added, snapshot>>
    BY DEF CallListener, NotFiring
  <1>2. /\ SliceOf(cells, s) /\ snapshot[g] = Contents(cells, s)
        /\ called[g] = SubSeq(snapshot[g], 1, n - 1)
    BY <1>1 DEF BusInv, Calling
  <1>3. /\ snapshot[g] \in Seq(Nat) /\ Len(snapshot[g]) = s.len /\ s.len \in Nat
        /\ \A i \in 1..s.len : snapshot[g][i] = cells[s.arr][i]
    BY <1>2, ContentsAre DEF BusInv
  <1>4. /\ f \in [slice : [arr : Nat, len : Nat], next : Nat] /\ n \in Nat
        /\ snapshot[g][n] = l /\ l \in Nat
    BY <1>1, <1>3 DEF BusInv
  <1>5. /\ firing'[g] = [f EXCEPT !.next = @ + 1] /\ called'[g] = Append(called[g], l)
        /\ \A x \in Goroutine \ {g} : firing'[x] = firing[x] /\ called'[x] = called[x]
    BY <1>1 DEF BusInv
  <1>6. /\ firing'[g].slice = s /\ firing'[g].next = n + 1
        /\ firing'[g] \in [slice : [arr : Nat, len : Nat], next : Nat]
    BY <1>4, <1>5
  <1>7. Append(SubSeq(snapshot[g], 1, n - 1), l) = SubSeq(snapshot[g], 1, n)
    BY <1>1, <1>3, <1>4, PrefixGrows
  <1> HIDE DEF f, s, n, l
  <1>8. Calling(g)'
    <2>1. n + 1 \in 1..(s.len + 1) /\ (n + 1) - 1 = n
      BY <1>1, <1>3, <1>4
    <2> QED
      BY <1>1, <1>2, <1>5, <1>6, <1>7, <2>1 DEF Calling
  <1>9. firing'[g] # NotFiring
    BY <1>4, <1>6 DEF NotFiring
  <1>10. ASSUME NEW x \in Goroutine, x # g, Calling(x) PROVE Calling(x)'
    BY <1>1, <1>5, <1>10 DEF Calling
  <1>11. /\ firing' \in [Goroutine -> [slice : [arr : Nat, len : Nat], next : Nat]]
         /\ called' \in [Goroutine -> Seq(Nat)]
    <2>1. called'[g] \in Seq(Nat)
      BY <1>4, <1>5 DEF BusInv
    <2>2. DOMAIN firing' = Goroutine /\ DOMAIN called' = Goroutine
      BY <1>1 DEF BusInv
    <2>3. firing' = [x \in Goroutine |-> firing'[x]] /\ called' = [x \in Goroutine |-> called'[x]]
      BY <1>1, <2>2 DEF BusInv
    <2> QED
      BY <1>5, <1>6, <2>1, <2>3 DEF BusInv
  <1>12. \A x \in Goroutine : IF firing'[x] = NotFiring THEN called'[x] = snapshot'[x]
                              ELSE Calling(x)'
    BY <1>1, <1>5, <1>8, <1>9, <1>10 DEF BusInv
  <1> QED
    BY <1>1, <1>11, <1>12 DEF BusInv

LEMMA FireReturnsInv ==
  ASSUME BusInv, NEW g \in Goroutine, FireReturns(g)
  PROVE  BusInv'
  <1>1. /\ firing[g] # NotFiring /\ firing[g].next > firing[g].slice.len
        /\ firing' = [firing EXCEPT ![g] = NotFiring]
        /\ UNCHANGED <<listeners, cells, added, snapshot, called>>
    BY DEF FireReturns
  <1>2. NotFiring \in [slice : [arr : Nat, len : Nat], next : Nat]
    BY DEF NotFiring, NilSlice
  <1>3. called[g] = snapshot[g]
    <2>1. Calling(g)
      BY <1>1 DEF BusInv
    <2> DEFINE n == firing[g].slice.len
    <2>2. SliceOf(cells, firing[g].slice) /\ firing[g].next \in 1..(n + 1)
          /\ snapshot[g] = Contents(cells, firing[g].slice)
          /\ called[g] = SubSeq(snapshot[g], 1, firing[g].next - 1)
      BY <2>1 DEF Calling
    <2>3. snapshot[g] \in Seq(Nat) /\ Len(snapshot[g]) = n /\ n \in Nat
      BY <2>2, ContentsAre DEF BusInv
    <2>4. firing[g].next - 1 = n
      BY <1>1, <2>2, <2>3
    <2>5. SubSeq(snapshot[g], 1, Len(snapshot[g])) = snapshot[g]
      BY <2>3
    <2> QED
      BY <2>2, <2>3, <2>4, <2>5
  <1>4. firing' \in [Goroutine -> [slice : [arr : Nat, len : Nat], next : Nat]]
    BY <1>1, <1>2 DEF BusInv
  <1>5. \A x \in Goroutine : x # g => firing'[x] = firing[x] /\ (Calling(x) => Calling(x)')
    BY <1>1 DEF BusInv, Calling
  <1>6. firing'[g] = NotFiring
    BY <1>1 DEF BusInv
  <1>7. \A x \in Goroutine : IF firing'[x] = NotFiring THEN called'[x] = snapshot'[x]
                             ELSE Calling(x)'
    BY <1>1, <1>3, <1>5, <1>6 DEF BusInv
  <1> QED
    BY <1>1, <1>4, <1>7 DEF BusInv

LEMMA BusStep ==
  ASSUME BusInv, [Next]_<<bus, manager>>
  PROVE  BusInv'
  <1>1. BusNext \/ UNCHANGED bus
    BY DEF Next, Use, Install, Register, MakeWorker, NewWorker
  <1>2. CASE UNCHANGED bus
    BY <1>2 DEF bus, BusInv, Calling
  <1>3. CASE BusNext
    BY <1>3, OnInv, ClearInv, FireInv, CallListenerInv, FireReturnsInv DEF BusNext
  <1> QED
    BY <1>1, <1>2, <1>3

(* A call of Fire calls the listeners that were registered when it was     *)
(* made, in their order, whatever On, Clear and other calls of Fire do in  *)
(* the meantime: its snapshot is not aliased by a concurrent append.       *)
THEOREM FireIsASnapshot == Spec => []FireCallsSnapshot
  <1>1. Init => BusInv
    BY BusInitInv DEF Init
  <1>2. BusInv /\ [Next]_<<bus, manager>> => BusInv'
    BY BusStep
  <1>3. ASSUME BusInv PROVE FireCallsSnapshot
    <2> SUFFICES ASSUME NEW g \in Goroutine
                 PROVE  /\ called[g] = SubSeq(snapshot[g], 1, Len(called[g]))
                        /\ firing[g] = NotFiring => called[g] = snapshot[g]
      BY DEF FireCallsSnapshot
    <2>1. snapshot[g] \in Seq(Nat)
      BY <1>3 DEF BusInv
    <2>2. CASE firing[g] = NotFiring
      <3>1. called[g] = snapshot[g]
        BY <1>3, <2>2 DEF BusInv
      <3> QED
        BY <2>1, <3>1
    <2>3. CASE firing[g] # NotFiring
      <3>1. Calling(g)
        BY <1>3, <2>3 DEF BusInv
      <3> DEFINE k == firing[g].next - 1
                 n == firing[g].slice.len
      <3>2. /\ SliceOf(cells, firing[g].slice) /\ firing[g].next \in 1..(n + 1)
            /\ snapshot[g] = Contents(cells, firing[g].slice)
            /\ called[g] = SubSeq(snapshot[g], 1, k)
        BY <3>1 DEF Calling
      <3>3. Len(snapshot[g]) = n /\ n \in Nat
        BY <1>3, <3>2, ContentsAre DEF BusInv
      <3>4. k \in 0..Len(snapshot[g])
        BY <3>2, <3>3
      <3> HIDE DEF k, n
      <3>5. Len(called[g]) = k
        BY <2>1, <3>2, <3>4
      <3> QED
        BY <2>3, <3>2, <3>5
    <2> QED
      BY <2>2, <2>3
  <1> QED
    BY <1>1, <1>2, <1>3, PTL DEF Spec

-----------------------------------------------------------------------------
(* The bus implements ListenerTable, one lemma per kind of step.           *)

(* The rest of a sequence after its next element.                          *)
LEMMA RestShrinks ==
  ASSUME NEW V, NEW s \in Seq(V), NEW m \in 0..Len(s), NEW n \in 1..m
  PROVE  /\ SubSeq(s, n, m) # <<>> /\ Head(SubSeq(s, n, m)) = s[n]
         /\ Tail(SubSeq(s, n, m)) = SubSeq(s, n + 1, m)
  <1>1. /\ SubSeq(s, n, m) \in Seq(V) /\ Len(SubSeq(s, n, m)) = m - n + 1
        /\ \A i \in 1..(m - n + 1) : SubSeq(s, n, m)[i] = s[n + i - 1]
    OBVIOUS
  <1>2. SubSeq(s, n, m) # <<>> /\ Head(SubSeq(s, n, m)) = s[n]
    BY <1>1
  <1>3. /\ SubSeq(s, n + 1, m) \in Seq(V) /\ Len(SubSeq(s, n + 1, m)) = m - n
        /\ \A i \in 1..(m - n) : SubSeq(s, n + 1, m)[i] = s[n + i]
    OBVIOUS
  <1>4. /\ Tail(SubSeq(s, n, m)) \in Seq(V) /\ Len(Tail(SubSeq(s, n, m))) = m - n
        /\ \A i \in 1..(m - n) : Tail(SubSeq(s, n, m))[i] = s[n + i]
    BY <1>1, <1>2
  <1>5. Tail(SubSeq(s, n, m)) = SubSeq(s, n + 1, m)
    BY <1>3, <1>4, SameSeq
  <1> QED
    BY <1>2, <1>5

(* The variables of the table.                                             *)
TableNow == [e \in EventType |-> Contents(cells, listeners[e])]
TodoNow == [g \in Goroutine |-> Pending(g)]

LEMMA OnRefines ==
  ASSUME BusInv, NEW e \in EventType, On(e)
  PROVE  Table!On(e, added + 1) /\ added + 1 \in Nat
  <1> DEFINE a == CopyAppend(cells, listeners[e], added + 1)
             old == Contents(cells, listeners[e])
             array == Append(old, added + 1)
             n == listeners[e].len + 1
  <1>1. /\ cells' = a.heap /\ listeners' = [listeners EXCEPT ![e] = a.slice]
        /\ UNCHANGED <<firing, called>>
    BY DEF On
  <1>2. /\ old \in Seq(Nat) /\ listeners[e].len \in Nat /\ Len(old) = listeners[e].len
        /\ added + 1 \in Nat /\ HeapOf(cells, Nat)
    BY ContentsAre DEF BusInv
  <1>3. array \in Seq(Nat) /\ n \in 0..Len(array)
    BY <1>2
  <1>4. a = Allocate(cells, array, n)
    BY DEF CopyAppend
  <1>0. Len(array) = n
    BY <1>2
  <1> HIDE DEF array, n, a, old
  <1>5. /\ Contents(a.heap, a.slice) = SubSeq(array, 1, n)
        /\ \A s : SliceOf(cells, s) => /\ a.heap[s.arr] = cells[s.arr]
                                       /\ Contents(a.heap, s) = Contents(cells, s)
    <2>1. HeapOf(cells, Nat)
      BY <1>2
    <2> QED
      BY <1>3, <1>4, <2>1, AllocateAdds
  <1>6. ASSUME NEW x \in EventType
        PROVE  Contents(cells', listeners'[x]) =
                   IF x = e THEN Append(old, added + 1) ELSE Contents(cells, listeners[x])
    <2>1. CASE x = e
      <3>1. SubSeq(array, 1, n) = array
        BY <1>0, <1>3
      <3> QED
        BY <1>1, <1>5, <2>1, <3>1 DEF BusInv, array
    <2>2. CASE x # e
      BY <1>1, <1>5, <2>2 DEF BusInv
    <2> QED
      BY <2>1, <2>2
  <1>7. ASSUME NEW g \in Goroutine PROVE Pending(g)' = Pending(g)
    <2>1. CASE firing[g] = NotFiring
      BY <1>1, <2>1 DEF Pending
    <2>2. CASE firing[g] # NotFiring
      <3>1. SliceOf(cells, firing[g].slice)
        BY <2>2 DEF BusInv, Calling
      <3> QED
        BY <1>1, <1>5, <3>1 DEF Pending
    <2> QED
      BY <2>1, <2>2
  <1>8. TableNow' = [TableNow EXCEPT ![e] = Append(@, added + 1)]
    BY <1>6 DEF TableNow, old
  <1>9. TodoNow' = TodoNow
    BY <1>7 DEF TodoNow
  <1> QED
    BY <1>1, <1>2, <1>8, <1>9 DEF Table!On, TableNow, TodoNow

LEMMA ClearRefines ==
  ASSUME BusInv, NEW S \in SUBSET EventType, UNCHANGED <<cells, firing, called>>,
         listeners' = [e \in EventType |-> IF e \in S THEN NilSlice ELSE listeners[e]]
  PROVE  Table!Clear(S)
  <1>1. Contents(cells, NilSlice) = <<>>
    BY ContentsAre DEF BusInv, NilSlice
  <1>2. TodoNow' = TodoNow
    BY DEF TodoNow, Pending
  <1>3. TableNow' = [e \in EventType |-> IF e \in S THEN <<>> ELSE TableNow[e]]
    BY <1>1 DEF TableNow
  <1> QED
    BY <1>2, <1>3 DEF Table!Clear, TableNow, TodoNow

LEMMA FireRefines ==
  ASSUME BusInv, NEW g \in Goroutine, NEW e \in EventType, Fire(g, e)
  PROVE  Table!Fire(g, e)
  <1>1. /\ firing[g] = NotFiring
        /\ firing' = [firing EXCEPT ![g] = [slice |-> listeners[e], next |-> 1]]
        /\ called' = [called EXCEPT ![g] = <<>>]
        /\ UNCHANGED <<listeners, cells>>
    BY DEF Fire
  <1>2. TodoNow[g] = <<>> /\ TableNow' = TableNow
    BY <1>1 DEF TodoNow, TableNow, Pending
  <1>3. Pending(g)' = Contents(cells, listeners[e])
    <2>1. firing'[g] = [slice |-> listeners[e], next |-> 1]
      BY <1>1 DEF BusInv
    <2>2. /\ firing'[g].slice = listeners[e] /\ firing'[g].next = 1
          /\ firing'[g] # NotFiring
      BY <2>1 DEF NotFiring
    <2> QED
      BY <1>1, <2>2 DEF Pending, Contents
  <1>4. \A x \in Goroutine \ {g} : Pending(x)' = Pending(x)
    BY <1>1 DEF Pending, BusInv
  <1>5. TodoNow' = [TodoNow EXCEPT ![g] = TableNow[e]]
    BY <1>3, <1>4 DEF TodoNow, TableNow
  <1> QED
    BY <1>1, <1>2, <1>5 DEF Table!Fire, TableNow, TodoNow

LEMMA CallRefines ==
  ASSUME BusInv, NEW g \in Goroutine, CallListener(g)
  PROVE  Table!CallNext(g)
  <1> DEFINE f == firing[g]
             s == f.slice
             n == f.next
             array == cells[s.arr]
  <1>1. /\ n \in 1..s.len /\ f # NotFiring
        /\ called' = [called EXCEPT ![g] = Append(@, array[n])]
        /\ firing' = [firing EXCEPT ![g].next = @ + 1]
        /\ UNCHANGED <<listeners, cells>>
    BY DEF CallListener, NotFiring
  <1>2. SliceOf(cells, s)
    BY <1>1 DEF BusInv, Calling
  <1>3. array \in Seq(Nat) /\ s.len \in 0..Len(array)
    <2>1. s.len \in Nat /\ array \in Seq(Nat)
      BY <1>2, ContentsAre DEF BusInv
    <2>2. s.len <= Len(array)
      BY <1>2 DEF SliceOf
    <2> QED
      BY <2>1, <2>2
  <1>4. f \in [slice : [arr : Nat, len : Nat], next : Nat]
    BY DEF BusInv
  <1>5. /\ firing'[g].slice = s /\ firing'[g].next = n + 1
        /\ \A x \in Goroutine \ {g} : firing'[x] = firing[x]
    BY <1>1, <1>4 DEF BusInv
  <1>6. firing'[g] # NotFiring
    BY <1>4, <1>5 DEF NotFiring
  <1>7. Pending(g) = SubSeq(array, n, s.len) /\ Pending(g)' = SubSeq(array, n + 1, s.len)
    BY <1>1, <1>5, <1>6 DEF Pending
  <1> HIDE DEF f, s, n, array
  <1>8. /\ Pending(g) # <<>> /\ Head(Pending(g)) = array[n]
        /\ Pending(g)' = Tail(Pending(g))
    BY <1>1, <1>3, <1>7, RestShrinks
  <1>9. \A x \in Goroutine \ {g} : Pending(x)' = Pending(x)
    BY <1>1, <1>5 DEF Pending
  <1>10. TodoNow' = [TodoNow EXCEPT ![g] = Tail(@)]
    BY <1>8, <1>9 DEF TodoNow
  <1>11. TodoNow[g] = Pending(g) /\ TableNow' = TableNow
    BY <1>1 DEF TodoNow, TableNow
  <1> QED
    BY <1>1, <1>8, <1>10, <1>11 DEF Table!CallNext, TableNow, TodoNow

(* The return of Fire is no step of the table: nothing is left to call.    *)
LEMMA ReturnRefines ==
  ASSUME BusInv, NEW g \in Goroutine, FireReturns(g)
  PROVE  UNCHANGED Table!tableVars
  <1> DEFINE n == firing[g].next
             s == firing[g].slice
  <1>1. /\ firing[g] # NotFiring /\ n > s.len
        /\ firing' = [firing EXCEPT ![g] = NotFiring]
        /\ UNCHANGED <<listeners, cells, called>>
    BY DEF FireReturns
  <1>2. Pending(g) = <<>>
    <2>1. SliceOf(cells, s) /\ n \in 1..(s.len + 1)
      BY <1>1 DEF BusInv, Calling
    <2>2. s.len \in Nat /\ cells[s.arr] \in Seq(Nat)
      BY <2>1, ContentsAre DEF BusInv
    <2>3. SubSeq(cells[s.arr], n, s.len) = <<>>
      BY <1>1, <2>1, <2>2
    <2> QED
      BY <1>1, <2>3 DEF Pending
  <1>3. Pending(g)' = <<>> /\ \A x \in Goroutine \ {g} : Pending(x)' = Pending(x)
    BY <1>1 DEF Pending, BusInv
  <1>4. TodoNow' = TodoNow /\ TableNow' = TableNow
    BY <1>1, <1>2, <1>3 DEF TodoNow, TableNow
  <1> QED
    BY <1>1, <1>4 DEF Table!tableVars, TodoNow, TableNow

(* The event bus implements a table of listeners that are values: that On  *)
(* copies the slice and Fire reads it after the unlock cannot be observed, *)
(* under every interleaving of On, Clear, ClearAll and calls of Fire.      *)
THEOREM BusIsListenerTable == Spec => IsListenerTable
  <1>1. Init => BusInv
    BY BusInitInv DEF Init
  <1>2. BusInv /\ [Next]_<<bus, manager>> => BusInv'
    BY BusStep
  <1>3. Init => Table!Init
    <2> SUFFICES ASSUME BusInit PROVE Table!Init
      BY DEF Init
    <2>1. BusInv
      BY BusInitInv
    <2>2. Contents(cells, NilSlice) = <<>>
      BY <2>1, ContentsAre DEF BusInv, NilSlice
    <2> QED
      BY <2>2 DEF BusInit, Table!Init, Pending
  <1>4. BusInv /\ [Next]_<<bus, manager>> => [Table!Next]_Table!tableVars
    <2> SUFFICES ASSUME BusInv, [Next]_<<bus, manager>> PROVE [Table!Next]_Table!tableVars
      OBVIOUS
    <2>1. BusNext \/ UNCHANGED bus
      BY DEF Next, Use, Install, Register, MakeWorker, NewWorker
    <2>2. CASE UNCHANGED bus
      BY <2>2 DEF bus, Table!tableVars, Pending
    <2>3. ASSUME NEW e \in EventType, On(e) PROVE Table!Next
      BY <2>3, OnRefines DEF Table!Next
    <2>4. CASE (\E e \in EventType : Clear(e)) \/ ClearAll
      <3>1. \E S \in SUBSET EventType :
               listeners' = [e \in EventType |-> IF e \in S THEN NilSlice ELSE listeners[e]]
        <4>1. ASSUME NEW e \in EventType, Clear(e)
              PROVE  listeners' = [x \in EventType |-> IF x \in {e} THEN NilSlice
                                                       ELSE listeners[x]]
          BY <4>1 DEF Clear, BusInv
        <4>2. CASE ClearAll
          BY <4>2 DEF ClearAll
        <4> QED
          BY <2>4, <4>1, <4>2
      <3>2. UNCHANGED <<cells, firing, called>>
        BY <2>4 DEF Clear, ClearAll
      <3> QED
        BY <3>1, <3>2, ClearRefines DEF Table!Next
    <2>5. ASSUME NEW g \in Goroutine, NEW e \in EventType, Fire(g, e) PROVE Table!Next
      BY <2>5, FireRefines DEF Table!Next
    <2>6. ASSUME NEW g \in Goroutine, CallListener(g) PROVE Table!Next
      BY <2>6, CallRefines DEF Table!Next
    <2>7. ASSUME NEW g \in Goroutine, FireReturns(g) PROVE UNCHANGED Table!tableVars
      BY <2>7, ReturnRefines
    <2> QED
      BY <2>1, <2>2, <2>3, <2>4, <2>5, <2>6, <2>7 DEF BusNext
  <1> QED
    BY <1>1, <1>2, <1>3, <1>4, PTL DEF Spec, IsListenerTable, Table!Spec

-----------------------------------------------------------------------------
(* The handlers. No two owners share a map: newWorker's copy is a new one. *)
HandlersInv ==
    /\ made \subseteq Worker /\ registers \in Nat
    /\ maps \in Seq([JobName -> Nat])
    /\ handlers \in [Owner -> Nat]
    /\ registered \in [Owner -> [JobName -> Nat]]
    /\ \A o \in made \cup {Mgr} : handlers[o] \in 1..Len(maps)
    /\ \A o, p \in made \cup {Mgr} : handlers[o] = handlers[p] => o = p
    /\ HandlersAreOwn

LEMMA HandlersInit == Init => HandlersInv
  <1> SUFFICES ASSUME Init PROVE HandlersInv
    OBVIOUS
  <1>1. NoHandlers \in [JobName -> Nat]
    BY DEF NoHandlers
  <1>2. /\ maps = <<NoHandlers>> /\ handlers = [o \in Owner |-> 1] /\ made = {}
        /\ registered = [o \in Owner |-> NoHandlers] /\ registers = 0 /\ Mgr \in Owner
    BY DEF Init, Owner
  <1> HIDE DEF NoHandlers
  <1> QED
    BY <1>1, <1>2 DEF HandlersInv, HandlersAreOwn

LEMMA RegisterKeeps ==
  ASSUME HandlersInv, NEW o \in Owner, NEW j \in JobName, Register(o, j)
  PROVE  HandlersInv'
  <1> DEFINE h == handlers[o]
             n == registers + 1
  <1>1. /\ o \in made \cup {Mgr} /\ registers' = n
        /\ maps' = [maps EXCEPT ![h][j] = n]
        /\ registered' = [registered EXCEPT ![o][j] = n]
        /\ UNCHANGED <<handlers, made>>
    BY DEF Register
  <1>2. /\ h \in 1..Len(maps) /\ n \in Nat /\ maps \in Seq([JobName -> Nat])
        /\ maps[h] = registered[o] /\ registered[o] \in [JobName -> Nat]
    BY <1>1 DEF HandlersInv, HandlersAreOwn
  <1>3. [registered[o] EXCEPT ![j] = n] \in [JobName -> Nat]
    BY <1>2
  <1> HIDE DEF h, n
  <1>4. /\ registered' \in [Owner -> [JobName -> Nat]]
        /\ registered'[o] = [registered[o] EXCEPT ![j] = n]
        /\ \A p \in Owner : p # o => registered'[p] = registered[p]
    BY <1>1, <1>3 DEF HandlersInv
  <1>5. /\ maps' \in Seq([JobName -> Nat]) /\ Len(maps') = Len(maps)
        /\ maps'[h] = [registered[o] EXCEPT ![j] = n]
        /\ \A i \in 1..Len(maps) : i # h => maps'[i] = maps[i]
    BY <1>1, <1>2, <1>3
  <1>6. \A p \in made \cup {Mgr} : maps'[handlers[p]] = registered'[p]
    BY <1>1, <1>4, <1>5 DEF HandlersInv, HandlersAreOwn, Owner, h
  <1> QED
    BY <1>1, <1>2, <1>4, <1>5, <1>6 DEF HandlersInv, HandlersAreOwn

LEMMA MakeWorkerCopies ==
  ASSUME HandlersInv, NEW w \in Worker, MakeWorker(w)
  PROVE  HandlersInv'
  <1> DEFINE n == Len(maps) + 1
             m == maps[handlers[Mgr]]
  <1>1. /\ w \notin made /\ made' = made \cup {w} /\ registers' = registers
        /\ maps' = Append(maps, m) /\ handlers' = [handlers EXCEPT ![w] = n]
        /\ registered' = [registered EXCEPT ![w] = registered[Mgr]]
    BY DEF MakeWorker, NewWorker
  <1>2. Mgr \notin Worker /\ w # Mgr /\ w \in Owner /\ Mgr \in Owner
    BY ManagerAssumption DEF ManagerAssumption, Owner
  <1>3. /\ Len(maps) \in Nat /\ n \in Nat /\ maps \in Seq([JobName -> Nat])
        /\ m = registered[Mgr] /\ m \in [JobName -> Nat]
    BY <1>2 DEF HandlersInv, HandlersAreOwn
  <1> HIDE DEF m
  <1>4. /\ maps' \in Seq([JobName -> Nat]) /\ Len(maps') = n /\ maps'[n] = m
        /\ \A i \in 1..Len(maps) : maps'[i] = maps[i]
    BY <1>1, <1>3
  <1>5. \A i \in 1..Len(maps) : i # n /\ i \in 1..n
    BY <1>3
  <1>6. n \in 1..n
    BY <1>3
  <1> HIDE DEF n
  <1>7. /\ handlers' \in [Owner -> Nat] /\ registered' \in [Owner -> [JobName -> Nat]]
        /\ handlers'[w] = n /\ registered'[w] = m
        /\ \A p \in Owner : p # w => handlers'[p] = handlers[p] /\ registered'[p] = registered[p]
    BY <1>1, <1>2, <1>3 DEF HandlersInv
  <1>8. \A p \in made' \cup {Mgr} : p = w \/ (p # w /\ p \in made \cup {Mgr} /\ p \in Owner)
    BY <1>1, <1>2 DEF HandlersInv, Owner
  <1>9. \A p \in made' \cup {Mgr} : handlers'[p] \in 1..Len(maps')
    BY <1>4, <1>5, <1>6, <1>7, <1>8 DEF HandlersInv
  <1>10. \A p \in made' \cup {Mgr} : maps'[handlers'[p]] = registered'[p]
    <2>1. maps'[handlers'[w]] = registered'[w]
      BY <1>4, <1>7
    <2>2. ASSUME NEW p \in made \cup {Mgr}, p # w, p \in Owner
          PROVE  maps'[handlers'[p]] = registered'[p]
      <3>1. handlers[p] \in 1..Len(maps) /\ maps[handlers[p]] = registered[p]
        BY DEF HandlersInv, HandlersAreOwn
      <3>2. maps'[handlers[p]] = maps[handlers[p]]
        BY <1>4, <3>1
      <3> QED
        BY <1>7, <2>2, <3>1, <3>2
    <2> QED
      BY <1>8, <2>1, <2>2
  <1>11. \A p, q \in made' \cup {Mgr} : handlers'[p] = handlers'[q] => p = q
    BY <1>5, <1>7, <1>8 DEF HandlersInv
  <1> QED
    BY <1>1, <1>4, <1>7, <1>9, <1>10, <1>11 DEF HandlersInv, HandlersAreOwn

(* The handlers of the manager and of each worker are the ones registered  *)
(* with it, a worker's starting from the manager's when it was made.       *)
THEOREM HandlersStayApart == Spec => []HandlersAreOwn
  <1>1. HandlersInv /\ [Next]_<<bus, manager>> => HandlersInv'
    <2> SUFFICES ASSUME HandlersInv, [Next]_<<bus, manager>> PROVE HandlersInv'
      OBVIOUS
    <2>1. CASE UNCHANGED <<handlers, maps, made, registered, registers>>
      BY <2>1 DEF HandlersInv, HandlersAreOwn
    <2>2. ASSUME NEW o \in Owner, Use(o) PROVE HandlersInv'
      BY <2>1, <2>2 DEF Use, Install
    <2>3. ASSUME NEW o \in Owner, NEW j \in JobName, Register(o, j) PROVE HandlersInv'
      BY <2>3, RegisterKeeps
    <2>4. ASSUME NEW w \in Worker, MakeWorker(w) PROVE HandlersInv'
      BY <2>4, MakeWorkerCopies
    <2>5. CASE UNCHANGED manager
      BY <2>1, <2>5 DEF manager
    <2> QED
      BY <2>2, <2>3, <2>4, <2>5 DEF Next
  <1>2. HandlersInv => HandlersAreOwn
    BY DEF HandlersInv
  <1> QED
    BY <1>1, <1>2, HandlersInit, PTL DEF Spec

-----------------------------------------------------------------------------
(* The middleware. Every slice lies in its array, and no owner was given   *)
(* a middleware that is still to come: a worker that is given one of its   *)
(* own has from then on no prefix of the manager's.                        *)
MiddlewareInv ==
    /\ made \subseteq Worker /\ uses \in Nat
    /\ HeapOf(arrays, Nat \cup {Nil})
    /\ middleware \in [Owner -> [arr : Nat, len : Nat]]
    /\ given \in [Owner -> Seq(Nat)]
    /\ \A o \in Owner : SliceOf(arrays, middleware[o])
    /\ \A o \in Owner : \A i \in 1..Len(given[o]) : given[o][i] <= uses
    /\ ManagerOnly

(* IsPrefix, element by element.                                           *)
LEMMA PrefixIs ==
  ASSUME NEW s \in Seq(Nat), NEW t \in Seq(Nat)
  PROVE  IsPrefix(s, t) <=> /\ Len(s) <= Len(t)
                            /\ \A i \in 1..Len(s) : s[i] = t[i]
  <1> SUFFICES ASSUME Len(s) <= Len(t)
               PROVE  SubSeq(s, 1, Len(s)) = SubSeq(t, 1, Len(s))
                        <=> \A i \in 1..Len(s) : s[i] = t[i]
    BY DEF IsPrefix
  <1>1. /\ SubSeq(s, 1, Len(s)) = s /\ SubSeq(t, 1, Len(s)) \in Seq(Nat)
        /\ Len(SubSeq(t, 1, Len(s))) = Len(s)
        /\ \A i \in 1..Len(s) : SubSeq(t, 1, Len(s))[i] = t[i]
    OBVIOUS
  <1> QED
    BY <1>1, SameSeq

LEMMA MiddlewareInit == Init => MiddlewareInv
  <1> SUFFICES ASSUME Init PROVE MiddlewareInv
    OBVIOUS
  <1>1. /\ middleware = [o \in Owner |-> NilSlice] /\ arrays = <<<<>>>> /\ made = {}
        /\ given = [o \in Owner |-> <<>>] /\ uses = 0 /\ Mgr \in Owner
    BY DEF Init, EmptyHeap, Owner
  <1>2. /\ HeapOf(arrays, Nat \cup {Nil}) /\ SliceOf(arrays, NilSlice)
        /\ NilSlice \in [arr : Nat, len : Nat] /\ Contents(arrays, NilSlice) = <<>>
    BY <1>1 DEF HeapOf, SliceOf, NilSlice, Contents
  <1> QED
    BY <1>1, <1>2 DEF MiddlewareInv, ManagerOnly, Installed

(* A sequence of middleware used so far with the next one appended is no   *)
(* prefix of another such sequence.                                        *)
LEMMA NewIsNoPrefix ==
  ASSUME NEW s \in Seq(Nat), NEW t \in Seq(Nat), NEW n \in Nat,
         \A i \in 1..Len(t) : t[i] <= n
  PROVE  ~IsPrefix(Append(s, n + 1), t)
  <1> DEFINE u == Append(s, n + 1)
  <1>1. /\ u \in Seq(Nat) /\ Len(u) = Len(s) + 1 /\ u[Len(s) + 1] = n + 1
        /\ Len(s) \in Nat /\ Len(s) + 1 \in 1..Len(u)
    OBVIOUS
  <1> SUFFICES ASSUME IsPrefix(u, t) PROVE FALSE
    OBVIOUS
  <1> HIDE DEF u
  <1>2. Len(s) + 1 <= Len(t) /\ t[Len(s) + 1] = n + 1
    BY <1>1, PrefixIs
  <1>3. Len(s) + 1 \in 1..Len(t)
    BY <1>1, <1>2
  <1> QED
    BY <1>2, <1>3

(* A prefix of such a sequence with the next one appended is a prefix of   *)
(* the sequence, unless it has the next one itself.                        *)
LEMMA OldIsPrefix ==
  ASSUME NEW s \in Seq(Nat), NEW t \in Seq(Nat), NEW n \in Nat,
         \A i \in 1..Len(s) : s[i] <= n, IsPrefix(s, Append(t, n + 1))
  PROVE  IsPrefix(s, t)
  <1>1. /\ Append(t, n + 1) \in Seq(Nat) /\ Len(Append(t, n + 1)) = Len(t) + 1
        /\ Append(t, n + 1)[Len(t) + 1] = n + 1 /\ Len(t) \in Nat /\ Len(s) \in Nat
        /\ \A i \in 1..Len(t) : Append(t, n + 1)[i] = t[i]
    OBVIOUS
  <1>2. Len(s) <= Len(t) + 1 /\ \A i \in 1..Len(s) : s[i] = Append(t, n + 1)[i]
    BY <1>1, PrefixIs
  <1>3. Len(s) # Len(t) + 1
    <2> SUFFICES ASSUME Len(s) = Len(t) + 1 PROVE FALSE
      OBVIOUS
    <2>1. Len(s) \in 1..Len(s)
      BY <1>1
    <2>2. s[Len(s)] = n + 1 /\ s[Len(s)] <= n
      BY <1>1, <1>2, <2>1
    <2> QED
      BY <2>2
  <1>4. Len(s) <= Len(t)
    BY <1>1, <1>2, <1>3
  <1>5. \A i \in 1..Len(s) : s[i] = t[i]
    BY <1>1, <1>2, <1>4
  <1> QED
    BY <1>4, <1>5, PrefixIs

(* Use: the manager's slice is the longest of those that are prefixes of   *)
(* it, so that its append writes behind all of them; a worker's own Use    *)
(* ends the premise of ManagerOnly.                                        *)
LEMMA UseKeeps ==
  ASSUME MiddlewareInv, NEW o \in Owner, Use(o)
  PROVE  MiddlewareInv'
  <1> DEFINE V == Nat \cup {Nil}
             s == middleware[o]
             n == uses + 1
             a == AppendTo(arrays, s, n)
             g == Append(given[o], n)
  <1>1. /\ o \in made \cup {Mgr} /\ middleware' = [middleware EXCEPT ![o] = a.slice]
        /\ arrays' = a.heap /\ given' = [given EXCEPT ![o] = g]
        /\ uses' = uses + 1 /\ made' = made
    BY DEF Use, Install
  <1>2. /\ uses \in Nat /\ n \in Nat /\ n \in V /\ Nil \in V /\ HeapOf(arrays, V)
        /\ SliceOf(arrays, s) /\ given[o] \in Seq(Nat)
        /\ \A i \in 1..Len(given[o]) : given[o][i] <= uses
    BY DEF MiddlewareInv
  <1>0. a = AppendTo(arrays, s, n)
    OBVIOUS
  <1> HIDE DEF V, s, n, a
  <1>3. /\ HeapOf(a.heap, V) /\ SliceOf(a.heap, a.slice)
        /\ Contents(a.heap, a.slice) = Append(Contents(arrays, s), n)
        /\ \A t : SliceOf(arrays, t) => SliceOf(a.heap, t)
        /\ \A t : SliceOf(arrays, t) /\ (t.arr # s.arr \/ t.len <= s.len) =>
               Contents(a.heap, t) = Contents(arrays, t)
    BY <1>0, <1>2, AppendToAdds DEF Nil
  <1>4. a.slice \in [arr : Nat, len : Nat]
    BY <1>3 DEF SliceOf
  <1>5. /\ g \in Seq(Nat) /\ \A i \in 1..Len(g) : g[i] <= n
    BY <1>2 DEF n
  <1> HIDE DEF g
  <1>6. /\ middleware' \in [Owner -> [arr : Nat, len : Nat]] /\ given' \in [Owner -> Seq(Nat)]
        /\ middleware'[o] = a.slice /\ given'[o] = g
        /\ \A p \in Owner : p # o => middleware'[p] = middleware[p] /\ given'[p] = given[p]
    BY <1>1, <1>4, <1>5 DEF MiddlewareInv
  <1>7. \A p \in Owner : SliceOf(arrays', middleware'[p])
    BY <1>1, <1>3, <1>6 DEF MiddlewareInv
  <1>8. \A p \in Owner : \A i \in 1..Len(given'[p]) : given'[p][i] <= uses'
    <2> SUFFICES ASSUME NEW p \in Owner, p # o, NEW i \in 1..Len(given[p])
                 PROVE  given[p][i] <= uses + 1
      BY <1>1, <1>5, <1>6 DEF n
    <2>1. given[p][i] <= uses /\ given[p][i] \in Nat
      BY DEF MiddlewareInv
    <2> QED
      BY <1>2, <2>1
  <1>9. made \subseteq Owner /\ Mgr \in Owner /\ Mgr \notin made
    BY ManagerAssumption DEF ManagerAssumption, MiddlewareInv, Owner
  <1>10. ManagerOnly'
    <2> SUFFICES ASSUME \A w \in made : IsPrefix(given'[w], given'[Mgr]),
                        NEW p \in made \cup {Mgr}
                 PROVE  Contents(arrays', middleware'[p]) = given'[p]
      BY <1>1 DEF ManagerOnly, Installed
    <2>1. o = Mgr
      <3> SUFFICES ASSUME o \in made, o # Mgr PROVE FALSE
        BY <1>1, <1>9
      <3>1. given'[Mgr] = given[Mgr] /\ given[Mgr] \in Seq(Nat)
            /\ \A i \in 1..Len(given[Mgr]) : given[Mgr][i] <= uses
        BY <1>6, <1>9 DEF MiddlewareInv
      <3>2. ~IsPrefix(g, given[Mgr])
        BY <1>2, <3>1, NewIsNoPrefix DEF g, n
      <3> QED
        BY <1>6, <3>1, <3>2
    <2>2. \A w \in made : w # o /\ w \in Owner /\ given'[w] = given[w]
      BY <1>6, <1>9, <2>1
    <2>3. ASSUME NEW w \in made PROVE IsPrefix(given[w], given[Mgr])
      <3>1. given[w] \in Seq(Nat) /\ \A i \in 1..Len(given[w]) : given[w][i] <= uses
        BY <1>9 DEF MiddlewareInv
      <3>2. IsPrefix(given[w], Append(given[Mgr], uses + 1)) /\ given[Mgr] \in Seq(Nat)
        BY <1>2, <1>6, <2>1, <2>2 DEF g, n
      <3> QED
        BY <1>2, <3>1, <3>2, OldIsPrefix
    <2>4. \A q \in made \cup {Mgr} : Contents(arrays, middleware[q]) = given[q]
      BY <2>3 DEF MiddlewareInv, ManagerOnly, Installed
    <2>5. CASE p = Mgr
      BY <1>1, <1>3, <1>6, <2>1, <2>4, <2>5 DEF g, s
    <2>6. CASE p \in made
      <3>1. SliceOf(arrays, middleware[p]) /\ given[p] \in Seq(Nat)
        BY <1>9, <2>6 DEF MiddlewareInv
      <3>2. Len(given[p]) = middleware[p].len /\ Len(given[Mgr]) = s.len
        BY <1>2, <2>1, <2>4, <3>1, ContentsAre DEF s
      <3>3. Len(given[p]) <= Len(given[Mgr])
        BY <1>2, <2>1, <2>3, <2>6, <3>1, PrefixIs
      <3>4. Contents(a.heap, middleware[p]) = Contents(arrays, middleware[p])
        BY <1>3, <3>1, <3>2, <3>3
      <3> QED
        BY <1>1, <1>6, <2>2, <2>4, <2>6, <3>4
    <2> QED
      BY <2>5, <2>6
  <1> QED
    BY <1>1, <1>2, <1>3, <1>6, <1>7, <1>8, <1>10 DEF MiddlewareInv, V

(* A new worker has the manager's own slice.                               *)
LEMMA MakeWorkerShares ==
  ASSUME MiddlewareInv, NEW w \in Worker, MakeWorker(w)
  PROVE  MiddlewareInv'
  <1>1. /\ w \notin made /\ made' = made \cup {w} /\ UNCHANGED <<arrays, uses>>
        /\ middleware' = [middleware EXCEPT ![w] = middleware[Mgr]]
        /\ given' = [given EXCEPT ![w] = given[Mgr]]
    BY DEF MakeWorker, NewWorker
  <1>2. w # Mgr /\ w \in Owner /\ Mgr \in Owner /\ made \subseteq Owner
    BY ManagerAssumption DEF ManagerAssumption, Owner, MiddlewareInv
  <1>3. /\ middleware' \in [Owner -> [arr : Nat, len : Nat]] /\ given' \in [Owner -> Seq(Nat)]
        /\ middleware'[w] = middleware[Mgr] /\ given'[w] = given[Mgr]
        /\ \A p \in Owner : p # w => middleware'[p] = middleware[p] /\ given'[p] = given[p]
    BY <1>1, <1>2 DEF MiddlewareInv
  <1>4. /\ \A p \in Owner : SliceOf(arrays', middleware'[p])
        /\ \A p \in Owner : \A i \in 1..Len(given'[p]) : given'[p][i] <= uses'
    BY <1>1, <1>2, <1>3 DEF MiddlewareInv
  <1>5. ManagerOnly'
    <2> SUFFICES ASSUME \A x \in made' : IsPrefix(given'[x], given'[Mgr]),
                        NEW p \in made' \cup {Mgr}
                 PROVE  Contents(arrays, middleware'[p]) = given'[p]
      BY <1>1 DEF ManagerOnly, Installed
    <2>1. \A x \in made : IsPrefix(given[x], given[Mgr])
      BY <1>1, <1>2, <1>3
    <2>2. \A q \in made \cup {Mgr} : Contents(arrays, middleware[q]) = given[q]
      BY <2>1 DEF MiddlewareInv, ManagerOnly, Installed
    <2> QED
      BY <1>1, <1>2, <1>3, <2>2
  <1> QED
    BY <1>1, <1>3, <1>4, <1>5 DEF MiddlewareInv

LEMMA MiddlewareAlways == Spec => []MiddlewareInv
  <1>1. MiddlewareInv /\ [Next]_<<bus, manager>> => MiddlewareInv'
    <2> SUFFICES ASSUME MiddlewareInv, [Next]_<<bus, manager>> PROVE MiddlewareInv'
      OBVIOUS
    <2>1. CASE UNCHANGED <<middleware, arrays, made, given, uses>>
      BY <2>1 DEF MiddlewareInv, ManagerOnly, Installed
    <2>2. ASSUME NEW o \in Owner, Use(o) PROVE MiddlewareInv'
      BY <2>2, UseKeeps
    <2>3. ASSUME NEW o \in Owner, NEW j \in JobName, Register(o, j) PROVE MiddlewareInv'
      BY <2>1, <2>3 DEF Register
    <2>4. ASSUME NEW w \in Worker, MakeWorker(w) PROVE MiddlewareInv'
      BY <2>4, MakeWorkerShares
    <2>5. CASE UNCHANGED manager
      BY <2>1, <2>5 DEF manager
    <2> QED
      BY <2>2, <2>3, <2>4, <2>5 DEF Next
  <1> QED
    BY <1>1, MiddlewareInit, PTL DEF Spec

(* As long as only the manager's Use is called, a worker runs its jobs     *)
(* through the middleware the manager had when it made the worker, though  *)
(* the two slices share an array that later calls of Use write into.       *)
THEOREM ManagerUseIsSafe == Spec => []ManagerOnly
  <1>1. MiddlewareInv => ManagerOnly
    BY DEF MiddlewareInv
  <1> QED
    BY <1>1, MiddlewareAlways, PTL

-----------------------------------------------------------------------------
(* What is left when workers are given middleware of their own: a slot may *)
(* hold what another owner was given, but never nothing.                   *)
GivenBy(g, S, i, m) == \E p \in S \cup {Mgr} : i \in 1..Len(g[p]) /\ g[p][i] = m

SlotsAreGiven ==
    \A o \in made \cup {Mgr} :
        /\ Len(Installed(o)) = Len(given[o])
        /\ \A i \in 1..Len(given[o]) : GivenBy(given, made, i, Installed(o)[i])

SlotsInv ==
    \A o \in made \cup {Mgr} :
        /\ middleware[o].len = Len(given[o])
        /\ \A i \in 1..Len(given[o]) : GivenBy(given, made, i, arrays[middleware[o].arr][i])

(* append changes no slot of another slice but the one it fills.           *)
LEMMA AppendToFills ==
  ASSUME NEW V, NEW heap, HeapOf(heap, V), NEW s, SliceOf(heap, s), NEW x,
         NEW t, SliceOf(heap, t), NEW i \in 1..t.len
  PROVE  LET a == AppendTo(heap, s, x)
         IN  \/ a.heap[t.arr][i] = heap[t.arr][i]
             \/ i = s.len + 1 /\ a.heap[t.arr][i] = x
  <1>1. /\ heap \in Seq(Seq(V)) /\ Len(heap) \in Nat
        /\ s.arr \in 1..Len(heap) /\ t.arr \in 1..Len(heap)
        /\ s.len \in Nat /\ t.len \in Nat /\ t.len <= Len(heap[t.arr])
    BY DEF HeapOf, SliceOf
  <1>2. heap[s.arr] \in Seq(V) /\ heap[t.arr] \in Seq(V)
    BY <1>1
  <1>3. CASE s.len < Len(heap[s.arr])
    <2> DEFINE h == [heap EXCEPT ![s.arr] = [@ EXCEPT ![s.len + 1] = x]]
    <2>1. AppendTo(heap, s, x).heap = h
      BY <1>3 DEF AppendTo
    <2>2. CASE t.arr = s.arr
      <3>1. h[t.arr] = [heap[s.arr] EXCEPT ![s.len + 1] = x]
        BY <1>1, <2>2
      <3>2. i \in DOMAIN heap[s.arr] /\ s.len + 1 \in DOMAIN heap[s.arr]
        BY <1>1, <1>2, <1>3, <2>2
      <3> HIDE DEF h
      <3>3. h[t.arr][i] = IF i = s.len + 1 THEN x ELSE heap[s.arr][i]
        BY <3>1, <3>2
      <3> QED
        BY <2>1, <2>2, <3>3
    <2>3. CASE t.arr # s.arr
      <3>1. h[t.arr] = heap[t.arr]
        BY <1>1, <2>3
      <3> QED
        BY <2>1, <3>1
    <2> QED
      BY <2>2, <2>3
  <1>4. CASE ~(s.len < Len(heap[s.arr]))
    <2>1. PICK array : AppendTo(heap, s, x).heap = Append(heap, array)
      BY <1>4 DEF AppendTo, Allocate
    <2>2. Append(heap, array)[t.arr] = heap[t.arr]
      BY <1>1
    <2> QED
      BY <2>1, <2>2
  <1> QED
    BY <1>3, <1>4

LEMMA UseFills ==
  ASSUME MiddlewareInv, SlotsInv, NEW o \in Owner, Use(o), MiddlewareInv'
  PROVE  SlotsInv'
  <1> DEFINE V == Nat \cup {Nil}
             s == middleware[o]
             n == uses + 1
             a == AppendTo(arrays, s, n)
             g == Append(given[o], n)
  <1>1. /\ o \in made \cup {Mgr} /\ middleware' = [middleware EXCEPT ![o] = a.slice]
        /\ arrays' = a.heap /\ given' = [given EXCEPT ![o] = g] /\ made' = made
    BY DEF Use, Install
  <1>2. /\ n \in Nat /\ n \in V /\ Nil \in V /\ HeapOf(arrays, V) /\ SliceOf(arrays, s)
        /\ given[o] \in Seq(Nat) /\ Len(given[o]) \in Nat /\ s.len = Len(given[o])
    BY <1>1 DEF MiddlewareInv, SlotsInv
  <1>3. /\ g \in Seq(Nat) /\ Len(g) = Len(given[o]) + 1 /\ g[Len(given[o]) + 1] = n
        /\ \A i \in 1..Len(given[o]) : i \in 1..Len(g) /\ g[i] = given[o][i]
    BY <1>2
  <1>0. a = AppendTo(arrays, s, n)
    OBVIOUS
  <1> HIDE DEF V, s, n, a, g
  <1>4. /\ HeapOf(a.heap, V) /\ SliceOf(a.heap, a.slice)
        /\ Contents(a.heap, a.slice) = Append(Contents(arrays, s), n)
        /\ \A t : SliceOf(arrays, t) => SliceOf(a.heap, t)
        /\ \A t : SliceOf(arrays, t) /\ (t.arr # s.arr \/ t.len <= s.len) =>
               Contents(a.heap, t) = Contents(arrays, t)
    BY <1>0, <1>2, AppendToAdds DEF Nil
  <1>5. ASSUME NEW t, SliceOf(arrays, t), NEW i \in 1..t.len
        PROVE  \/ a.heap[t.arr][i] = arrays[t.arr][i]
               \/ i = s.len + 1 /\ a.heap[t.arr][i] = n
    <2>1. HeapOf(arrays, V) /\ SliceOf(arrays, s)
      BY <1>2
    <2> QED
      BY <1>0, <1>5, <2>1, AppendToFills
  <1>6. /\ middleware'[o] = a.slice /\ given'[o] = g
        /\ \A p \in Owner : p # o => middleware'[p] = middleware[p] /\ given'[p] = given[p]
    BY <1>1 DEF MiddlewareInv
  <1>7. made \cup {Mgr} \subseteq Owner
    BY DEF MiddlewareInv, Owner
  <1>8. \A i, m : GivenBy(given, made, i, m) => GivenBy(given', made', i, m)
    <2> SUFFICES ASSUME NEW i, NEW m, NEW p \in made \cup {Mgr},
                        i \in 1..Len(given[p]), given[p][i] = m
                 PROVE  i \in 1..Len(given'[p]) /\ given'[p][i] = m
      BY <1>1 DEF GivenBy
    <2>1. CASE p = o
      BY <1>3, <1>6, <2>1
    <2>2. CASE p # o
      BY <1>6, <1>7, <2>2
    <2> QED
      BY <2>1, <2>2
  <1>9. GivenBy(given', made', s.len + 1, n)
    BY <1>1, <1>2, <1>3, <1>6 DEF GivenBy
  <1>10. /\ a.slice.len = Len(g)
         /\ \A i \in 1..Len(g) : GivenBy(given', made', i, a.heap[a.slice.arr][i])
    <2>1. /\ Contents(arrays, s) \in Seq(V) /\ Len(Contents(arrays, s)) = s.len
          /\ \A i \in 1..s.len : Contents(arrays, s)[i] = arrays[s.arr][i]
      BY <1>2, ContentsAre
    <2>2. /\ Len(Contents(a.heap, a.slice)) = a.slice.len
          /\ \A i \in 1..a.slice.len : Contents(a.heap, a.slice)[i] = a.heap[a.slice.arr][i]
      BY <1>4, ContentsAre
    <2>3. /\ Len(Append(Contents(arrays, s), n)) = s.len + 1
          /\ Append(Contents(arrays, s), n)[s.len + 1] = n
          /\ \A i \in 1..s.len : Append(Contents(arrays, s), n)[i] = arrays[s.arr][i]
      BY <1>2, <2>1
    <2>4. a.slice.len = s.len + 1 /\ Len(g) = s.len + 1
      BY <1>2, <1>3, <1>4, <2>2, <2>3
    <2>5. \A i \in 1..(s.len + 1) : i \in 1..s.len \/ i = s.len + 1
      BY <1>2
    <2>6. \A i \in 1..s.len : GivenBy(given', made', i, arrays[s.arr][i])
      BY <1>1, <1>2, <1>8 DEF SlotsInv, s
    <2>7. \A i \in 1..(s.len + 1) : GivenBy(given', made', i, Append(Contents(arrays, s), n)[i])
      BY <1>9, <2>3, <2>5, <2>6
    <2> QED
      BY <1>4, <2>2, <2>4, <2>7
  <1>11. ASSUME NEW p \in made \cup {Mgr}, p # o
         PROVE  /\ middleware[p].len = Len(given[p])
                /\ \A i \in 1..Len(given[p]) :
                       GivenBy(given', made', i, a.heap[middleware[p].arr][i])
    <2>1. SliceOf(arrays, middleware[p]) /\ middleware[p].len = Len(given[p])
      BY <1>7 DEF MiddlewareInv, SlotsInv
    <2>2. \A i \in 1..Len(given[p]) : GivenBy(given', made', i, arrays[middleware[p].arr][i])
      BY <1>8 DEF SlotsInv
    <2> QED
      BY <1>5, <1>9, <2>1, <2>2
  <1>12. ASSUME NEW p \in made \cup {Mgr}
         PROVE  /\ middleware'[p].len = Len(given'[p])
                /\ \A i \in 1..Len(given'[p]) :
                       GivenBy(given', made', i, arrays'[middleware'[p].arr][i])
    <2>1. CASE p = o
      BY <1>1, <1>6, <1>10, <2>1
    <2>2. CASE p # o
      BY <1>1, <1>6, <1>7, <1>11, <2>2
    <2> QED
      BY <2>1, <2>2
  <1> QED
    BY <1>1, <1>12 DEF SlotsInv

(* Whatever the calls of Use, a pipeline has as many middleware as its     *)
(* owner was given, and each of them is one that some worker of the        *)
(* manager, or the manager, was given at that place: append may put        *)
(* another's middleware into a pipeline, but it neither drops one without  *)
(* putting another in its place nor leaves a nil to be called.             *)
THEOREM SlotsAreNeverEmpty == Spec => []SlotsAreGiven
  <1>1. Init => SlotsInv
    <2> SUFFICES ASSUME Init PROVE SlotsInv
      OBVIOUS
    <2>1. /\ middleware = [o \in Owner |-> NilSlice] /\ made = {} /\ Mgr \in Owner
          /\ given = [o \in Owner |-> <<>>]
      BY DEF Init, Owner
    <2> QED
      BY <2>1 DEF SlotsInv, NilSlice
  <1>2. ASSUME MiddlewareInv, MiddlewareInv', SlotsInv, [Next]_<<bus, manager>> PROVE SlotsInv'
    <2>1. CASE UNCHANGED <<middleware, arrays, made, given>>
      BY <1>2, <2>1 DEF SlotsInv, GivenBy
    <2>2. ASSUME NEW o \in Owner, Use(o) PROVE SlotsInv'
      BY <1>2, <2>2, UseFills
    <2>3. ASSUME NEW o \in Owner, NEW j \in JobName, Register(o, j) PROVE SlotsInv'
      BY <2>1, <2>3 DEF Register
    <2>4. ASSUME NEW w \in Worker, MakeWorker(w) PROVE SlotsInv'
      <3>1. /\ w \notin made /\ made' = made \cup {w} /\ arrays' = arrays
            /\ middleware' = [middleware EXCEPT ![w] = middleware[Mgr]]
            /\ given' = [given EXCEPT ![w] = given[Mgr]]
        BY <2>4 DEF MakeWorker, NewWorker
      <3>2. w # Mgr /\ w \in Owner /\ made \cup {Mgr} \subseteq Owner
        BY <1>2, ManagerAssumption DEF ManagerAssumption, Owner, MiddlewareInv
      <3>3. /\ middleware'[w] = middleware[Mgr] /\ given'[w] = given[Mgr]
            /\ \A p \in made \cup {Mgr} : middleware'[p] = middleware[p] /\ given'[p] = given[p]
        BY <1>2, <3>1, <3>2 DEF MiddlewareInv
      <3>4. \A i, m : GivenBy(given, made, i, m) => GivenBy(given', made', i, m)
        BY <3>1, <3>3 DEF GivenBy
      <3>5. ASSUME NEW p \in made \cup {Mgr}
            PROVE  /\ middleware[p].len = Len(given[p])
                   /\ \A i \in 1..Len(given[p]) :
                          GivenBy(given', made', i, arrays[middleware[p].arr][i])
        BY <1>2, <3>4 DEF SlotsInv
      <3>6. ASSUME NEW q \in made' \cup {Mgr}
            PROVE  \E p \in made \cup {Mgr} : middleware'[q] = middleware[p] /\ given'[q] = given[p]
        BY <3>1, <3>3
      <3>7. ASSUME NEW q \in made' \cup {Mgr}
            PROVE  /\ middleware'[q].len = Len(given'[q])
                   /\ \A i \in 1..Len(given'[q]) :
                          GivenBy(given', made', i, arrays'[middleware'[q].arr][i])
        <4>1. PICK p \in made \cup {Mgr} : middleware'[q] = middleware[p] /\ given'[q] = given[p]
          BY <3>6
        <4> QED
          BY <3>1, <3>5, <4>1
      <3> QED
        BY <3>7 DEF SlotsInv
    <2>5. CASE UNCHANGED manager
      BY <2>1, <2>5 DEF manager
    <2> QED
      BY <1>2, <2>1, <2>2, <2>3, <2>4, <2>5 DEF Next
  <1>3. ASSUME MiddlewareInv, SlotsInv PROVE SlotsAreGiven
    <2> SUFFICES ASSUME NEW o \in made \cup {Mgr}
                 PROVE  /\ Len(Installed(o)) = Len(given[o])
                        /\ \A i \in 1..Len(given[o]) : GivenBy(given, made, i, Installed(o)[i])
      BY DEF SlotsAreGiven
    <2>1. HeapOf(arrays, Nat \cup {Nil}) /\ SliceOf(arrays, middleware[o])
      BY <1>3 DEF MiddlewareInv, Owner
    <2>2. /\ Len(Installed(o)) = middleware[o].len
          /\ \A i \in 1..middleware[o].len : Installed(o)[i] = arrays[middleware[o].arr][i]
      BY <2>1, ContentsAre DEF Installed
    <2> QED
      BY <1>3, <2>2 DEF SlotsInv
  <1> QED
    BY <1>1, <1>2, <1>3, MiddlewareAlways, PTL DEF Spec
=============================================================================
