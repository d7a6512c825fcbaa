------------------------------- MODULE GoSlices -------------------------------
(***************************************************************************)
(* Slices of Go as the code under pkg/events, pkg/middleware and pkg/queue *)
(* uses them: a heap of arrays, and slices that are a reference to one and *)
(* a length. Two slices may refer to one array.                            *)
(***************************************************************************)
EXTENDS Integers, Sequences

Nil == "nil"

(* The heap starts with the empty array of the nil slice.                  *)
EmptyHeap == <<<<>>>>
NilSlice == [arr |-> 1, len |-> 0]

Contents(heap, s) == SubSeq(heap[s.arr], 1, s.len)

Allocate(heap, array, n) ==
    [heap |-> Append(heap, array), slice |-> [arr |-> Len(heap) + 1, len |-> n]]

(* append(s, x): in place while the array has room, whoever else refers to *)
(* it, else into a new array of twice the capacity.                        *)
AppendTo(heap, s, x) ==
    LET cap  == Len(heap[s.arr])
        room == IF cap = 0 THEN 1 ELSE 2 * cap
    IN  IF s.len < cap
        THEN [heap |-> [heap EXCEPT ![s.arr][s.len + 1] = x], slice |-> [s EXCEPT !.len = @ + 1]]
        ELSE Allocate(heap, [i \in 1..room |-> IF i <= cap THEN heap[s.arr][i]
                                               ELSE IF i = cap + 1 THEN x ELSE Nil], s.len + 1)

(* make([]T, len(s)+1), copy and the assignment of the last element.       *)
CopyAppend(heap, s, x) == Allocate(heap, Append(Contents(heap, s), x), s.len + 1)
=============================================================================
