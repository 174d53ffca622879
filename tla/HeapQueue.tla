------------------------------ MODULE HeapQueue ------------------------------
(***************************************************************************)
(* hTaskHeap (pool.go:35-52) under Go's container/heap: a binary heap in a *)
(* slice, here a sequence, so the parent of position j is j \div 2.  An    *)
(* item is an hTask: its priority is its fields group and order.  order is *)
(* a float64: an integer stands for a number, NaN for the one value that   *)
(* is neither below nor above anything.                                    *)
(***************************************************************************)
EXTENDS Integers, Sequences, Functions

CONSTANT NaN

OrderLess(x, y) == x # NaN /\ y # NaN /\ x < y

Less(a, b) ==
  \/ a.group < b.group
  \/ a.group = b.group /\ OrderLess(a.order, b.order)

\* Factory.validatePriority: what AssignH lets through, NaN included
ValidPriority(x) == ~(x.group < 0 \/ OrderLess(x.order, 0))

Swap(h, i, j) == [h EXCEPT ![i] = h[j], ![j] = h[i]]

\* the loops of heap.up and heap.down: the slice, and where the moving item is
Sifting(heap) == [1..Len(heap) -> Range(heap)] \X (1..Len(heap))

\* heap.up: the item at j climbs while it is less than its parent
SiftUp(heap, from) ==
  LET up[s \in Sifting(heap)] ==
        LET h == s[1]  j == s[2]
        IN  IF j = 1 \/ ~Less(h[j], h[j \div 2])
            THEN h
            ELSE up[<<Swap(h, j, j \div 2), j \div 2>>]
  IN  up[<<heap, from>>]

\* faulty variant: heap.down always follows the left child
LeftChild(h, i, n) == 2 * i

\* the child of i that heap.down compares with i: the right one only if less
LesserChild(h, i, n) ==
  IF 2 * i + 1 <= n /\ Less(h[2 * i + 1], h[2 * i]) THEN 2 * i + 1 ELSE 2 * i

\* heap.down: the item at the root sinks among the first n positions
SiftDown(heap, n) ==
  LET down[s \in Sifting(heap)] ==
        LET h == s[1]  i == s[2]  child == LesserChild(h, i, n)
        IN  IF 2 * i > n \/ ~Less(h[child], h[i])
            THEN h
            ELSE down[<<Swap(h, i, child), child>>]
  IN  down[<<heap, 1>>]

\* heap.Push: append, then up
HeapPush(h, x) == SiftUp(Append(h, x), Len(h) + 1)

\* heap.Pop: swap the root to the end, down, cut off the end
PopOrder(h) == SiftDown(Swap(h, 1, Len(h)), Len(h) - 1)
HeapTop(h) == PopOrder(h)[Len(h)]

HeapRest(h) == SubSeq(PopOrder(h), 1, Len(h) - 1)
=============================================================================
