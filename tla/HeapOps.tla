------------------------------- MODULE HeapOps -------------------------------
(***************************************************************************)
(* The heap of HeapQueue alone, under every sequence of pushes and pops up *)
(* to a size, against the reference definition of a priority queue: a bag  *)
(* from which a least item leaves.                                         *)
(***************************************************************************)
EXTENDS HeapQueue

CONSTANTS Items,      \* the hTask values handed to AssignH
          MaxLen      \* bound on the length of the heap

\* Group is an int, Order a float64: a number or not one
ASSUME ItemsAssumption ==
  /\ NaN \notin Int
  /\ \A x \in Items : x.group \in Int /\ x.order \in Int \cup {NaN}

VARIABLES slice,      \* p.queue
          held,       \* reference: how often each item was pushed and not popped
          popped,     \* the item the last operation popped, or the empty tuple
          spoilt      \* observer: a NaN was pushed since the heap was last empty

heapVars == <<slice, held, popped, spoilt>>

HeapInit == slice = <<>> /\ held = [x \in Items |-> 0] /\ popped = <<>> /\ spoilt = FALSE

Push(x) ==
  /\ ValidPriority(x)
  /\ Len(slice) < MaxLen
  /\ slice' = HeapPush(slice, x)
  /\ held' = [held EXCEPT ![x] = @ + 1]
  /\ popped' = <<>>
  /\ spoilt' = (x.order = NaN \/ (spoilt /\ slice # <<>>))

Pop ==
  /\ slice # <<>>
  /\ popped' = <<HeapTop(slice)>>
  /\ slice' = HeapRest(slice)
  /\ held' = [held EXCEPT ![HeapTop(slice)] = @ - 1]
  /\ UNCHANGED spoilt

HeapNext == (\E x \in Items : Push(x)) \/ Pop

HeapSpec == HeapInit /\ [][HeapNext]_heapVars

-----------------------------------------------------------------------------
(***************************************************************************)
(* README.md:132 "Both axes sort ascending - lower values run first".  No  *)
(* item left in the queue has a lower Group than the one that was popped,  *)
(* or is less than it - the latter as long as no NaN has been among them:  *)
(* README.md:145 calls any float64 a legal Order, and AssignH lets NaN in, *)
(* but with one in the heap the Orders within a Group may come out wrong.  *)
(***************************************************************************)
PopsLeast ==
  [][\A i \in DOMAIN popped' : \A y \in {x \in Items : held'[x] > 0} :
       /\ popped'[i].group <= y.group
       /\ spoilt \/ ~Less(y, popped'[i])]_heapVars
=============================================================================
