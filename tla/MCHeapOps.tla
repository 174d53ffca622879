------------------------------ MODULE MCHeapOps ------------------------------
EXTENDS HeapOps

Item(g, o) == [group |-> g, order |-> o]

\* two phases, channels in each, an Order that is no number in each, and two
\* priorities AssignH refuses
MCItems ==
  {Item(1, 0), Item(1, 1), Item(1, 2), Item(1, NaN), Item(2, 0), Item(2, NaN),
   Item(-1, 0), Item(1, -1)}
=============================================================================
