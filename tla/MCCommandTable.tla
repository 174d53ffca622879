--------------------------- MODULE MCCommandTable ---------------------------
EXTENDS CommandTable

CONSTANTS TInt, TPtr, TIface

Reg(name, declared, encodable, valid, work, outcomes) ==
  [name |-> name, declared |-> declared, encodable |-> encodable, valid |-> valid, work |-> work,
   outcomes |-> outcomes]

\* one name, registered with a plain type and with an interface that TPtr
\* implements
TwoRegs ==
  {Reg("a", TInt, TRUE, TRUE, "nest", {TInt, Panic}),
   Reg("a", TIface, TRUE, TRUE, "scatter", {TPtr, Nil})}

Request(i, n, path, by) == [id |-> i, name |-> n, path |-> path, by |-> by]

\* a Call, a packet, and the Calls that the handlers of the two make
FourRequests ==
  {Request(1, "a", "call", 0), Request(2, "a", "dispatch", 0),
   Request(3, "a", "nested", 1), Request(4, "a", "nested", 2)}
=============================================================================
