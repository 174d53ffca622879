---------------------------- MODULE ConnRegistry ----------------------------
(***************************************************************************)
(* Engine.connection, the table of TCP clients: serveTCP stores an entry   *)
(* under the remote address and starts the connection's reader; the reader *)
(* ends when reading fails and unregisters by the address.  A remote       *)
(* address is an address and a port: once a client is gone another may     *)
(* arrive with the same, perhaps before the engine has noticed that the    *)
(* first one is gone.                                                      *)
(***************************************************************************)
EXTENDS Naturals, Sequences, SequencesExt

CONSTANTS Conns,    \* connections, numbered in the order in which the clients connect
          Addrs,    \* remote addresses
          Nobody    \* no connection

VARIABLES
  addr,      \* remote address of each connection
  backlog,   \* connections established and not yet through Accept and register
  table,     \* e.connection: address to entry
  reader,    \* where each connection's readLoop is
  taken,     \* the entry that reader's unregister took out of the table
  up,        \* the client keeps its end up
  open       \* the engine has not closed its end

vars == <<addr, backlog, table, reader, taken, up, open>>

TypeOK ==
  /\ addr \in [Conns -> Addrs \cup {Nobody}]
  /\ backlog \in Seq(Conns)
  /\ table \in [Addrs -> Conns \cup {Nobody}]
  /\ reader \in [Conns -> {"none", "reading", "leaving", "closing", "gone"}]
  /\ taken \in [Conns -> Conns \cup {Nobody}]
  /\ \A c \in Conns : taken[c] # Nobody <=> reader[c] = "closing"
  /\ up \in [Conns -> BOOLEAN]
  /\ open \in [Conns -> BOOLEAN]

Init ==
  /\ addr = [c \in Conns |-> Nobody]
  /\ backlog = <<>>
  /\ table = [a \in Addrs |-> Nobody]
  /\ reader = [c \in Conns |-> "none"]
  /\ taken = [c \in Conns |-> Nobody]
  /\ up = [c \in Conns |-> FALSE]
  /\ open = [c \in Conns |-> FALSE]

-----------------------------------------------------------------------------
\* no client has the address any more; the engine may not be done with it
Free(a) == \A c \in Conns : addr[c] = a => ~up[c]

\* a client connects; the kernel queues the connection for Accept
Connect(c, a) ==
  /\ addr[c] = Nobody
  /\ \A d \in Conns : d < c => addr[d] # Nobody
  /\ Free(a)
  /\ addr' = [addr EXCEPT ![c] = a]
  /\ up' = [up EXCEPT ![c] = TRUE]
  /\ open' = [open EXCEPT ![c] = TRUE]
  /\ backlog' = Append(backlog, c)
  /\ UNCHANGED <<table, reader, taken>>

\* faulty variant: an entry already in the table stays
RegisterIfAbsent ==
  /\ backlog # <<>>
  /\ backlog' = Tail(backlog)
  /\ LET c == Head(backlog) IN
       /\ table' = IF table[addr[c]] = Nobody THEN [table EXCEPT ![addr[c]] = c] ELSE table
       /\ reader' = [reader EXCEPT ![c] = "reading"]
  /\ UNCHANGED <<addr, taken, up, open>>

\* serveTCP: Accept, register, start the reader
Register ==
  /\ backlog # <<>>
  /\ backlog' = Tail(backlog)
  /\ LET c == Head(backlog) IN
       /\ table' = [table EXCEPT ![addr[c]] = c]
       /\ reader' = [reader EXCEPT ![c] = "reading"]
  /\ UNCHANGED <<addr, taken, up, open>>

ClientLeaves(c) ==
  /\ up[c]
  /\ up' = [up EXCEPT ![c] = FALSE]
  /\ UNCHANGED <<addr, backlog, table, reader, taken, open>>

-----------------------------------------------------------------------------
(* The reader of c; c's own reading fails when either end is closed. *)

ReadFails(c) ==
  /\ reader[c] = "reading"
  /\ ~up[c] \/ ~open[c]
  /\ reader' = [reader EXCEPT ![c] = "leaving"]
  /\ UNCHANGED <<addr, backlog, table, taken, up, open>>

\* c's client sent an unknown type byte or too large a packet
Reject(c) ==
  /\ reader[c] = "reading"
  /\ up[c]
  /\ reader' = [reader EXCEPT ![c] = "leaving"]
  /\ UNCHANGED <<addr, backlog, table, taken, up, open>>

\* faulty variant: the entry is looked up and left in the table
LoadOnly(c) ==
  LET e == table[addr[c]] IN
  /\ reader[c] = "leaving"
  /\ reader' = [reader EXCEPT ![c] = IF e = Nobody THEN "gone" ELSE "closing"]
  /\ taken' = [taken EXCEPT ![c] = e]
  /\ UNCHANGED <<addr, backlog, table, up, open>>

\* unregister: whatever entry the address has is taken out in one step
LoadAndDelete(c) ==
  LET e == table[addr[c]] IN
  /\ reader[c] = "leaving"
  /\ reader' = [reader EXCEPT ![c] = IF e = Nobody THEN "gone" ELSE "closing"]
  /\ taken' = [taken EXCEPT ![c] = e]
  /\ table' = [table EXCEPT ![addr[c]] = Nobody]
  /\ UNCHANGED <<addr, backlog, up, open>>

\* faulty variant: by the time of the close the entry is looked up again
CloseByName(c) ==
  LET e == table[addr[c]] IN
  /\ reader[c] = "closing"
  /\ reader' = [reader EXCEPT ![c] = "gone"]
  /\ open' = IF e = Nobody THEN open ELSE [open EXCEPT ![e] = FALSE]
  /\ taken' = [taken EXCEPT ![c] = Nobody]
  /\ UNCHANGED <<addr, backlog, table, up>>

\* unregister, when it has the mutex of the entry it took out
Close(c) ==
  /\ reader[c] = "closing"
  /\ reader' = [reader EXCEPT ![c] = "gone"]
  /\ open' = [open EXCEPT ![taken[c]] = FALSE]
  /\ taken' = [taken EXCEPT ![c] = Nobody]
  /\ UNCHANGED <<addr, backlog, table, up>>

ReaderStep(c) == ReadFails(c) \/ LoadAndDelete(c) \/ Close(c)

-----------------------------------------------------------------------------
Next ==
  \/ \E c \in Conns, a \in Addrs : Connect(c, a)
  \/ Register
  \/ \E c \in Conns : ClientLeaves(c) \/ Reject(c) \/ ReaderStep(c)

Spec == Init /\ [][Next]_vars

-----------------------------------------------------------------------------
Closing == {c \in Conns : reader[c] = "closing"}

(***************************************************************************)
(* invocation.go:225-247.  An entry in the table or in the hands of an     *)
(* unregister has an open connection, and is in one place only: no         *)
(* connection is closed twice and no closed one is found by a Push, even   *)
(* when readers of two connections with one address unregister at once.    *)
(***************************************************************************)
ClosedOnce ==
  /\ \A c \in Closing : open[taken[c]]
  /\ \A c, d \in Closing : taken[c] = taken[d] => c = d
  /\ \A a \in Addrs : table[a] # Nobody => open[table[a]] /\ table[a] \notin {taken[c] : c \in Closing}

(***************************************************************************)
(* tcp.go:45, invocation.go:235-247.  The engine closes its end of every   *)
(* connection whose client is gone, unless a connection with the same      *)
(* address took its place in the table: then the first, which no reader    *)
(* finds any more, may stay open for good.                                 *)
(***************************************************************************)
NoneLeaks ==
  \A c \in Conns, a \in Addrs :
    (table[a] = c /\ ~up[c]) ~> (~open[c] \/ table[a] \notin {c, Nobody})
=============================================================================
