---------------------------- MODULE CommandFlow ----------------------------
(***************************************************************************)
(* The way of a packet through the engine: off a TCP connection or the UDP *)
(* socket, over iCore to the command table, over hPool to its handler,     *)
(* through Push to pPool and onto a connection - under clients that come   *)
(* and go on the same address (ConnRegistry) and a Stop at any moment.     *)
(* Each pool is a line in the sense of TaskPromise.  The priorities of     *)
(* hPool are HarmonicPool's subject, the acknowledgement of a frame is     *)
(* PushAck's, the outcome of a handler is CommandTable's.                  *)
(***************************************************************************)
EXTENDS Naturals, FiniteSets, SequencesExt

CONSTANTS
  Packets,                  \* packets received, each with one command, as numbers
  Datagrams,                \* those of them that may come over UDP
  Conns, Addrs, Nobody,     \* as in ConnRegistry
  IWidth, HWidth, PWidth    \* workers of iCore, hPool and pPool

ASSUME FlowAssumption ==
  /\ {IWidth, HWidth, PWidth} \subseteq Nat \ {0}
  /\ Packets \subseteq Nat /\ IsFiniteSet(Packets) /\ Datagrams \subseteq Packets /\ Conns \subseteq Nat
  /\ Conns \cap Addrs = {} /\ Nobody \notin Conns \cup Addrs

VARIABLES
  addr, backlog, table, reader, taken, up, open,   \* as in ConnRegistry
  stage,                 \* where each packet is
  from,                  \* connection it was read from, or address of the datagram
  iLine, hLine, pLine,   \* what waits in the queues of iCore, hPool and pPool
  entry,                 \* the entry Push looked up, Nobody for PushUDP
  ts,                    \* the Ts that Push stamped, as its rank among the stamps
  wire,                  \* frames written to each connection
  running,               \* engine.running
  late,                  \* observer: packets waiting that joined a queue after its close
  near                   \* observer: pairs once inside Push, or on pPool workers, together

conns == <<addr, backlog, table, reader, taken, up, open>>
lines == <<iLine, hLine, pLine>>
frames == <<entry, ts, wire, near>>
vars == <<conns, stage, from, lines, frames, running, late>>

Registry == INSTANCE ConnRegistry

InReceipt == {"dispatch", "admitted"}      \* on an iCore worker
InHandler == {"handler", "pushing"}        \* on an hPool worker
InSend == {"popped", "sending"}            \* on a pPool worker
Ends == {"undispatched", "unpushed", "over"}

At(stages) == {p \in Packets : stage[p] \in stages}

TypeOK ==
  /\ Registry!TypeOK
  /\ stage \in [Packets -> {"idle", "receipt", "command", "frame"}
                             \cup InReceipt \cup InHandler \cup InSend \cup Ends]
  /\ from \in [Packets -> Conns \cup Addrs \cup {Nobody}]
  /\ entry \in [Packets -> Conns \cup {Nobody}]
  /\ ts \in [Packets -> 0..Cardinality(Packets)]
  /\ wire \in [Conns -> Seq(Packets)]
  /\ running \in BOOLEAN
  /\ late \subseteq Packets
  /\ near \subseteq SUBSET Packets
  /\ ToSet(iLine) = At({"receipt"}) /\ IsInjective(iLine)
  /\ ToSet(hLine) = At({"command"}) /\ IsInjective(hLine)
  /\ ToSet(pLine) = At({"frame"}) /\ IsInjective(pLine)
  /\ \A p, q \in At({"sending"}) : entry[p] = entry[q] => p = q

Init ==
  /\ Registry!Init
  /\ stage = [p \in Packets |-> "idle"]
  /\ from = [p \in Packets |-> Nobody]
  /\ iLine = <<>> /\ hLine = <<>> /\ pLine = <<>>
  /\ entry = [p \in Packets |-> Nobody]
  /\ ts = [p \in Packets |-> 0]
  /\ wire = [c \in Conns |-> <<>>]
  /\ running = TRUE
  /\ late = {} /\ near = {}

-----------------------------------------------------------------------------
Move(p, here, there) == stage[p] = here /\ stage' = [stage EXCEPT ![p] = there]

\* a step that moves p and touches nothing else
Step(p, here, there) ==
  /\ Move(p, here, there)
  /\ UNCHANGED <<conns, from, lines, frames, running, late>>

\* p is given up; its closure, with what it captured, is gone
Drop(p, here, there) ==
  /\ Move(p, here, there)
  /\ from' = [from EXCEPT ![p] = Nobody]
  /\ entry' = [entry EXCEPT ![p] = Nobody]
  /\ UNCHANGED <<conns, lines, ts, wire, near, running, late>>

\* p joins a queue, which may be closed
Join(p) == late' = IF running THEN late ELSE late \cup {p}

Origin(p) == IF from[p] \in Conns THEN addr[from[p]] ELSE from[p]

-----------------------------------------------------------------------------
(* Clients and readers.  A reader's Close waits for the send that holds    *)
(* the entry's mutex.                                                      *)

Held(c) == \E p \in At({"sending"}) : entry[p] = c

Unlocked == \A c \in Conns : reader[c] = "closing" /\ reader'[c] = "gone" => ~Held(taken[c])

ClientStep == Registry!Next /\ Unlocked /\ UNCHANGED <<stage, from, lines, frames, running, late>>

ReaderStep(c) ==
  /\ Registry!ReaderStep(c) /\ Unlocked
  /\ UNCHANGED <<stage, from, lines, frames, running, late>>

\* packets are numbered in the order of their receipt
Receive(p, source) ==
  /\ \A q \in Packets : q < p => stage[q] # "idle"
  /\ Move(p, "idle", "receipt")
  /\ from' = [from EXCEPT ![p] = source]
  /\ iLine' = Append(iLine, p)
  /\ Join(p)
  /\ UNCHANGED <<conns, hLine, pLine, frames, running>>

\* readLoop, a command: what the client sent before it left is read all the same
ReadCommand(p, c) == reader[c] = "reading" /\ open[c] /\ Receive(p, c)

\* serveUDP: what it read before Stop closed the socket it may submit much later
ReadDatagram(p, a) == p \in Datagrams /\ Receive(p, a)

-----------------------------------------------------------------------------
(* iCore: handleCommand and Dispatch. *)

StartReceipt(p) ==
  /\ Cardinality(At(InReceipt)) < IWidth
  /\ iLine # <<>> /\ Head(iLine) = p
  /\ Move(p, "receipt", "dispatch")
  /\ iLine' = Tail(iLine)
  /\ late' = late \ {p}
  /\ UNCHANGED <<conns, from, hLine, pLine, frames, running>>

\* no table, a datagram that does not decode, an unknown command, AssignH's refusal
DropCommand(p) == Drop(p, "dispatch", "undispatched")

\* faulty variant: the engine's running flag is not looked at
AdmitUnchecked(p) == Step(p, "dispatch", "admitted")

\* AssignH: validate
AdmitCommand(p) ==
  /\ running
  /\ Step(p, "dispatch", "admitted")

\* AssignH: submit; the receipt is done
QueueCommand(p) ==
  /\ Move(p, "admitted", "command")
  /\ hLine' = Append(hLine, p)
  /\ Join(p)
  /\ UNCHANGED <<conns, from, iLine, pLine, frames, running>>

-----------------------------------------------------------------------------
(* hPool: the handler, and Push on its worker. *)

StartHandler(p) ==
  /\ Cardinality(At(InHandler)) < HWidth
  /\ Move(p, "command", "handler")
  /\ \E i \in DOMAIN hLine : hLine[i] = p /\ hLine' = RemoveAt(hLine, i)
  /\ late' = late \ {p}
  /\ UNCHANGED <<conns, from, iLine, pLine, frames, running>>

\* an error, nil, or a result that does not encode
HandlerSilent(p) == Drop(p, "handler", "unpushed")

Stamps == Cardinality({p \in Packets : ts[p] # 0})

\* the packet is stamped and AssignP's validate passed
Stamp(p, e) ==
  /\ Move(p, "handler", "pushing")
  /\ ts' = [ts EXCEPT ![p] = Stamps + 1]
  /\ entry' = [entry EXCEPT ![p] = e]
  /\ near' = near \cup {{p, q} : q \in At({"pushing"})}
  /\ UNCHANGED <<conns, from, lines, wire, running, late>>

\* whatever entry the address has now; not connected, or refused by AssignP
Push(p, a) ==
  /\ stage[p] = "handler"
  /\ IF table[a] = Nobody \/ ~running THEN Drop(p, "handler", "unpushed")
     ELSE Stamp(p, table[a])

\* the handler's result goes to where the command came from
Answer(p) == Push(p, Origin(p))

\* the handler itself sends to an address it knows, as a client or over UDP
Route(p) == \E a \in Addrs : Push(p, a)

\* the Ts of a datagram is not followed
PushUDP(p) ==
  IF running THEN Step(p, "handler", "pushing") ELSE Drop(p, "handler", "unpushed")

\* faulty variant: the frame goes to the front of the queue
QueueFrameFirst(p) ==
  /\ Move(p, "pushing", "frame")
  /\ pLine' = <<p>> \o pLine
  /\ Join(p)
  /\ UNCHANGED <<conns, from, iLine, hLine, frames, running>>

\* AssignP: submit
QueueFrame(p) ==
  /\ Move(p, "pushing", "frame")
  /\ pLine' = Append(pLine, p)
  /\ Join(p)
  /\ UNCHANGED <<conns, from, iLine, hLine, frames, running>>

-----------------------------------------------------------------------------
(* pPool: the write, under the entry's mutex. *)

StartSend(p) ==
  /\ Cardinality(At(InSend)) < PWidth
  /\ pLine # <<>> /\ Head(pLine) = p
  /\ Move(p, "frame", "popped")
  /\ pLine' = Tail(pLine)
  /\ near' = near \cup {{p, q} : q \in At(InSend)}
  /\ late' = late \ {p}
  /\ UNCHANGED <<conns, from, iLine, hLine, entry, ts, wire, running>>

\* faulty variant: the frame is written without the entry's mutex
WriteUnlocked(p) ==
  /\ entry[p] # Nobody /\ open[entry[p]]
  /\ Move(p, "popped", "sending")
  /\ wire' = [wire EXCEPT ![entry[p]] = Append(@, p)]
  /\ UNCHANGED <<conns, from, lines, entry, ts, near, running, late>>

\* entry.mu.Lock and conn.Write
Write(p) ==
  LET c == entry[p] IN
  /\ c # Nobody /\ ~Held(c) /\ open[c]
  /\ Move(p, "popped", "sending")
  /\ wire' = [wire EXCEPT ![c] = Append(@, p)]
  /\ UNCHANGED <<conns, from, lines, entry, ts, near, running, late>>

\* either end of the connection is closed
WriteFails(p) ==
  LET c == entry[p] IN
  /\ c # Nobody /\ ~Held(c) /\ ~(open[c] /\ up[c])
  /\ Drop(p, "popped", "over")

\* PushUDP's WriteToUDP, and its error
WriteDatagram(p) == entry[p] = Nobody /\ Drop(p, "popped", "over")

\* faulty variant: no timeout, only an ack ends the send
EndSendAcked(p) ==
  /\ stage[p] = "sending" /\ up[entry[p]]
  /\ Move(p, "sending", "over")
  /\ entry' = [entry EXCEPT ![p] = Nobody]
  /\ UNCHANGED <<conns, from, lines, ts, wire, near, running, late>>

\* an ack, or the timeout and the resend: send returns and the mutex is free
EndSend(p) ==
  /\ Move(p, "sending", "over")
  /\ entry' = [entry EXCEPT ![p] = Nobody]
  /\ UNCHANGED <<conns, from, lines, ts, wire, near, running, late>>

-----------------------------------------------------------------------------
\* Engine.Stop clears running, then closes iPool, pPool and hPool; in one step
\* here, by which more packets are late than in the code
Stop ==
  /\ running
  /\ running' = FALSE
  /\ UNCHANGED <<conns, stage, from, lines, frames, late>>

\* what a worker takes out of a queue
Start(p) == StartReceipt(p) \/ StartHandler(p) \/ StartSend(p)

\* what a worker does with it
Proceed(p) ==
  \/ DropCommand(p) \/ AdmitCommand(p) \/ QueueCommand(p)
  \/ HandlerSilent(p) \/ Answer(p) \/ Route(p) \/ PushUDP(p) \/ QueueFrame(p)
  \/ Write(p) \/ WriteFails(p) \/ WriteDatagram(p) \/ EndSend(p)

Next ==
  \/ ClientStep
  \/ \E p \in Packets, c \in Conns : ReadCommand(p, c)
  \/ \E p \in Packets, a \in Addrs : ReadDatagram(p, a)
  \/ \E p \in Packets : Start(p) \/ Proceed(p)
  \/ Stop

Spec == Init /\ [][Next]_vars

(***************************************************************************)
(* Workers go on with what they hold, and run what was queued before the   *)
(* pool closed (WorkerPool.QueuedBeforeStopRuns); what is queued later     *)
(* they may run or not.  Handlers return and clients read or leave.        *)
(***************************************************************************)
Fairness ==
  /\ \A c \in Conns : WF_vars(ReaderStep(c))
  /\ \A p \in Packets : WF_vars((p \notin late /\ Start(p)) \/ Proceed(p))

FairSpec == Spec /\ Fairness

-----------------------------------------------------------------------------
(***************************************************************************)
(* invocation.go:225-247.  No connection is closed twice and no closed one *)
(* is found by a Push, with sends holding up the closes.                   *)
(***************************************************************************)
ClosedOnce == Registry!ClosedOnce

(***************************************************************************)
(* tcp.go:45, invocation.go:235-247.  A connection whose client is gone is *)
(* closed unless another took its place, though a send may hold its mutex. *)
(***************************************************************************)
NoneLeaks == Registry!NoneLeaks

(***************************************************************************)
(* registry.go:174-183, factory.go:81-104.  A result is sent once (its     *)
(* resend, which PushAck has, apart), and to no other client of the        *)
(* address than the one that sent the command, as long as that one is      *)
(* there: only the result of a client that has left can reach the next one *)
(* with its address.                                                       *)
(***************************************************************************)
AnswersGoHome ==
  \A c \in Conns :
    /\ IsInjective(wire[c])
    /\ \A p \in ToSet(wire[c]) :
         (from[p] \in Conns \ {c} /\ Origin(p) = addr[c]) => ~up[from[p]]

(***************************************************************************)
(* factory.go:89-103, timer.go:35.  On one connection a frame with a lower *)
(* Ts follows one with a higher only if their Push calls overlapped or two *)
(* pPool workers had them at once - whichever handlers pushed them, in     *)
(* whatever order their commands came.                                     *)
(***************************************************************************)
WireInTsOrder ==
  \A c \in Conns : \A i, j \in DOMAIN wire[c] :
    i < j /\ ts[wire[c][i]] > ts[wire[c][j]] => {wire[c][i], wire[c][j]} \in near

(***************************************************************************)
(* tcp.go:81-92, udp.go:38-50, registry.go:147-185.  A packet received is  *)
(* answered or given up, with a log entry where the code has one, also     *)
(* when its client leaves or the engine stops meanwhile - unless it joined *)
(* a queue that Stop had closed already.                                   *)
(***************************************************************************)
Accounted == <>[](\A p \in Packets : stage[p] \in {"idle"} \cup Ends \/ p \in late)

-----------------------------------------------------------------------------
Oldest(line, i) == i = 1

Anyone(line, i) == TRUE

\* the state of each packet's task in the pool where these stages are
TaskIn(new, admitted, waiting, active) ==
  [p \in Packets |->
     IF stage[p] \in new THEN "new"
     ELSE IF stage[p] \in admitted THEN "admitted"
     ELSE IF stage[p] \in waiting THEN "waiting"
     ELSE IF stage[p] \in active THEN "running"
     ELSE "done"]

Before == {"idle", "receipt", "dispatch", "undispatched"}

ICore == INSTANCE TaskPromise WITH
  Tasks <- Packets, Direct <- Packets, Width <- IWidth, MayStart <- Oldest,
  state <- TaskIn({"idle"}, {}, {"receipt"}, InReceipt), line <- iLine, open <- running

Harmonic == INSTANCE TaskPromise WITH
  Tasks <- Packets, Direct <- {}, Width <- HWidth, MayStart <- Anyone,
  state <- TaskIn(Before, {"admitted"}, {"command"}, InHandler), line <- hLine, open <- running

Protocol == INSTANCE TaskPromise WITH
  Tasks <- Packets, Direct <- {}, Width <- PWidth, MayStart <- Oldest,
  state <- TaskIn(Before \cup {"admitted", "command", "handler", "unpushed"},
                  {"pushing"}, {"frame"}, InSend),
  line <- pLine, open <- running

(***************************************************************************)
(* pool.go, factory.go:25-58.  The three pools that a packet passes are    *)
(* used only in the ways WorkerPool and HarmonicPool are shown to promise: *)
(* receipts start in the order in which the readers submitted them, frames *)
(* in the order of their pushes, nothing joins after a refusal, and no     *)
(* handler or receipt needs a worker that is not there.                    *)
(***************************************************************************)
PoolsAsPromised == ICore!Spec /\ Harmonic!Spec /\ Protocol!Spec
=============================================================================
