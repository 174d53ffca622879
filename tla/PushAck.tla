------------------------------ MODULE PushAck ------------------------------
(***************************************************************************)
(* One TCP client and what the engine sends it: Factory.Push queues a send *)
(* on pPool, a protocol worker runs it under the entry's mutex, writes the *)
(* frame, waits for a one-byte answer or 50 ms, and writes it once more if *)
(* the answer is 0 or does not come.  The connection's reader goroutine    *)
(* hands answers over through ackCh, a channel with room for one byte, and *)
(* unregisters the client when reading fails.  Time is left out: the timer *)
(* may fire whenever a worker waits.  pPool is its FIFO line, the promise  *)
(* that WorkerPool is shown to keep.                                       *)
(***************************************************************************)
EXTENDS Naturals, Sequences, SequencesExt

CONSTANTS MaxPushes,  \* bound on the number of calls to Push for this client
          PWorkers,   \* the workers of pPool
          Nobody,     \* holder of entry.mu while it is free; what an idle worker sends
          Window      \* bound: frames TCP accepts before the client reads any

\* a packet is known by the number of its Push
Packets == 1..MaxPushes

ASSUME PushAssumption ==
  /\ MaxPushes \in Nat /\ Window \in Nat \ {0}
  /\ Nobody \notin Packets \cup PWorkers

VARIABLES
  pushes,      \* number of calls to Push so far
  line,        \* pPool's queue: packets whose send has not begun
  pc,          \* where each protocol worker is in send()
  sending,     \* the packet a worker sends
  holder,      \* the worker that holds entry.mu
  wire,        \* frames written and not yet read by the client
  answers,     \* the client's acks not yet read by readLoop
  ackCh,       \* entry.ackCh
  reader,      \* where readLoop is
  registered,  \* e.connection has the client
  open,        \* entry.conn is not closed by the engine
  peer,        \* the client keeps the connection up
  written,     \* observer: the packets of all frames written, in order
  again,       \* observer: packets whose send() went on to write a second time
  credited     \* observer: which ack each packet consumed

wvars == <<pc, sending, holder>>
nvars == <<wire, answers, peer>>
rvars == <<ackCh, reader, registered, open>>
vars == <<pushes, line, wvars, nvars, rvars, written, again, credited>>

\* an ack is one byte; of is the packet the client meant, which the byte does not say
Acks == [of : Packets, byte : {0, 1}]

Init ==
  /\ pushes = 0
  /\ line = <<>>
  /\ pc = [w \in PWorkers |-> "idle"]
  /\ sending = [w \in PWorkers |-> Nobody]
  /\ holder = Nobody
  /\ wire = <<>> /\ answers = <<>> /\ ackCh = <<>>
  /\ reader = "reading"
  /\ registered = TRUE /\ open = TRUE /\ peer = TRUE
  /\ written = <<>>
  /\ again = {} /\ credited = {}

-----------------------------------------------------------------------------
\* Factory.Push: look the client up, hand the send to AssignP
Push ==
  /\ pushes < MaxPushes
  /\ pushes' = pushes + 1
  /\ line' = IF registered THEN Append(line, pushes') ELSE line
  /\ UNCHANGED <<wvars, nvars, rvars, written, again, credited>>

-----------------------------------------------------------------------------
(* A protocol worker. *)

Goto(w, from, to) == pc[w] = from /\ pc' = [pc EXCEPT ![w] = to]

\* send() returns and the deferred Unlock runs
Done(w, from) ==
  /\ Goto(w, from, "idle")
  /\ sending' = [sending EXCEPT ![w] = Nobody]
  /\ holder' = Nobody

Begin(w) ==
  /\ line # <<>>
  /\ Goto(w, "idle", "lock")
  /\ sending' = [sending EXCEPT ![w] = Head(line)]
  /\ line' = Tail(line)
  /\ UNCHANGED <<pushes, holder, nvars, rvars, written, again, credited>>

\* faulty variant: entry.mu is not taken
LockNothing(w) ==
  /\ Goto(w, "lock", "write")
  /\ holder' = w
  /\ UNCHANGED <<pushes, line, sending, nvars, rvars, written, again, credited>>

LockEntry(w) ==
  /\ holder = Nobody
  /\ Goto(w, "lock", "write")
  /\ holder' = w
  /\ UNCHANGED <<pushes, line, sending, nvars, rvars, written, again, credited>>

\* conn.Write succeeded: TCP took the frame
Frame(w) ==
  /\ open
  /\ Len(wire) < Window
  /\ wire' = Append(wire, sending[w])
  /\ written' = Append(written, sending[w])
  /\ UNCHANGED <<answers, peer>>

\* conn.Write failed: the engine closed conn, or TCP knows the client is gone
WriteError == ~open \/ ~peer

\* faulty variant: entry.mu is given back before the answer is awaited
WriteUnlocking(w) ==
  /\ Goto(w, "write", "await")
  /\ Frame(w)
  /\ holder' = Nobody
  /\ UNCHANGED <<pushes, line, sending, rvars, again, credited>>

Write(w) ==
  /\ Goto(w, "write", "await")
  /\ Frame(w)
  /\ UNCHANGED <<pushes, line, sending, holder, rvars, again, credited>>

WriteFails(w) ==
  /\ WriteError
  /\ Done(w, "write")
  /\ UNCHANGED <<pushes, line, nvars, rvars, written, again, credited>>

WriteAgain(w) ==
  /\ Goto(w, "await", "rewrite")
  /\ again' = again \cup {sending[w]}
  /\ UNCHANGED <<sending, holder>>

\* faulty variant: any ack ends the send
TakeAnyAck(w) ==
  /\ ackCh # <<>>
  /\ ackCh' = <<>>
  /\ credited' = credited \cup {[to |-> sending[w], ack |-> Head(ackCh)]}
  /\ Done(w, "await")
  /\ UNCHANGED <<pushes, line, nvars, reader, registered, open, written, again>>

\* the select took a byte from ackCh: 0 asks for the frame again
TakeAck(w) ==
  /\ ackCh # <<>>
  /\ ackCh' = <<>>
  /\ credited' = credited \cup {[to |-> sending[w], ack |-> Head(ackCh)]}
  /\ IF Head(ackCh).byte = 0
     THEN WriteAgain(w) ELSE Done(w, "await") /\ UNCHANGED again
  /\ UNCHANGED <<pushes, line, nvars, reader, registered, open, written>>

\* faulty variant: the timer ends the wait only for a client that has left
TimeoutIfGone(w) ==
  /\ ~registered
  /\ WriteAgain(w)
  /\ UNCHANGED <<pushes, line, nvars, rvars, written, credited>>

\* the select took time.After(ackTimeout)
Timeout(w) ==
  /\ WriteAgain(w)
  /\ UNCHANGED <<pushes, line, nvars, rvars, written, credited>>

\* the second write; its answer is not waited for
Rewrite(w) ==
  /\ Done(w, "rewrite")
  /\ Frame(w)
  /\ UNCHANGED <<pushes, line, rvars, again, credited>>

RewriteFails(w) ==
  /\ WriteError
  /\ Done(w, "rewrite")
  /\ UNCHANGED <<pushes, line, nvars, rvars, written, again, credited>>

SendStep(w) ==
  \/ Begin(w) \/ LockEntry(w) \/ Write(w) \/ WriteFails(w)
  \/ TakeAck(w) \/ Timeout(w) \/ Rewrite(w) \/ RewriteFails(w)

-----------------------------------------------------------------------------
(* The connection's reader goroutine. *)

\* an ack byte is offered to ackCh and dropped when one is there already
ReadAck ==
  /\ reader = "reading"
  /\ answers # <<>>
  /\ answers' = Tail(answers)
  /\ ackCh' = IF ackCh = <<>> THEN <<Head(answers)>> ELSE ackCh
  /\ UNCHANGED <<pushes, line, wvars, wire, peer, reader, registered, open, written, again, credited>>

\* readLoop returns: unregister takes the client out of e.connection
Unregister ==
  /\ reader = "reading"
  /\ reader' = "closing"
  /\ registered' = FALSE
  /\ UNCHANGED <<pushes, line, wvars, nvars, ackCh, open, written, again, credited>>

\* the client is gone
ReadFails == ~peer /\ Unregister

\* it is there, and sent an unknown type byte or too large a packet
Reject == peer /\ Unregister

\* faulty variant: unregister closes without entry.mu
CloseAtOnce ==
  /\ reader = "closing"
  /\ reader' = "gone"
  /\ open' = FALSE
  /\ UNCHANGED <<pushes, line, wvars, nvars, ackCh, registered, written, again, credited>>

\* and closes conn under entry.mu
CloseConn ==
  /\ reader = "closing"
  /\ holder = Nobody
  /\ reader' = "gone"
  /\ open' = FALSE
  /\ UNCHANGED <<pushes, line, wvars, nvars, ackCh, registered, written, again, credited>>

-----------------------------------------------------------------------------
(* The client: reads frames, answers a frame once or not at all, leaves. *)

ClientReads(byte) ==
  /\ peer
  /\ wire # <<>>
  /\ wire' = Tail(wire)
  /\ answers' = IF byte \in {0, 1}
                THEN Append(answers, [of |-> Head(wire), byte |-> byte])
                ELSE answers
  /\ UNCHANGED <<pushes, line, wvars, rvars, peer, written, again, credited>>

Silence == 2

ClientLeaves ==
  /\ peer
  /\ peer' = FALSE
  /\ UNCHANGED <<pushes, line, wvars, wire, answers, rvars, written, again, credited>>

-----------------------------------------------------------------------------
Next ==
  \/ Push
  \/ \E w \in PWorkers : SendStep(w)
  \/ ReadAck \/ ReadFails \/ Reject \/ CloseConn
  \/ \E byte \in {0, 1, Silence} : ClientReads(byte)
  \/ ClientLeaves

Spec == Init /\ [][Next]_vars

(***************************************************************************)
(* Workers and the reader run, the timer fires.  Nothing is asked of the   *)
(* client: it may stop reading, answering or sending for good.             *)
(***************************************************************************)
Fairness ==
  /\ \A w \in PWorkers : WF_vars(SendStep(w))
  /\ WF_vars(ReadAck)
  /\ WF_vars(ReadFails)
  /\ WF_vars(CloseConn)

FairSpec == Spec /\ Fairness

-----------------------------------------------------------------------------
\* packets on the wire twice
Resent == {p \in Packets : \E i, j \in DOMAIN written : i # j /\ written[i] = p /\ written[j] = p}

(***************************************************************************)
(* factory.go:99-124.  Whatever the workers do at once, the client reads   *)
(* the copies of a packet next to each other, two at most: no other frame  *)
(* comes between a frame and its resend.                                   *)
(***************************************************************************)
CopiesAdjacent ==
  /\ \A i, j \in DOMAIN written : i < j /\ written[i] = written[j] => j = i + 1
  /\ \A w \in PWorkers :
       pc[w] \in {"await", "rewrite"} => written # <<>> /\ Last(written) = sending[w]

Strays == {c \in credited : c.ack.of # c.to}

(***************************************************************************)
(* factory.go:111-119, tcp.go:62-66.  The ack a push consumes answers that *)
(* push, or answers one whose send() ended without it: because it went on  *)
(* to write a second time and waits for no answer to that, or because it   *)
(* had itself consumed a stray ack.  Until a first second write there are  *)
(* no strays; after it they may follow one another from push to push.      *)
(***************************************************************************)
StrayAcksAreLate ==
  \A c \in Strays : c.ack.of \in again \cup {d.to : d \in Strays}

(***************************************************************************)
(* tcp.go:65 "Push already timed out and moved on - drop silently".  An    *)
(* ack that comes after its push moved on is dropped: none is ever taken   *)
(* by the push of another packet.                                          *)
(***************************************************************************)
LateAckDropped == Strays = {}

(***************************************************************************)
(* invocation.go:238 "wait for any write to finish first".  A connection   *)
(* is never closed under a send that wrote its frame and is still waiting  *)
(* for the answer or about to write again.                                 *)
(***************************************************************************)
NotClosedUnderSend ==
  ~open => \A w \in PWorkers : pc[w] \notin {"await", "rewrite"}

(***************************************************************************)
(* factory.go:106-125.  A protocol worker comes back from send() even if   *)
(* the client never answers; only a client that stops reading with a full  *)
(* window can keep it, since conn.Write has no deadline.                   *)
(***************************************************************************)
WorkerComesBack ==
  \A w \in PWorkers : (pc[w] # "idle") ~> (pc[w] = "idle" \/ Len(wire) = Window)

(***************************************************************************)
(* factory.go:113-121.  As long as no send went on to a second write, what *)
(* a client refuses is sent again, unless it leaves, is thrown out or      *)
(* stops reading.                                                          *)
(***************************************************************************)
RefusedIsResent ==
  \A p \in Packets :
    (again = {} /\ [of |-> p, byte |-> 0] \in ToSet(answers))
      ~> (p \in Resent \/ ~peer \/ ~registered \/ Len(wire) = Window)
=============================================================================
