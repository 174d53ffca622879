---------------------------- MODULE PushAckProofs ----------------------------
(***************************************************************************)
(* Proofs about PushAck for any number of pushes, workers and frames.      *)
(***************************************************************************)
EXTENDS PushAck, TLAPS

-----------------------------------------------------------------------------
(* Sequences used as queues. *)

\* a sequence in its elements
LEMMA ElementAt ==
  ASSUME NEW S, NEW s \in Seq(S)
  PROVE  Len(s) \in Nat /\ DOMAIN s = 1..Len(s) /\ \A i \in 1..Len(s) : s[i] \in S
OBVIOUS

\* appending leaves the places that were taken as they were
LEMMA AppendAt ==
  ASSUME NEW S, NEW s \in Seq(S), NEW e \in S
  PROVE  /\ Append(s, e) \in Seq(S)
         /\ Len(s) \in Nat
         /\ Len(Append(s, e)) = Len(s) + 1
         /\ Append(s, e)[Len(s) + 1] = e
         /\ \A i \in 1..Len(s) : Append(s, e)[i] = s[i]
OBVIOUS

\* taking the first moves the others one place up
LEMMA TailAt ==
  ASSUME NEW S, NEW s \in Seq(S), s # <<>>
  PROVE  /\ Tail(s) \in Seq(S)
         /\ Len(s) \in Nat \ {0}
         /\ Len(Tail(s)) = Len(s) - 1
         /\ Head(s) = s[1] /\ Head(s) \in S
         /\ \A i \in 1..(Len(s) - 1) : Tail(s)[i] = s[i + 1]
OBVIOUS

-----------------------------------------------------------------------------
(* The inductive invariant, in parts. *)

PTypeOK ==
  /\ pushes \in 0..MaxPushes
  /\ line \in Seq(Packets)
  /\ pc \in [PWorkers -> {"idle", "lock", "write", "await", "rewrite"}]
  /\ sending \in [PWorkers -> Packets \cup {Nobody}]
  /\ \A w \in PWorkers : pc[w] # "idle" => sending[w] \in Packets
  /\ holder \in PWorkers \cup {Nobody}
  /\ wire \in Seq(Packets) /\ answers \in Seq(Acks)
  /\ ackCh \in Seq(Acks) /\ Len(ackCh) \in 0..1
  /\ registered \in BOOLEAN /\ open \in BOOLEAN /\ peer \in BOOLEAN
  /\ written \in Seq(Packets)
  /\ again \in SUBSET Packets
  /\ credited \in SUBSET [to : Packets, ack : Acks]

\* past its Lock and before its Unlock is the worker that holds entry.mu, alone
Mutex ==
  \A w \in PWorkers : pc[w] \in {"write", "await", "rewrite"} <=> holder = w

\* pPool takes the pushes in order: what waits is younger than what was begun
YoungInLine ==
  /\ \A i \in 1..Len(line) : line[i] <= pushes
  /\ \A i, j \in 1..Len(line) : i < j => line[i] < line[j]
  /\ \A w \in PWorkers : pc[w] # "idle" =>
       sending[w] <= pushes /\ \A i \in 1..Len(line) : sending[w] < line[i]
  /\ \A k \in 1..Len(written) :
       written[k] <= pushes /\ \A i \in 1..Len(line) : written[k] < line[i]

\* every packet is sent by one worker, and written by it for the first time once
OneSender ==
  /\ \A v, w \in PWorkers :
       v # w /\ pc[v] # "idle" /\ pc[w] # "idle" => sending[v] # sending[w]
  /\ \A w \in PWorkers : pc[w] \in {"lock", "write"} =>
       \A k \in 1..Len(written) : written[k] # sending[w]

\* copies in written are neighbours; a worker that waits wrote the last frame,
\* and no other copy of it
Copies ==
  /\ \A i, j \in 1..Len(written) : i < j /\ written[i] = written[j] => j = i + 1
  /\ \A w \in PWorkers : pc[w] \in {"await", "rewrite"} =>
       /\ Len(written) > 0 /\ written[Len(written)] = sending[w]
       /\ \A k \in 1..(Len(written) - 1) : written[k] # sending[w]
  /\ \A w \in PWorkers : pc[w] = "rewrite" => sending[w] \in again

\* what the client answers has been written
OnceWritten == {written[k] : k \in 1..Len(written)}

AcksOfWritten ==
  /\ \A i \in 1..Len(wire) : wire[i] \in OnceWritten
  /\ \A i \in 1..Len(answers) : answers[i].of \in OnceWritten
  /\ \A i \in 1..Len(ackCh) : ackCh[i].of \in OnceWritten
  /\ \A c \in credited : c.ack.of \in OnceWritten

\* a packet written once is somewhere once: in the wire, or as an ack
OneAckEach ==
  /\ \A i, j \in 1..Len(wire) : i # j /\ wire[i] = wire[j] => wire[i] \in again
  /\ \A i, j \in 1..Len(answers) :
       i # j /\ answers[i].of = answers[j].of => answers[i].of \in again
  /\ \A i \in 1..Len(wire), j \in 1..Len(answers) :
       wire[i] = answers[j].of => wire[i] \in again
  /\ \A k \in 1..Len(ackCh) :
       /\ \A i \in 1..Len(wire) : wire[i] = ackCh[k].of => wire[i] \in again
       /\ \A j \in 1..Len(answers) : answers[j].of = ackCh[k].of => answers[j].of \in again
  /\ \A c \in credited :
       /\ \A i \in 1..Len(wire) : wire[i] = c.ack.of => wire[i] \in again
       /\ \A j \in 1..Len(answers) : answers[j].of = c.ack.of => answers[j].of \in again
       /\ \A k \in 1..Len(ackCh) : ackCh[k].of = c.ack.of => ackCh[k].of \in again

\* a send that is over wrote again, or took an ack
EndedSends ==
  \A k \in 1..Len(written) :
    \/ written[k] \in again
    \/ \E c \in credited : c.to = written[k]
    \/ \E w \in PWorkers : pc[w] = "await" /\ sending[w] = written[k]

PInv ==
  /\ PTypeOK /\ Mutex /\ YoungInLine /\ OneSender /\ Copies
  /\ AcksOfWritten /\ OneAckEach /\ EndedSends
  /\ StrayAcksAreLate /\ NotClosedUnderSend

-----------------------------------------------------------------------------
(* One lemma per conjunct of PInv: the actions that can disturb it, and    *)
(* the others, which leave alone what it is about.                         *)

\* nothing is pushed, written or answered
LEMMA InitPInv == Init => PInv
<1>. SUFFICES ASSUME Init PROVE PInv
  OBVIOUS
<1>. USE PushAssumption DEF Init
<1>1. PTypeOK
  BY DEF PTypeOK
<1>2. Mutex /\ YoungInLine /\ OneSender /\ Copies
  BY DEF Mutex, YoungInLine, OneSender, Copies
<1>3. AcksOfWritten /\ OneAckEach /\ EndedSends
  BY DEF AcksOfWritten, OneAckEach, EndedSends
<1>4. StrayAcksAreLate /\ NotClosedUnderSend
  BY DEF StrayAcksAreLate, Strays, NotClosedUnderSend
<1>. QED
  BY <1>1, <1>2, <1>3, <1>4 DEF PInv

\* every step keeps the types
LEMMA TypeStep ==
  ASSUME PTypeOK, [Next]_vars
  PROVE  PTypeOK'
<1>. USE PushAssumption DEF PTypeOK, wvars, nvars, rvars
<1>1. ASSUME Push PROVE PTypeOK'
  <2>1. pushes' \in 0..MaxPushes /\ pushes' \in Packets
    BY <1>1 DEF Push, Packets
  <2>2. line' \in Seq(Packets)
    BY <1>1, <2>1 DEF Push
  <2>. QED
    BY <1>1, <2>1, <2>2 DEF Push
<1>2. ASSUME NEW w \in PWorkers, Begin(w) PROVE PTypeOK'
  <2>1. Head(line) \in Packets /\ Tail(line) \in Seq(Packets)
    BY <1>2, TailAt DEF Begin
  <2>. QED
    BY <1>2, <2>1 DEF Begin, Goto
<1>3. ASSUME NEW w \in PWorkers, LockEntry(w) PROVE PTypeOK'
  BY <1>3 DEF LockEntry, Goto
<1>4. ASSUME NEW w \in PWorkers, Write(w) \/ Rewrite(w) PROVE PTypeOK'
  <2>1. sending[w] \in Packets
    BY <1>4 DEF Write, Rewrite, Done, Goto
  <2>2. wire' \in Seq(Packets) /\ written' \in Seq(Packets)
    <3>1. wire' = Append(wire, sending[w]) /\ written' = Append(written, sending[w])
      BY <1>4 DEF Write, Rewrite, Frame
    <3>. QED
      BY <2>1, <3>1
  <2>. QED
    BY <1>4, <2>2 DEF Write, Rewrite, Frame, Done, Goto
<1>5. ASSUME NEW w \in PWorkers, WriteFails(w) \/ RewriteFails(w) PROVE PTypeOK'
  BY <1>5 DEF WriteFails, RewriteFails, Done, Goto
<1>6. ASSUME NEW w \in PWorkers, TakeAck(w) PROVE PTypeOK'
  <2>1. Head(ackCh) \in Acks /\ ackCh' = <<>>
    BY <1>6, TailAt DEF TakeAck
  <2>2. pc[w] = "await" /\ sending[w] \in Packets
    BY <1>6 DEF TakeAck, WriteAgain, Done, Goto
  <2>3. credited' \in SUBSET [to : Packets, ack : Acks]
    BY <1>6, <2>1, <2>2 DEF TakeAck
  <2>4. again' \in SUBSET Packets
    BY <1>6, <2>2 DEF TakeAck, WriteAgain
  <2>5. /\ pc' = [pc EXCEPT ![w] = "idle"] \/ pc' = [pc EXCEPT ![w] = "rewrite"]
        /\ \/ sending' = sending
           \/ pc'[w] = "idle" /\ sending' = [sending EXCEPT ![w] = Nobody]
        /\ holder' \in {holder, Nobody}
    BY <1>6, <2>2 DEF TakeAck, WriteAgain, Done, Goto
  <2>6. UNCHANGED <<pushes, line, wire, answers, peer, registered, open, written>>
    BY <1>6 DEF TakeAck
  <2>7. ackCh' \in Seq(Acks) /\ Len(ackCh') \in 0..1
    BY <2>1
  <2>. QED
    BY <2>2, <2>3, <2>4, <2>5, <2>6, <2>7
<1>7. ASSUME NEW w \in PWorkers, Timeout(w) PROVE PTypeOK'
  BY <1>7 DEF Timeout, WriteAgain, Goto
<1>8. ASSUME ReadAck PROVE PTypeOK'
  <2>1. Head(answers) \in Acks /\ Tail(answers) \in Seq(Acks)
    BY <1>8, TailAt DEF ReadAck
  <2>. QED
    BY <1>8, <2>1 DEF ReadAck
<1>9. ASSUME ReadFails \/ Reject \/ CloseConn \/ ClientLeaves PROVE PTypeOK'
  BY <1>9 DEF ReadFails, Reject, Unregister, CloseConn, ClientLeaves
<1>10. ASSUME NEW byte \in {0, 1, Silence}, ClientReads(byte) PROVE PTypeOK'
  <2>1. Head(wire) \in Packets /\ Tail(wire) \in Seq(Packets)
    BY <1>10, TailAt DEF ClientReads
  <2>2. byte \in {0, 1} => [of |-> Head(wire), byte |-> byte] \in Acks
    BY <2>1 DEF Acks
  <2>3. answers' \in Seq(Acks)
    BY <1>10, <2>2, AppendAt DEF ClientReads
  <2>. QED
    BY <1>10, <2>1, <2>3 DEF ClientReads
<1>11. ASSUME UNCHANGED vars PROVE PTypeOK'
  BY <1>11 DEF vars
<1>. QED
  BY <1>1, <1>2, <1>3, <1>4, <1>5, <1>6, <1>7, <1>8, <1>9, <1>10, <1>11
  DEF Next, SendStep

\* the reader and the client leave the workers, the line and the ledgers alone
LEMMA OutsideFrame ==
  ASSUME \/ ReadAck \/ ReadFails \/ Reject \/ CloseConn \/ ClientLeaves
         \/ \E byte \in {0, 1, Silence} : ClientReads(byte)
         \/ UNCHANGED vars
  PROVE  UNCHANGED <<pushes, line, pc, sending, holder, written, again, credited>>
BY DEF ReadAck, ReadFails, Reject, Unregister, CloseConn, ClientReads, ClientLeaves, vars, wvars

\* entry.mu has one holder, from its Lock to its Unlock
LEMMA MutexStep ==
  ASSUME PTypeOK, Mutex, [Next]_vars
  PROVE  Mutex'
<1>. USE PushAssumption DEF PTypeOK, Mutex
<1>1. ASSUME Push PROVE Mutex'
  BY <1>1 DEF Push, wvars
<1>2. ASSUME NEW w \in PWorkers, SendStep(w) PROVE Mutex'
  BY <1>2 DEF SendStep, Begin, LockEntry, Write, WriteFails, TakeAck, Timeout, Rewrite,
              RewriteFails, WriteAgain, Done, Goto
<1>. QED
  BY <1>1, <1>2, OutsideFrame DEF Next

\* the invariant speaks of numbers
LEMMA Numbers ==
  ASSUME PTypeOK
  PROVE  /\ pushes \in Nat /\ Packets \subseteq Nat
         /\ Len(line) \in Nat /\ Len(written) \in Nat
         /\ \A i \in 1..Len(line) : line[i] \in Nat
         /\ \A k \in 1..Len(written) : written[k] \in Nat
         /\ \A w \in PWorkers : pc[w] # "idle" => sending[w] \in Nat
<1>1. pushes \in Nat /\ Packets \subseteq Nat
  BY PushAssumption DEF PTypeOK, Packets
<1>2. line \in Seq(Packets) /\ written \in Seq(Packets)
  BY DEF PTypeOK
<1>3. \A i \in 1..Len(line) : line[i] \in Packets
  BY <1>2, ElementAt
<1>4. \A k \in 1..Len(written) : written[k] \in Packets
  BY <1>2, ElementAt
<1>5. Len(line) \in Nat /\ Len(written) \in Nat
  BY <1>2
<1>6. \A w \in PWorkers : pc[w] # "idle" => sending[w] \in Nat
  BY <1>1 DEF PTypeOK
<1>. QED
  BY <1>1, <1>3, <1>4, <1>5, <1>6

\* the line stays in the order of the pushes, all of them younger than what was begun
LEMMA YoungStep ==
  ASSUME PTypeOK, YoungInLine, [Next]_vars
  PROVE  YoungInLine'
<1>1. ASSUME Push PROVE YoungInLine'
  <2>1. pushes' = pushes + 1 /\ UNCHANGED <<pc, sending, written>>
    BY <1>1 DEF Push, wvars
  <2>2. CASE UNCHANGED line
    BY <2>1, <2>2, Numbers DEF YoungInLine
  <2>3. CASE line' = Append(line, pushes')
    <3>1. pushes' \in Packets
      BY <1>1, PushAssumption DEF Push, Packets, PTypeOK
    <3>2. /\ Len(line') = Len(line) + 1 /\ line'[Len(line) + 1] = pushes + 1
          /\ \A i \in 1..Len(line) : line'[i] = line[i]
      BY <2>1, <2>3, <3>1, AppendAt DEF PTypeOK
    <3>3. \A i \in 1..Len(line') : line'[i] <= pushes'
      BY <2>1, <3>2, Numbers DEF YoungInLine
    <3>4. ASSUME NEW i \in 1..Len(line'), NEW j \in 1..Len(line'), i < j
          PROVE  line'[i] < line'[j]
      <4>1. i \in 1..Len(line) /\ line'[i] = line[i] /\ line[i] \in Nat /\ line[i] <= pushes
        BY <3>2, <3>4, Numbers DEF YoungInLine
      <4>2. CASE j = Len(line) + 1
        BY <3>2, <4>1, <4>2, Numbers
      <4>3. CASE j \in 1..Len(line)
        BY <3>2, <3>4, <4>1, <4>3, Numbers DEF YoungInLine
      <4>. QED
        BY <3>2, <4>2, <4>3, Numbers
    <3>5. ASSUME NEW w \in PWorkers, pc[w] # "idle"
          PROVE  sending[w] <= pushes' /\ \A i \in 1..Len(line') : sending[w] < line'[i]
      <4>1. sending[w] \in Nat /\ sending[w] <= pushes /\ \A i \in 1..Len(line) : sending[w] < line[i]
        BY <3>5, Numbers DEF YoungInLine
      <4>2. ASSUME NEW i \in 1..Len(line') PROVE sending[w] < line'[i]
        <5>1. CASE i = Len(line) + 1
          BY <3>2, <4>1, <5>1, Numbers
        <5>2. CASE i \in 1..Len(line)
          BY <3>2, <4>1, <5>2
        <5>. QED
          BY <3>2, <5>1, <5>2, Numbers
      <4>. QED
        BY <2>1, <4>1, <4>2, Numbers
    <3>6. \A k \in 1..Len(written) :
            written[k] <= pushes' /\ \A i \in 1..Len(line') : written[k] < line'[i]
      BY <2>1, <3>2, Numbers DEF YoungInLine
    <3>. QED
      BY <2>1, <3>3, <3>4, <3>5, <3>6 DEF YoungInLine
  <2>. QED
    BY <1>1, <2>2, <2>3 DEF Push
<1>2. ASSUME NEW w \in PWorkers, Begin(w) PROVE YoungInLine'
  <2>1. /\ Len(line) > 0 /\ Len(line') = Len(line) - 1
        /\ \A i \in 1..Len(line') : line'[i] = line[i + 1]
        /\ Head(line) = line[1]
    BY <1>2, TailAt DEF Begin, PTypeOK
  <2>2. \A v \in PWorkers : pc'[v] # "idle" =>
          \/ pc[v] # "idle" /\ sending'[v] = sending[v]
          \/ sending'[v] = line[1]
    BY <1>2, <2>1 DEF Begin, Goto, PTypeOK
  <2>3. UNCHANGED <<pushes, written>>
    BY <1>2 DEF Begin
  <2>4. ASSUME NEW i \in 1..Len(line') PROVE line'[i] <= pushes' /\ line[1] < line'[i]
    <3>1. i + 1 \in 1..Len(line) /\ 1 \in 1..Len(line) /\ 1 < i + 1
      BY <2>1, Numbers
    <3>. QED
      BY <2>1, <2>3, <3>1, Numbers DEF YoungInLine
  <2>5. ASSUME NEW i \in 1..Len(line'), NEW j \in 1..Len(line'), i < j
        PROVE  line'[i] < line'[j]
    <3>1. i + 1 \in 1..Len(line) /\ j + 1 \in 1..Len(line) /\ i + 1 < j + 1
      BY <2>1, <2>5, Numbers
    <3>. QED
      BY <2>1, <3>1 DEF YoungInLine
  <2>6. line[1] <= pushes'
    BY <2>1, <2>3, Numbers DEF YoungInLine
  <2>7. ASSUME NEW v \in PWorkers, pc'[v] # "idle"
        PROVE  sending'[v] <= pushes' /\ \A i \in 1..Len(line') : sending'[v] < line'[i]
    <3>1. CASE sending'[v] = line[1]
      BY <3>1, <2>4, <2>6
    <3>2. CASE pc[v] # "idle" /\ sending'[v] = sending[v]
      <4>1. sending[v] <= pushes /\ \A i \in 1..Len(line) : sending[v] < line[i]
        BY <3>2 DEF YoungInLine
      <4>2. ASSUME NEW i \in 1..Len(line') PROVE sending[v] < line'[i]
        <5>1. i + 1 \in 1..Len(line) /\ line'[i] = line[i + 1]
          BY <2>1, Numbers
        <5>. QED
          BY <4>1, <5>1
      <4>. QED
        BY <2>3, <3>2, <4>1, <4>2
    <3>. QED
      BY <2>2, <2>7, <3>1, <3>2
  <2>8. \A k \in 1..Len(written') :
          written'[k] <= pushes' /\ \A i \in 1..Len(line') : written'[k] < line'[i]
    <3>1. \A i \in 1..Len(line') : i + 1 \in 1..Len(line) /\ line'[i] = line[i + 1]
      BY <2>1, Numbers
    <3>. QED
      BY <2>3, <3>1 DEF YoungInLine
  <2>. QED
    BY <2>4, <2>5, <2>7, <2>8 DEF YoungInLine
<1>3. ASSUME NEW w \in PWorkers, Write(w) \/ Rewrite(w) PROVE YoungInLine'
  <2>1. /\ pc[w] # "idle"
        /\ written' = Append(written, sending[w])
        /\ \A v \in PWorkers : pc'[v] # "idle" => pc[v] # "idle" /\ sending'[v] = sending[v]
        /\ UNCHANGED <<pushes, line>>
    BY <1>3 DEF Write, Rewrite, Frame, Done, Goto, PTypeOK
  <2>2. /\ Len(written') = Len(written) + 1
        /\ written'[Len(written) + 1] = sending[w]
        /\ \A i \in 1..Len(written) : written'[i] = written[i]
    BY <2>1, AppendAt DEF PTypeOK
  <2>. QED
    BY <2>1, <2>2, Numbers DEF YoungInLine
<1>4. ASSUME NEW w \in PWorkers,
             LockEntry(w) \/ WriteFails(w) \/ RewriteFails(w) \/ TakeAck(w) \/ Timeout(w)
      PROVE  YoungInLine'
  <2>1. /\ \A v \in PWorkers : pc'[v] # "idle" => pc[v] # "idle" /\ sending'[v] = sending[v]
        /\ UNCHANGED <<pushes, line, written>>
    BY <1>4 DEF LockEntry, WriteFails, RewriteFails, TakeAck, Timeout, WriteAgain, Done, Goto,
                PTypeOK
  <2>. QED
    BY <2>1 DEF YoungInLine
<1>5. ASSUME UNCHANGED <<pushes, line, pc, sending, written>> PROVE YoungInLine'
  BY <1>5 DEF YoungInLine
<1>. QED
  BY <1>1, <1>2, <1>3, <1>4, <1>5, OutsideFrame DEF Next, SendStep

\* what a write does to the ledger and to the wire
LEMMA WriteOne ==
  ASSUME PTypeOK, NEW w \in PWorkers, Write(w) \/ Rewrite(w)
  PROVE  /\ sending[w] \in Packets
         /\ pc[w] \in {"write", "rewrite"}
         /\ Len(written) \in Nat /\ Len(written') = Len(written) + 1
         /\ written'[Len(written) + 1] = sending[w]
         /\ \A i \in 1..Len(written) : written'[i] = written[i]
         /\ Len(wire) \in Nat /\ Len(wire') = Len(wire) + 1
         /\ wire'[Len(wire) + 1] = sending[w]
         /\ \A i \in 1..Len(wire) : wire'[i] = wire[i]
         /\ UNCHANGED <<answers, ackCh, again, credited>>
         /\ \A v \in PWorkers \ {w} : pc'[v] = pc[v] /\ sending'[v] = sending[v]
<1>1. /\ pc[w] \in {"write", "rewrite"} /\ sending[w] \in Packets
      /\ wire' = Append(wire, sending[w]) /\ written' = Append(written, sending[w])
      /\ UNCHANGED <<answers, ackCh, again, credited>>
      /\ \A v \in PWorkers \ {w} : pc'[v] = pc[v] /\ sending'[v] = sending[v]
  BY DEF Write, Rewrite, Frame, Done, Goto, PTypeOK, rvars
<1>. QED
  BY <1>1, AppendAt DEF PTypeOK

\* the steps of a worker that write nothing and begin nothing
Quiet(w) == LockEntry(w) \/ WriteFails(w) \/ RewriteFails(w) \/ TakeAck(w) \/ Timeout(w)

\* what a step of a worker that writes nothing leaves alone
LEMMA QuietStep ==
  ASSUME PTypeOK, NEW w \in PWorkers, Quiet(w)
  PROVE  /\ UNCHANGED <<line, pushes, written, wire, answers>>
         /\ \A v \in PWorkers \ {w} : pc'[v] = pc[v] /\ sending'[v] = sending[v]
         /\ pc[w] # "idle"
         /\ pc'[w] # "idle" => sending'[w] = sending[w]
         /\ pc'[w] \in {"lock", "write"} => pc[w] = "lock"
         /\ pc'[w] \in {"await", "rewrite"} => pc[w] = "await" /\ sending[w] \in again'
         /\ again \subseteq again' /\ credited \subseteq credited'
BY DEF Quiet, LockEntry, WriteFails, RewriteFails, TakeAck, Timeout, WriteAgain, Done, Goto,
       PTypeOK, nvars

\* a packet has one worker, which writes it for the first time once
LEMMA OneSenderStep ==
  ASSUME PTypeOK, YoungInLine, OneSender, [Next]_vars
  PROVE  OneSender'
<1>1. ASSUME NEW w \in PWorkers, Begin(w) PROVE OneSender'
  <2>1. /\ Len(line) > 0 /\ Head(line) = line[1] /\ 1 \in 1..Len(line)
    BY <1>1, TailAt DEF Begin, PTypeOK
  <2>2. /\ pc' = [pc EXCEPT ![w] = "lock"]
        /\ sending' = [sending EXCEPT ![w] = line[1]]
        /\ UNCHANGED written
    BY <1>1, <2>1 DEF Begin, Goto
  <2>3. \A v \in PWorkers : pc[v] # "idle" => sending[v] # line[1]
    BY <2>1, Numbers DEF YoungInLine
  <2>4. \A k \in 1..Len(written) : written[k] # line[1]
    BY <2>1, Numbers DEF YoungInLine
  <2>. QED
    BY <2>2, <2>3, <2>4 DEF OneSender, PTypeOK
<1>2. ASSUME NEW w \in PWorkers, Write(w) \/ Rewrite(w) PROVE OneSender'
  <2>1. /\ pc[w] # "idle" /\ pc'[w] \in {"await", "idle"}
        /\ pc'[w] # "idle" => sending'[w] = sending[w]
    BY <1>2 DEF Write, Rewrite, Done, Goto, PTypeOK
  <2>2. ASSUME NEW u \in PWorkers, NEW v \in PWorkers,
               u # v, pc'[u] # "idle", pc'[v] # "idle"
        PROVE  sending'[u] # sending'[v]
    BY <1>2, <2>1, <2>2, WriteOne DEF OneSender
  <2>3. ASSUME NEW v \in PWorkers, pc'[v] \in {"lock", "write"}, NEW k \in 1..Len(written')
        PROVE  written'[k] # sending'[v]
    <3>1. v # w /\ pc[v] = pc'[v] /\ sending'[v] = sending[v] /\ sending[v] # sending[w]
      BY <1>2, <2>1, <2>3, WriteOne DEF OneSender
    <3>2. CASE k = Len(written) + 1
      BY <1>2, <3>1, <3>2, WriteOne
    <3>3. CASE k \in 1..Len(written)
      BY <1>2, <2>3, <3>1, <3>3, WriteOne DEF OneSender
    <3>. QED
      BY <1>2, <3>2, <3>3, WriteOne
  <2>. QED
    BY <2>2, <2>3 DEF OneSender
<1>3. ASSUME NEW w \in PWorkers, Quiet(w) PROVE OneSender'
  BY <1>3, QuietStep DEF OneSender
<1>4. ASSUME UNCHANGED <<pc, sending, written>> PROVE OneSender'
  BY <1>4 DEF OneSender
<1>5. Push => UNCHANGED <<pc, sending, written>>
  BY DEF Push, wvars
<1>. QED
  BY <1>1, <1>2, <1>3, <1>4, <1>5, OutsideFrame DEF Next, SendStep, Quiet

\* a second copy is written next to the first
LEMMA CopiesStep ==
  ASSUME PTypeOK, Mutex, OneSender, Copies, [Next]_vars
  PROVE  Copies'
<1>1. ASSUME NEW w \in PWorkers, Begin(w) PROVE Copies'
  BY <1>1 DEF Begin, Goto, Copies, PTypeOK
<1>2. ASSUME NEW w \in PWorkers, Write(w) \/ Rewrite(w) PROVE Copies'
  <2>1. \A v \in PWorkers \ {w} : pc'[v] \notin {"await", "rewrite"}
    BY <1>2, WriteOne DEF Mutex
  <2>2. \A k \in 1..Len(written) : written[k] = sending[w] => pc[w] = "rewrite" /\ k = Len(written)
    <3>1. CASE pc[w] = "write"
      BY <3>1 DEF OneSender
    <3>2. CASE pc[w] = "rewrite"
      BY <3>2, Numbers DEF Copies
    <3>. QED
      BY <1>2, <3>1, <3>2, WriteOne
  <2>3. ASSUME NEW i \in 1..Len(written'), NEW j \in 1..Len(written'),
               i < j, written'[i] = written'[j]
        PROVE  j = i + 1
    <3>1. i \in 1..Len(written) /\ written'[i] = written[i]
      BY <1>2, <2>3, WriteOne
    <3>2. CASE j = Len(written) + 1
      <4>1. written'[j] = sending[w]
        BY <1>2, <3>2, WriteOne
      <4>2. i = Len(written)
        BY <2>2, <2>3, <3>1, <4>1
      <4>. QED
        BY <3>2, <4>2
    <3>3. CASE j \in 1..Len(written)
      <4>1. written'[j] = written[j]
        BY <1>2, <3>3, WriteOne
      <4>. QED
        BY <2>3, <3>1, <3>3, <4>1 DEF Copies
    <3>. QED
      BY <1>2, <3>2, <3>3, WriteOne
  <2>4. ASSUME NEW v \in PWorkers, pc'[v] \in {"await", "rewrite"}
        PROVE  /\ v = w /\ pc[w] = "write" /\ pc'[w] = "await"
               /\ sending'[v] = sending[v]
    BY <1>2, <2>1, <2>4 DEF Write, Rewrite, Done, Goto, PTypeOK
  <2>5. ASSUME NEW v \in PWorkers, pc'[v] \in {"await", "rewrite"}
        PROVE  /\ Len(written') > 0 /\ written'[Len(written')] = sending'[v]
               /\ \A k \in 1..(Len(written') - 1) : written'[k] # sending'[v]
    BY <1>2, <2>2, <2>4, <2>5, WriteOne
  <2>. QED
    BY <2>3, <2>4, <2>5 DEF Copies
<1>3. ASSUME NEW w \in PWorkers, Quiet(w) PROVE Copies'
  <2>1. ASSUME NEW v \in PWorkers, pc'[v] \in {"await", "rewrite"}
        PROVE  /\ pc[v] \in {"await", "rewrite"} /\ sending'[v] = sending[v]
               /\ pc'[v] = "rewrite" => sending[v] \in again'
    BY <1>3, <2>1, QuietStep DEF Copies
  <2>. QED
    BY <1>3, <2>1, QuietStep DEF Copies
<1>4. ASSUME UNCHANGED <<pc, sending, written, again>> PROVE Copies'
  BY <1>4 DEF Copies
<1>5. Push => UNCHANGED <<pc, sending, written, again>>
  BY DEF Push, wvars
<1>. QED
  BY <1>1, <1>2, <1>3, <1>4, <1>5, OutsideFrame DEF Next, SendStep, Quiet

-----------------------------------------------------------------------------
(* The way of an ack: from the wire to answers, to ackCh, to a push. *)

\* the client takes one frame off the wire, and may answer it
LEMMA ClientReadsAt ==
  ASSUME PTypeOK, NEW byte \in {0, 1, Silence}, ClientReads(byte)
  PROVE  /\ 1 \in 1..Len(wire) /\ Len(wire') = Len(wire) - 1
         /\ \A i \in 1..Len(wire') : i + 1 \in 1..Len(wire) /\ wire'[i] = wire[i + 1]
         /\ \/ UNCHANGED answers
            \/ /\ Len(answers') = Len(answers) + 1 /\ Len(answers) \in Nat
               /\ answers'[Len(answers) + 1].of = wire[1]
               /\ \A i \in 1..Len(answers) : answers'[i] = answers[i]
         /\ UNCHANGED <<written, again, credited, ackCh, pc, sending>>
<1>1. /\ wire' = Tail(wire) /\ wire # <<>> /\ wire \in Seq(Packets)
      /\ UNCHANGED <<written, again, credited, ackCh, pc, sending>>
  BY DEF ClientReads, PTypeOK, rvars, wvars
<1>2. /\ 1 \in 1..Len(wire) /\ Len(wire') = Len(wire) - 1
      /\ Head(wire) = wire[1] /\ Head(wire) \in Packets
      /\ \A i \in 1..Len(wire') : i + 1 \in 1..Len(wire) /\ wire'[i] = wire[i + 1]
  BY <1>1, TailAt
<1>3. CASE byte \in {0, 1}
  <2>. DEFINE ack == [of |-> Head(wire), byte |-> byte]
  <2>1. answers' = Append(answers, ack) /\ ack \in Acks /\ ack.of = wire[1]
    BY <1>2, <1>3 DEF ClientReads, Acks
  <2>. HIDE DEF ack
  <2>. QED
    BY <1>1, <1>2, <2>1, AppendAt DEF PTypeOK
<1>4. CASE byte \notin {0, 1}
  BY <1>1, <1>2, <1>4 DEF ClientReads
<1>. QED
  BY <1>3, <1>4

\* the reader takes the next answer, into ackCh if there is room
LEMMA ReadAckAt ==
  ASSUME PTypeOK, ReadAck
  PROVE  /\ 1 \in 1..Len(answers) /\ Len(answers') = Len(answers) - 1
         /\ \A i \in 1..Len(answers') : i + 1 \in 1..Len(answers) /\ answers'[i] = answers[i + 1]
         /\ \/ UNCHANGED ackCh
            \/ Len(ackCh') = 1 /\ ackCh'[1] = answers[1]
         /\ UNCHANGED <<written, again, credited, wire, pc, sending>>
<1>1. /\ answers' = Tail(answers) /\ answers # <<>> /\ answers \in Seq(Acks)
      /\ ackCh' = ackCh \/ ackCh' = <<Head(answers)>>
      /\ UNCHANGED <<written, again, credited, wire, pc, sending>>
  BY DEF ReadAck, PTypeOK, wvars
<1>. QED
  BY <1>1, TailAt

\* a worker that waits takes the ack there is, whichever packet it is for
LEMMA TakeAckAt ==
  ASSUME PTypeOK, NEW w \in PWorkers, TakeAck(w)
  PROVE  /\ 1 \in 1..Len(ackCh) /\ Len(ackCh') = 0
         /\ credited' = credited \cup {[to |-> sending[w], ack |-> ackCh[1]]}
         /\ pc[w] = "await"
         /\ UNCHANGED <<written, wire, answers>>
         /\ again \subseteq again'
<1>1. /\ ackCh # <<>> /\ ackCh' = <<>> /\ ackCh \in Seq(Acks)
      /\ credited' = credited \cup {[to |-> sending[w], ack |-> Head(ackCh)]}
      /\ pc[w] = "await"
      /\ UNCHANGED <<written, wire, answers>>
      /\ again \subseteq again'
  BY DEF TakeAck, WriteAgain, Done, Goto, PTypeOK, nvars
<1>. QED
  BY <1>1, TailAt

\* the steps that neither move an ack nor write a frame
Deaf ==
  \/ Push \/ ReadFails \/ Reject \/ CloseConn \/ ClientLeaves \/ UNCHANGED vars
  \/ \E w \in PWorkers :
       Begin(w) \/ LockEntry(w) \/ WriteFails(w) \/ RewriteFails(w) \/ Timeout(w)

\* the steps that touch no frame and no ack
LEMMA DeafStep ==
  ASSUME Deaf
  PROVE  UNCHANGED <<written, wire, answers, ackCh, credited>> /\ again \subseteq again'
BY DEF Deaf, Push, ReadFails, Reject, Unregister, CloseConn, ClientLeaves, vars, Begin,
       LockEntry, WriteFails, RewriteFails, Timeout, WriteAgain, wvars, nvars, rvars

\* only what has been written is answered
LEMMA AcksStep ==
  ASSUME PTypeOK, AcksOfWritten, [Next]_vars
  PROVE  AcksOfWritten'
<1>1. ASSUME NEW w \in PWorkers, Write(w) \/ Rewrite(w) PROVE AcksOfWritten'
  <2>1. OnceWritten \subseteq OnceWritten'
    BY <1>1, WriteOne DEF OnceWritten
  <2>2. sending[w] \in OnceWritten'
    BY <1>1, WriteOne DEF OnceWritten
  <2>3. \A i \in 1..Len(wire') : wire'[i] \in OnceWritten'
    BY <1>1, <2>1, <2>2, WriteOne DEF AcksOfWritten
  <2>. QED
    BY <1>1, <2>1, <2>3, WriteOne DEF AcksOfWritten
<1>2. ASSUME NEW w \in PWorkers, TakeAck(w) PROVE AcksOfWritten'
  <2>1. OnceWritten' = OnceWritten
    BY <1>2, TakeAckAt DEF OnceWritten
  <2>. QED
    BY <1>2, <2>1, TakeAckAt DEF AcksOfWritten
<1>3. ASSUME ReadAck PROVE AcksOfWritten'
  <2>1. OnceWritten' = OnceWritten
    BY <1>3, ReadAckAt DEF OnceWritten
  <2>. QED
    BY <1>3, <2>1, ReadAckAt DEF AcksOfWritten
<1>4. ASSUME NEW byte \in {0, 1, Silence}, ClientReads(byte) PROVE AcksOfWritten'
  <2>1. OnceWritten' = OnceWritten
    BY <1>4, ClientReadsAt DEF OnceWritten
  <2>2. \A i \in 1..Len(answers') : answers'[i].of \in OnceWritten
    BY <1>4, ClientReadsAt DEF AcksOfWritten
  <2>. QED
    BY <1>4, <2>1, <2>2, ClientReadsAt DEF AcksOfWritten
<1>5. ASSUME Deaf PROVE AcksOfWritten'
  BY <1>5, DeafStep DEF AcksOfWritten, OnceWritten
<1>. QED
  BY <1>1, <1>2, <1>3, <1>4, <1>5 DEF Next, SendStep, Deaf

\* a packet written once is answered at most once
LEMMA OneAckStep ==
  ASSUME PTypeOK, OneSender, Copies, AcksOfWritten, OneAckEach, [Next]_vars
  PROVE  OneAckEach'
<1>1. ASSUME NEW w \in PWorkers, Write(w) \/ Rewrite(w) PROVE OneAckEach'
  <2>1. sending[w] \notin again => sending[w] \notin OnceWritten
    BY <1>1, WriteOne DEF OneSender, Copies, OnceWritten
  <2>2. sending[w] \notin again =>
          /\ \A i \in 1..Len(wire) : wire[i] # sending[w]
          /\ \A j \in 1..Len(answers) : answers[j].of # sending[w]
          /\ \A k \in 1..Len(ackCh) : ackCh[k].of # sending[w]
          /\ \A c \in credited : c.ack.of # sending[w]
    BY <2>1 DEF AcksOfWritten
  <2>3. \A i \in 1..Len(wire') :
          \/ i \in 1..Len(wire) /\ wire'[i] = wire[i]
          \/ i = Len(wire) + 1 /\ wire'[i] = sending[w]
    BY <1>1, WriteOne
  <2>4. UNCHANGED <<answers, ackCh, again, credited>>
    BY <1>1, WriteOne
  <2>5. \A i, j \in 1..Len(wire') : i # j /\ wire'[i] = wire'[j] => wire'[i] \in again
    BY <2>2, <2>3 DEF OneAckEach
  <2>6. \A i \in 1..Len(wire'), j \in 1..Len(answers) :
          wire'[i] = answers[j].of => wire'[i] \in again
    BY <2>2, <2>3 DEF OneAckEach
  <2>7. \A k \in 1..Len(ackCh), i \in 1..Len(wire') : wire'[i] = ackCh[k].of => wire'[i] \in again
    BY <2>2, <2>3 DEF OneAckEach
  <2>8. \A c \in credited, i \in 1..Len(wire') : wire'[i] = c.ack.of => wire'[i] \in again
    BY <2>2, <2>3 DEF OneAckEach
  <2>. QED
    BY <2>4, <2>5, <2>6, <2>7, <2>8 DEF OneAckEach
<1>2. ASSUME NEW w \in PWorkers, TakeAck(w) PROVE OneAckEach'
  <2>1. /\ UNCHANGED <<wire, answers>> /\ again \subseteq again' /\ Len(ackCh') = 0
        /\ 1 \in 1..Len(ackCh)
    BY <1>2, TakeAckAt
  <2>2. \A c \in credited' : c \in credited \/ c.ack = ackCh[1]
    BY <1>2, TakeAckAt
  <2>3. ASSUME NEW c \in credited'
        PROVE  /\ \A i \in 1..Len(wire) : wire[i] = c.ack.of => wire[i] \in again
               /\ \A j \in 1..Len(answers) : answers[j].of = c.ack.of => answers[j].of \in again
    <3>1. CASE c \in credited
      BY <3>1 DEF OneAckEach
    <3>2. CASE c.ack = ackCh[1]
      BY <2>1, <3>2 DEF OneAckEach
    <3>. QED
      BY <2>2, <3>1, <3>2
  <2>4. \A i, j \in 1..Len(wire') : i # j /\ wire'[i] = wire'[j] => wire'[i] \in again'
    BY <2>1 DEF OneAckEach
  <2>5. \A i, j \in 1..Len(answers') :
          i # j /\ answers'[i].of = answers'[j].of => answers'[i].of \in again'
    BY <2>1 DEF OneAckEach
  <2>6. \A i \in 1..Len(wire'), j \in 1..Len(answers') :
          wire'[i] = answers'[j].of => wire'[i] \in again'
    BY <2>1 DEF OneAckEach
  <2>7. \A k \in 1..Len(ackCh') : FALSE
    BY <2>1
  <2>8. \A c \in credited' :
          /\ \A i \in 1..Len(wire') : wire'[i] = c.ack.of => wire'[i] \in again'
          /\ \A j \in 1..Len(answers') : answers'[j].of = c.ack.of => answers'[j].of \in again'
    BY <2>1, <2>3
  <2>. QED
    BY <2>4, <2>5, <2>6, <2>7, <2>8 DEF OneAckEach
<1>3. ASSUME ReadAck PROVE OneAckEach'
  <2>1. /\ UNCHANGED <<wire, again, credited>> /\ 1 \in 1..Len(answers)
        /\ \A i \in 1..Len(answers') :
              i + 1 \in 1..Len(answers) /\ i + 1 # 1 /\ answers'[i] = answers[i + 1]
    BY <1>3, ReadAckAt
  <2>2. \A k \in 1..Len(ackCh') : (k \in 1..Len(ackCh) /\ ackCh'[k] = ackCh[k]) \/ ackCh'[k] = answers[1]
    BY <1>3, ReadAckAt
  <2>3. ASSUME NEW i \in 1..Len(answers'), NEW j \in 1..Len(answers'),
               i # j, answers'[i].of = answers'[j].of
        PROVE  answers'[i].of \in again
    <3>1. i + 1 # j + 1
      BY <2>3
    <3>. QED
      BY <2>1, <2>3, <3>1 DEF OneAckEach
  <2>4. \A i \in 1..Len(wire), j \in 1..Len(answers') : wire[i] = answers'[j].of => wire[i] \in again
    BY <2>1 DEF OneAckEach
  <2>5. ASSUME NEW k \in 1..Len(ackCh')
        PROVE  /\ \A i \in 1..Len(wire) : wire[i] = ackCh'[k].of => wire[i] \in again
               /\ \A j \in 1..Len(answers') : answers'[j].of = ackCh'[k].of => answers'[j].of \in again
    <3>1. CASE k \in 1..Len(ackCh) /\ ackCh'[k] = ackCh[k]
      BY <2>1, <3>1 DEF OneAckEach
    <3>2. CASE ackCh'[k] = answers[1]
      BY <2>1, <3>2 DEF OneAckEach
    <3>. QED
      BY <2>2, <3>1, <3>2
  <2>6. ASSUME NEW c \in credited
        PROVE  /\ \A i \in 1..Len(wire) : wire[i] = c.ack.of => wire[i] \in again
               /\ \A j \in 1..Len(answers') : answers'[j].of = c.ack.of => answers'[j].of \in again
               /\ \A k \in 1..Len(ackCh') : ackCh'[k].of = c.ack.of => ackCh'[k].of \in again
    <3>1. /\ \A i \in 1..Len(wire) : wire[i] = c.ack.of => wire[i] \in again
          /\ \A j \in 1..Len(answers) : answers[j].of = c.ack.of => answers[j].of \in again
          /\ \A k \in 1..Len(ackCh) : ackCh[k].of = c.ack.of => ackCh[k].of \in again
      BY DEF OneAckEach
    <3>. QED
      BY <2>1, <2>2, <3>1
  <2>7. \A i, j \in 1..Len(wire) : i # j /\ wire[i] = wire[j] => wire[i] \in again
    BY DEF OneAckEach
  <2>. QED
    BY <2>1, <2>3, <2>4, <2>5, <2>6, <2>7 DEF OneAckEach
<1>4. ASSUME NEW byte \in {0, 1, Silence}, ClientReads(byte) PROVE OneAckEach'
  <2>1. 1 \in 1..Len(wire)
    BY <1>4, ClientReadsAt
  <2>2. \A i \in 1..Len(wire') : i + 1 \in 1..Len(wire) /\ i + 1 # 1 /\ wire'[i] = wire[i + 1]
    BY <1>4, ClientReadsAt
  <2>3. UNCHANGED <<ackCh, again, credited>>
    BY <1>4, ClientReadsAt
  <2>4. \A j \in 1..Len(answers') :
          \/ j \in 1..Len(answers) /\ answers'[j].of = answers[j].of
          \/ j = Len(answers) + 1 /\ answers'[j].of = wire[1]
    BY <1>4, ClientReadsAt
  <2>5. \A i, j \in 1..Len(wire') : i # j /\ wire'[i] = wire'[j] => wire'[i] \in again
    <3>. SUFFICES ASSUME NEW i \in 1..Len(wire'), NEW j \in 1..Len(wire'),
                         i # j, wire'[i] = wire'[j]
                  PROVE  wire'[i] \in again
      OBVIOUS
    <3>1. i + 1 # j + 1
      OBVIOUS
    <3>. QED
      BY <2>2, <3>1 DEF OneAckEach
  <2>6. \A i, j \in 1..Len(answers') :
          i # j /\ answers'[i].of = answers'[j].of => answers'[i].of \in again
    BY <2>1, <2>4 DEF OneAckEach
  <2>7. \A i \in 1..Len(wire'), j \in 1..Len(answers') :
          wire'[i] = answers'[j].of => wire'[i] \in again
    BY <2>1, <2>2, <2>4 DEF OneAckEach
  <2>8. ASSUME NEW k \in 1..Len(ackCh)
        PROVE  /\ \A i \in 1..Len(wire') : wire'[i] = ackCh[k].of => wire'[i] \in again
               /\ \A j \in 1..Len(answers') : answers'[j].of = ackCh[k].of => answers'[j].of \in again
    <3>1. /\ \A i \in 1..Len(wire) : wire[i] = ackCh[k].of => wire[i] \in again
          /\ \A j \in 1..Len(answers) : answers[j].of = ackCh[k].of => answers[j].of \in again
      BY DEF OneAckEach
    <3>2. \A i \in 1..Len(wire') : wire'[i] = ackCh[k].of => wire'[i] \in again
      BY <2>2, <3>1
    <3>. QED
      BY <2>1, <2>4, <3>1, <3>2
  <2>9. ASSUME NEW c \in credited
        PROVE  /\ \A i \in 1..Len(wire') : wire'[i] = c.ack.of => wire'[i] \in again
               /\ \A j \in 1..Len(answers') : answers'[j].of = c.ack.of => answers'[j].of \in again
               /\ \A k \in 1..Len(ackCh) : ackCh[k].of = c.ack.of => ackCh[k].of \in again
    <3>1. /\ \A i \in 1..Len(wire) : wire[i] = c.ack.of => wire[i] \in again
          /\ \A j \in 1..Len(answers) : answers[j].of = c.ack.of => answers[j].of \in again
          /\ \A k \in 1..Len(ackCh) : ackCh[k].of = c.ack.of => ackCh[k].of \in again
      BY DEF OneAckEach
    <3>2. \A i \in 1..Len(wire') : wire'[i] = c.ack.of => wire'[i] \in again
      BY <2>2, <3>1
    <3>. QED
      BY <2>1, <2>4, <3>1, <3>2
  <2>. QED
    BY <2>3, <2>5, <2>6, <2>7, <2>8, <2>9 DEF OneAckEach
<1>5. ASSUME Deaf PROVE OneAckEach'
  BY <1>5, DeafStep DEF OneAckEach
<1>. QED
  BY <1>1, <1>2, <1>3, <1>4, <1>5 DEF Next, SendStep, Deaf

\* a send ends with an ack or a second write
LEMMA EndedStep ==
  ASSUME PTypeOK, Mutex, Copies, EndedSends, [Next]_vars
  PROVE  EndedSends'
<1>1. ASSUME NEW w \in PWorkers, Write(w) \/ Rewrite(w) PROVE EndedSends'
  <2>1. ASSUME NEW k \in 1..Len(written)
        PROVE  \/ written[k] \in again
               \/ \E c \in credited : c.to = written[k]
    <3>1. \A v \in PWorkers : pc[v] # "await"
      BY <1>1, WriteOne DEF Mutex
    <3>. QED
      BY <3>1 DEF EndedSends
  <2>2. \/ pc'[w] = "await" /\ sending'[w] = sending[w]
        \/ sending[w] \in again
    BY <1>1 DEF Write, Rewrite, Done, Goto, PTypeOK, Copies
  <2>3. \A k \in 1..Len(written') :
          \/ k \in 1..Len(written) /\ written'[k] = written[k]
          \/ written'[k] = sending[w]
    BY <1>1, WriteOne
  <2>4. UNCHANGED <<again, credited>>
    BY <1>1, WriteOne
  <2>. QED
    BY <2>1, <2>2, <2>3, <2>4 DEF EndedSends
<1>2. ASSUME NEW w \in PWorkers, Quiet(w) PROVE EndedSends'
  <2>1. pc[w] = "await" => sending[w] \in again' \/ \E c \in credited' : c.to = sending[w]
    <3>1. CASE TakeAck(w)
      <4>1. [to |-> sending[w], ack |-> ackCh[1]] \in credited'
        BY <3>1, TakeAckAt
      <4>. QED
        BY <4>1
    <3>2. CASE Timeout(w)
      BY <3>2 DEF Timeout, WriteAgain
    <3>3. CASE LockEntry(w) \/ WriteFails(w) \/ RewriteFails(w)
      BY <3>3 DEF LockEntry, WriteFails, RewriteFails, Done, Goto
    <3>. QED
      BY <1>2, <3>1, <3>2, <3>3 DEF Quiet
  <2>2. /\ UNCHANGED written /\ again \subseteq again' /\ credited \subseteq credited'
        /\ \A v \in PWorkers \ {w} : pc'[v] = pc[v] /\ sending'[v] = sending[v]
    BY <1>2, QuietStep
  <2>. QED
    BY <2>1, <2>2 DEF EndedSends
<1>3. ASSUME NEW w \in PWorkers, Begin(w) PROVE EndedSends'
  <2>1. UNCHANGED <<written, again, credited>>
    BY <1>3 DEF Begin
  <2>2. \A v \in PWorkers : pc[v] = "await" => pc'[v] = pc[v] /\ sending'[v] = sending[v]
    BY <1>3 DEF Begin, Goto, PTypeOK
  <2>. QED
    BY <2>1, <2>2 DEF EndedSends
<1>4. ASSUME UNCHANGED <<pc, sending, written, again, credited>> PROVE EndedSends'
  BY <1>4 DEF EndedSends
<1>5. Push => UNCHANGED <<pc, sending, written, again, credited>>
  BY DEF Push, wvars
<1>. QED
  BY <1>1, <1>2, <1>3, <1>4, <1>5, OutsideFrame DEF Next, SendStep, Quiet

\* an ack that reaches another push than its own comes after a second write
LEMMA StraysStep ==
  ASSUME PTypeOK, Mutex, Copies, AcksOfWritten, OneAckEach, EndedSends, StrayAcksAreLate,
         [Next]_vars
  PROVE  StrayAcksAreLate'
<1>1. ASSUME NEW w \in PWorkers, TakeAck(w) PROVE StrayAcksAreLate'
  <2>. DEFINE c == [to |-> sending[w], ack |-> ackCh[1]]
  <2>1. /\ 1 \in 1..Len(ackCh) /\ credited' = credited \cup {c}
        /\ pc[w] = "await" /\ again \subseteq again'
    BY <1>1, TakeAckAt
  <2>2. Strays \subseteq Strays'
    BY <2>1 DEF Strays
  <2>3. ASSUME ackCh[1].of # sending[w], ackCh[1].of \notin again
        PROVE  ackCh[1].of \in {d.to : d \in Strays}
    <3>1. PICK k \in 1..Len(written) : written[k] = ackCh[1].of
      BY <2>1 DEF AcksOfWritten, OnceWritten
    <3>2. ~ \E v \in PWorkers : pc[v] = "await" /\ sending[v] = written[k]
      BY <2>1, <2>3, <3>1 DEF Mutex
    <3>3. PICK d \in credited : d.to = written[k]
      BY <2>3, <3>1, <3>2 DEF EndedSends
    <3>4. d.ack.of # ackCh[1].of
      BY <2>1, <2>3 DEF OneAckEach
    <3>. QED
      BY <3>1, <3>3, <3>4 DEF Strays
  <2>4. ASSUME NEW d \in Strays' PROVE d.ack.of \in again' \cup {e.to : e \in Strays'}
    <3>1. CASE d \in Strays
      BY <2>1, <2>2, <3>1 DEF StrayAcksAreLate
    <3>2. CASE d = c
      <4>1. ackCh[1].of # sending[w] /\ d.ack.of = ackCh[1].of
        BY <3>2, <2>4 DEF Strays
      <4>. QED
        BY <2>1, <2>2, <2>3, <4>1
    <3>. QED
      BY <2>1, <2>4, <3>1, <3>2 DEF Strays
  <2>. QED
    BY <2>4 DEF StrayAcksAreLate
<1>2. ASSUME UNCHANGED credited, again \subseteq again' PROVE StrayAcksAreLate'
  BY <1>2 DEF StrayAcksAreLate, Strays
<1>3. \A w \in PWorkers : Write(w) \/ Rewrite(w) => UNCHANGED <<again, credited>>
  BY WriteOne
<1>. QED
  BY <1>1, <1>2, <1>3, OutsideFrame, DeafStep DEF Next, SendStep, Deaf

\* the connection is not closed under a send
LEMMA NotClosedStep ==
  ASSUME PTypeOK, Mutex, NotClosedUnderSend, [Next]_vars
  PROVE  NotClosedUnderSend'
<1>1. ASSUME CloseConn PROVE NotClosedUnderSend'
  BY <1>1, PushAssumption DEF CloseConn, NotClosedUnderSend, Mutex, wvars
<1>2. ASSUME NEW w \in PWorkers, SendStep(w) PROVE NotClosedUnderSend'
  <2>1. UNCHANGED open
    BY <1>2 DEF SendStep, Begin, LockEntry, Write, WriteFails, TakeAck, Timeout, Rewrite,
                RewriteFails, rvars
  <2>2. pc'[w] \in {"await", "rewrite"} => open \/ pc[w] = "await"
    BY <1>2 DEF SendStep, Begin, LockEntry, Write, Frame, WriteFails, TakeAck, Timeout,
                Rewrite, RewriteFails, WriteAgain, Done, Goto, PTypeOK
  <2>3. \A v \in PWorkers \ {w} : pc'[v] = pc[v]
    BY <1>2 DEF SendStep, Begin, LockEntry, Write, WriteFails, TakeAck, Timeout, Rewrite,
                RewriteFails, WriteAgain, Done, Goto, PTypeOK
  <2>. QED
    BY <2>1, <2>2, <2>3 DEF NotClosedUnderSend
<1>3. ASSUME UNCHANGED <<open, pc>> PROVE NotClosedUnderSend'
  BY <1>3 DEF NotClosedUnderSend
<1>4. Push \/ ReadAck \/ ReadFails \/ Reject \/ ClientLeaves \/ UNCHANGED vars
        => UNCHANGED <<open, pc>>
  BY DEF Push, ReadAck, ReadFails, Reject, Unregister, ClientLeaves, vars, wvars, rvars
<1>5. \A byte \in {0, 1, Silence} : ClientReads(byte) => UNCHANGED <<open, pc>>
  BY DEF ClientReads, wvars, rvars
<1>. QED
  BY <1>1, <1>2, <1>3, <1>4, <1>5 DEF Next

-----------------------------------------------------------------------------
\* no step breaks the invariant
LEMMA Inductive == PInv /\ [Next]_vars => PInv'
BY TypeStep, MutexStep, YoungStep, OneSenderStep, CopiesStep, AcksStep, OneAckStep, EndedStep,
   StraysStep, NotClosedStep DEF PInv

\* PInv holds in every reachable state
THEOREM Invariant == Spec => []PInv
BY InitPInv, Inductive, PTL DEF Spec

(***************************************************************************)
(* factory.go:99-124: entry.mu is held from the first write of a packet to *)
(* its second, so whatever protocol workers send to one client at once,    *)
(* the two copies of a packet are neighbours on the wire.                  *)
(***************************************************************************)
THEOREM ResendsFollow == Spec => []CopiesAdjacent
<1>1. PInv => CopiesAdjacent
  <2>. SUFFICES ASSUME PInv PROVE CopiesAdjacent
    OBVIOUS
  <2>1. written \in Seq(Packets) /\ DOMAIN written = 1..Len(written)
    BY DEF PInv, PTypeOK
  <2>2. ASSUME NEW w \in PWorkers, pc[w] \in {"await", "rewrite"}
        PROVE  written # <<>> /\ Last(written) = sending[w]
    BY <2>1, <2>2 DEF PInv, Copies, Last
  <2>. QED
    BY <2>1, <2>2 DEF PInv, Copies, CopiesAdjacent
<1>. QED
  BY <1>1, Invariant, PTL

(***************************************************************************)
(* factory.go:111-119, tcp.go:62-66: an ack that a push takes and that is  *)
(* not its own is the late ack of a packet written twice, or goes back to  *)
(* one through the pushes that took each other's acks in between.          *)
(***************************************************************************)
THEOREM StraysExplained == Spec => []StrayAcksAreLate
<1>1. PInv => StrayAcksAreLate
  BY DEF PInv
<1>. QED
  BY <1>1, Invariant, PTL

(***************************************************************************)
(* invocation.go:236-241: unregister closes the connection under entry.mu, *)
(* never between a send's write and the end of its wait or second write.   *)
(***************************************************************************)
THEOREM CloseWaits == Spec => []NotClosedUnderSend
<1>1. PInv => NotClosedUnderSend
  BY DEF PInv
<1>. QED
  BY <1>1, Invariant, PTL
=============================================================================
