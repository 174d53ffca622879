------------------------- MODULE CommandFlowProofs -------------------------
(***************************************************************************)
(* Proofs about CommandFlow for any finite set of packets, and any         *)
(* connections, addresses and numbers of workers.                          *)
(***************************************************************************)
EXTENDS CommandFlow, TLAPS, FiniteSetTheorems

-----------------------------------------------------------------------------
(* Sequences used as queues. *)

\* a sequence in its elements
LEMMA ElementAt ==
  ASSUME NEW S, NEW s \in Seq(S)
  PROVE  Len(s) \in Nat /\ DOMAIN s = 1..Len(s) /\ \A i \in 1..Len(s) : s[i] \in S
OBVIOUS

\* appending leaves the places that were taken as they were
LEMMA AppendAt ==
  ASSUME NEW S, NEW s \in Seq(S), NEW e \in S
  PROVE  /\ Append(s, e) \in Seq(S)
         /\ Len(s) \in Nat
         /\ Len(Append(s, e)) = Len(s) + 1
         /\ Append(s, e)[Len(s) + 1] = e
         /\ \A i \in 1..Len(s) : Append(s, e)[i] = s[i]
OBVIOUS

\* taking the first moves the others one place up
LEMMA TailAt ==
  ASSUME NEW S, NEW s \in Seq(S), s # <<>>
  PROVE  /\ Tail(s) \in Seq(S)
         /\ Len(s) \in Nat \ {0}
         /\ Len(Tail(s)) = Len(s) - 1
         /\ Head(s) = s[1] /\ Head(s) \in S
         /\ \A i \in 1..(Len(s) - 1) : Tail(s)[i] = s[i + 1]
OBVIOUS

\* taking one out of the middle moves those after it one place up
LEMMA RemoveAtAt ==
  ASSUME NEW S, NEW s \in Seq(S), NEW k \in 1..Len(s)
  PROVE  /\ RemoveAt(s, k) \in Seq(S)
         /\ Len(s) \in Nat
         /\ Len(RemoveAt(s, k)) = Len(s) - 1
         /\ \A i \in 1..(Len(s) - 1) :
              RemoveAt(s, k)[i] = IF i < k THEN s[i] ELSE s[i + 1]
<1>. DEFINE front == SubSeq(s, 1, k - 1)  back == SubSeq(s, k + 1, Len(s))
<1>1. /\ front \in Seq(S) /\ Len(front) = k - 1
      /\ \A i \in 1..(k - 1) : front[i] = s[i]
  OBVIOUS
<1>2. /\ back \in Seq(S) /\ Len(back) = Len(s) - k
      /\ \A i \in 1..(Len(s) - k) : back[i] = s[k + i]
  OBVIOUS
<1>3. RemoveAt(s, k) = front \o back
  BY DEF RemoveAt
<1>. HIDE DEF front, back
<1>4. /\ front \o back \in Seq(S) /\ Len(s) \in Nat /\ Len(front \o back) = Len(s) - 1
      /\ \A i \in 1..(Len(s) - 1) :
           (front \o back)[i] = IF i <= k - 1 THEN front[i] ELSE back[i - (k - 1)]
  <2>1. ASSUME NEW u \in Seq(S), NEW v \in Seq(S)
        PROVE  /\ u \o v \in Seq(S) /\ Len(u \o v) = Len(u) + Len(v)
               /\ Len(u) \in Nat /\ Len(v) \in Nat
               /\ \A i \in 1..(Len(u) + Len(v)) :
                    (u \o v)[i] = IF i <= Len(u) THEN u[i] ELSE v[i - Len(u)]
    BY <2>1
  <2>2. Len(s) \in Nat /\ Len(front) + Len(back) = Len(s) - 1
    BY <1>1, <1>2, ElementAt
  <2>3. /\ front \o back \in Seq(S) /\ Len(front \o back) = Len(front) + Len(back)
        /\ \A i \in 1..(Len(front) + Len(back)) :
             (front \o back)[i] = IF i <= Len(front) THEN front[i] ELSE back[i - Len(front)]
    BY <1>1, <1>2, <2>1
  <2>. QED
    BY <1>1, <2>2, <2>3
<1>5. ASSUME NEW i \in 1..(Len(s) - 1)
      PROVE  (front \o back)[i] = IF i < k THEN s[i] ELSE s[i + 1]
  <2>1. CASE i < k
    BY <1>1, <1>4, <2>1
  <2>2. CASE i >= k
    <3>1. i - (k - 1) \in 1..(Len(s) - k) /\ k + (i - (k - 1)) = i + 1
      BY <1>4, <2>2
    <3>2. back[i - (k - 1)] = s[i + 1]
      BY <1>2, <3>1
    <3>3. (front \o back)[i] = back[i - (k - 1)]
      BY <1>1, <1>4, <2>2
    <3>. QED
      BY <2>2, <3>2, <3>3
  <2>. QED
    BY <1>4, <2>1, <2>2
<1>. QED
  BY <1>2, <1>3, <1>4, <1>5

\* appending puts one more element in a sequence, at the end
LEMMA AppendSet ==
  ASSUME NEW S, NEW s \in Seq(S), NEW e \in S
  PROVE  ToSet(Append(s, e)) = ToSet(s) \cup {e}
<1>1. /\ Len(Append(s, e)) = Len(s) + 1
      /\ DOMAIN Append(s, e) = 1..(Len(s) + 1)
      /\ DOMAIN s = 1..Len(s)
      /\ Append(s, e)[Len(s) + 1] = e
      /\ \A i \in 1..Len(s) : Append(s, e)[i] = s[i]
  OBVIOUS
<1>2. ASSUME NEW x \in ToSet(Append(s, e)) PROVE x \in ToSet(s) \cup {e}
  BY <1>1, <1>2 DEF ToSet
<1>3. ASSUME NEW x \in ToSet(s) \cup {e} PROVE x \in ToSet(Append(s, e))
  <2>1. CASE x = e
    BY <1>1, <2>1 DEF ToSet
  <2>2. CASE x \in ToSet(s)
    <3>1. PICK i \in 1..Len(s) : x = s[i]
      BY <1>1, <2>2 DEF ToSet
    <3>. QED
      BY <1>1, <3>1 DEF ToSet
  <2>. QED
    BY <1>3, <2>1, <2>2
<1>. QED
  BY <1>2, <1>3

\* appending something new keeps a sequence free of repetitions
LEMMA AppendNew ==
  ASSUME NEW S, NEW s \in Seq(S), NEW e \in S, IsInjective(s), e \notin ToSet(s)
  PROVE  IsInjective(Append(s, e))
<1>1. /\ DOMAIN Append(s, e) = 1..(Len(s) + 1)
      /\ DOMAIN s = 1..Len(s)
      /\ Append(s, e)[Len(s) + 1] = e
      /\ \A i \in 1..Len(s) : Append(s, e)[i] = s[i]
  OBVIOUS
<1>2. \A i \in 1..Len(s) : s[i] # e
  BY <1>1 DEF ToSet
<1>3. \A i, j \in 1..Len(s) : s[i] = s[j] => i = j
  BY <1>1 DEF IsInjective
<1>4. \A i, j \in 1..(Len(s) + 1) : Append(s, e)[i] = Append(s, e)[j] => i = j
  BY <1>1, <1>2, <1>3
<1>. QED
  BY <1>1, <1>4 DEF IsInjective

\* the head of a queue without repetitions occurs in it once
LEMMA QueueHead ==
  ASSUME NEW S, NEW q \in Seq(S), q # <<>>, IsInjective(q)
  PROVE  /\ ToSet(q) = ToSet(Tail(q)) \cup {Head(q)}
         /\ Head(q) \notin ToSet(Tail(q))
         /\ RemoveAt(q, 1) = Tail(q)
         /\ 1 \in DOMAIN q /\ q[1] = Head(q)
<1>1. /\ DOMAIN q = 1..Len(q) /\ Len(q) \in Nat \ {0}
      /\ Head(q) = q[1]
      /\ DOMAIN Tail(q) = 1..(Len(q) - 1)
      /\ \A i \in 1..(Len(q) - 1) : Tail(q)[i] = q[i + 1]
  OBVIOUS
<1>2. ASSUME NEW t \in ToSet(q) PROVE t \in ToSet(Tail(q)) \cup {Head(q)}
  <2>1. PICK i \in 1..Len(q) : q[i] = t
    BY <1>1, <1>2 DEF ToSet
  <2>2. CASE i = 1
    BY <1>1, <2>1, <2>2
  <2>3. CASE i > 1
    <3>1. i - 1 \in 1..(Len(q) - 1) /\ Tail(q)[i - 1] = t
      BY <1>1, <2>1, <2>3
    <3>. QED
      BY <1>1, <3>1 DEF ToSet
  <2>. QED
    BY <1>1, <2>2, <2>3
<1>3. ASSUME NEW t \in ToSet(Tail(q)) PROVE t \in ToSet(q) /\ t # Head(q)
  <2>1. PICK i \in 1..(Len(q) - 1) : Tail(q)[i] = t
    BY <1>1, <1>3 DEF ToSet
  <2>2. i + 1 \in DOMAIN q /\ q[i + 1] = t /\ 1 \in DOMAIN q /\ i + 1 # 1
    BY <1>1, <2>1
  <2>. QED
    BY <1>1, <2>2 DEF ToSet, IsInjective
<1>4. Head(q) \in ToSet(q)
  BY <1>1 DEF ToSet
<1>5. RemoveAt(q, 1) = Tail(q)
  BY DEF RemoveAt
<1>. QED
  BY <1>1, <1>2, <1>3, <1>4, <1>5

\* a queue without repetitions loses the element taken out of it, and nothing else
LEMMA RemoveAtQueue ==
  ASSUME NEW S, NEW s \in Seq(S), NEW k \in 1..Len(s), IsInjective(s)
  PROVE  /\ ToSet(RemoveAt(s, k)) = ToSet(s) \ {s[k]}
         /\ IsInjective(RemoveAt(s, k))
<1>. DEFINE r == RemoveAt(s, k)
            at(i) == IF i < k THEN i ELSE i + 1
<1>1. /\ Len(s) \in Nat /\ DOMAIN s = 1..Len(s) /\ DOMAIN r = 1..(Len(s) - 1)
      /\ \A i \in 1..(Len(s) - 1) : r[i] = s[at(i)]
  BY RemoveAtAt, ElementAt
<1>2. \A i \in 1..(Len(s) - 1) : at(i) \in 1..Len(s) /\ at(i) # k
  BY <1>1
<1>3. \A i, j \in 1..(Len(s) - 1) : at(i) = at(j) => i = j
  BY <1>1
<1>4. \A i \in 1..Len(s) : i # k => \E j \in 1..(Len(s) - 1) : at(j) = i
  <2>. SUFFICES ASSUME NEW i \in 1..Len(s), i # k PROVE \E j \in 1..(Len(s) - 1) : at(j) = i
    OBVIOUS
  <2>1. CASE i < k
    <3>1. i \in 1..(Len(s) - 1) /\ at(i) = i
      BY <1>1, <2>1
    <3>. QED
      BY <3>1
  <2>2. CASE i > k
    <3>1. i - 1 \in 1..(Len(s) - 1) /\ at(i - 1) = i
      BY <1>1, <2>2
    <3>. QED
      BY <3>1
  <2>. QED
    BY <1>1, <2>1, <2>2
<1>5. \A i, j \in 1..Len(s) : s[i] = s[j] => i = j
  BY <1>1 DEF IsInjective
<1>. HIDE DEF r, at
<1>6. IsInjective(r)
  BY <1>1, <1>2, <1>3, <1>5 DEF IsInjective
<1>7. ASSUME NEW x \in ToSet(r) PROVE x \in ToSet(s) \ {s[k]}
  <2>1. PICK i \in 1..(Len(s) - 1) : r[i] = x
    BY <1>1, <1>7 DEF ToSet
  <2>. QED
    BY <1>1, <1>2, <1>5, <2>1 DEF ToSet
<1>8. ASSUME NEW x \in ToSet(s) \ {s[k]} PROVE x \in ToSet(r)
  <2>1. PICK i \in 1..Len(s) : s[i] = x
    BY <1>1, <1>8 DEF ToSet
  <2>2. PICK j \in 1..(Len(s) - 1) : at(j) = i
    BY <1>4, <1>8, <2>1
  <2>. QED
    BY <1>1, <2>1, <2>2 DEF ToSet
<1>. QED
  BY <1>6, <1>7, <1>8 DEF r

-----------------------------------------------------------------------------
(* The inductive invariant, the registry's part. *)

\* a connection that has been through Accept and register
Registered == {c \in Conns : reader[c] # "none"}

\* clients connect in the order of their numbers, and are registered in it
InOrder ==
  /\ \A c \in Conns : c \in Registered \/ up[c] => addr[c] # Nobody
  /\ \A c, d \in Conns : addr[c] # Nobody /\ d < c => addr[d] # Nobody
  /\ \A i \in 1..Len(backlog) :
       /\ addr[backlog[i]] # Nobody /\ open[backlog[i]]
       /\ backlog[i] \notin Registered /\ \A c \in Registered : c < backlog[i]
  /\ \A i, j \in 1..Len(backlog) : i < j => backlog[i] < backlog[j]

\* an address has one client, and it is the last that connected with it
OneClient ==
  \A c, d \in Conns : d < c /\ addr[c] = addr[d] /\ addr[c] # Nobody => ~up[d]

\* an entry is filed under its address, and is the last that was registered there
TableIsLatest ==
  \A a \in Addrs : table[a] # Nobody =>
    /\ table[a] \in Registered /\ addr[table[a]] = a
    /\ \A d \in Registered : addr[d] = a => d <= table[a]

TakenWasRegistered == \A c \in Conns : reader[c] = "closing" => taken[c] \in Registered

RegInv == Registry!TypeOK /\ InOrder /\ OneClient /\ TableIsLatest /\ TakenWasRegistered /\ ClosedOnce

-----------------------------------------------------------------------------
(* The packets' part. *)

FlowTypes ==
  /\ stage \in [Packets -> {"idle", "receipt", "command", "frame"}
                             \cup InReceipt \cup InHandler \cup InSend \cup Ends]
  /\ from \in [Packets -> Conns \cup Addrs \cup {Nobody}]
  /\ entry \in [Packets -> Conns \cup {Nobody}]
  /\ ts \in [Packets -> 0..Cardinality(Packets)]
  /\ wire \in [Conns -> Seq(Packets)]
  /\ running \in BOOLEAN
  /\ late \subseteq Packets
  /\ near \subseteq SUBSET Packets

LineInv ==
  /\ iLine \in Seq(Packets) /\ hLine \in Seq(Packets) /\ pLine \in Seq(Packets)
  /\ ToSet(iLine) = At({"receipt"}) /\ IsInjective(iLine)
  /\ ToSet(hLine) = At({"command"}) /\ IsInjective(hLine)
  /\ ToSet(pLine) = At({"frame"}) /\ IsInjective(pLine)

OneSend == \A p, q \in At({"sending"}) : entry[p] = entry[q] => p = q

\* no later client of the address than c sent p
NotLater(p, c) == from[p] \in Conns /\ addr[from[p]] = addr[c] => from[p] <= c

\* what Push looked up, and what was written, is for a client not older than the sender
Addressed ==
  /\ \A p \in Packets : from[p] \in Registered \cup Addrs
                         \/ (from[p] = Nobody /\ stage[p] \in {"idle"} \cup Ends)
  /\ \A p \in Packets : entry[p] # Nobody =>
       entry[p] \in Registered /\ ts[p] > 0 /\ NotLater(p, entry[p])
  /\ \A c \in Conns : \A p \in ToSet(wire[c]) :
       c \in Registered /\ ts[p] > 0 /\ NotLater(p, c) /\ stage[p] \in {"sending", "over"}
  /\ \A c \in Conns : IsInjective(wire[c])

Stamped ==
  \A p \in Packets :
    /\ ts[p] # 0 => stage[p] \in {"pushing", "frame", "popped", "sending", "over"}
    /\ ts[p] <= Stamps

\* p is ahead of q on the way from Push to the wire
Ahead(p, q) ==
  \/ stage[q] = "pushing" /\ stage[p] \in {"frame", "popped", "sending", "over"}
  \/ /\ stage[q] = "frame"
     /\ \/ stage[p] \in {"popped", "sending", "over"}
        \/ \E i, j \in 1..Len(pLine) : i < j /\ pLine[i] = p /\ pLine[j] = q
  \/ stage[q] \in {"popped", "sending", "over"} /\ stage[p] = "over"

\* what was stamped first is ahead, but for what was near it once
Overtaken ==
  \A p, q \in Packets : 0 < ts[p] /\ ts[p] < ts[q] /\ {p, q} \notin near => Ahead(p, q)

FlowInv ==
  FlowTypes /\ LineInv /\ OneSend /\ Addressed /\ Stamped /\ Overtaken /\ WireInTsOrder

CFInv == RegInv /\ FlowInv

-----------------------------------------------------------------------------
(* The registry. *)

\* the registry starts empty, nobody connected
LEMMA InitRegInv == Init => RegInv
<1>. SUFFICES ASSUME Init PROVE RegInv
  OBVIOUS
<1>. USE FlowAssumption DEF Init, Registry!Init
<1>1. Registry!TypeOK
  BY DEF Registry!TypeOK
<1>2. InOrder /\ OneClient /\ TableIsLatest
  BY DEF InOrder, OneClient, TableIsLatest, Registered
<1>3. TakenWasRegistered /\ ClosedOnce
  BY DEF TakenWasRegistered, ClosedOnce, Registry!ClosedOnce, Registry!Closing
<1>. QED
  BY <1>1, <1>2, <1>3 DEF RegInv

\* a client arrives with an address that no other client has
LEMMA ConnectKeeps ==
  ASSUME RegInv, NEW c \in Conns, NEW a \in Addrs, Registry!Connect(c, a)
  PROVE  RegInv'
<1>. USE FlowAssumption
<1>1. /\ addr[c] = Nobody /\ \A d \in Conns : d < c => addr[d] # Nobody
      /\ \A d \in Conns : addr[d] = a => ~up[d]
      /\ addr' = [addr EXCEPT ![c] = a] /\ up' = [up EXCEPT ![c] = TRUE]
      /\ open' = [open EXCEPT ![c] = TRUE] /\ backlog' = Append(backlog, c)
      /\ UNCHANGED <<table, reader, taken>>
  BY DEF Registry!Connect, Registry!Free
<1>2. /\ Len(backlog) \in Nat /\ Len(backlog') = Len(backlog) + 1
      /\ backlog'[Len(backlog) + 1] = c
      /\ \A i \in 1..Len(backlog) : backlog'[i] = backlog[i] /\ backlog[i] \in Conns
  BY <1>1, AppendAt, ElementAt DEF RegInv, Registry!TypeOK
<1>3. Registry!TypeOK'
  BY <1>1, AppendAt DEF RegInv, Registry!TypeOK
<1>4. \A d \in Conns : addr[d] # Nobody => d < c
  BY <1>1 DEF RegInv, InOrder
<1>5. c \notin Registered /\ Registered' = Registered
  BY <1>1 DEF RegInv, InOrder, Registered
<1>6. addr'[c] = a /\ open'[c] /\ up'[c] /\ \A d \in Conns \ {c} : addr'[d] = addr[d] /\ open'[d] = open[d] /\ up'[d] = up[d]
  BY <1>1 DEF RegInv, Registry!TypeOK
<1>7. InOrder'
  <2>1. \A d \in Conns : d \in Registered' \/ up'[d] => addr'[d] # Nobody
    BY <1>5, <1>6 DEF RegInv, InOrder
  <2>2. \A d, e \in Conns : addr'[d] # Nobody /\ e < d => addr'[e] # Nobody
    BY <1>1, <1>6 DEF RegInv, InOrder
  <2>3. ASSUME NEW i \in 1..Len(backlog')
        PROVE  /\ addr'[backlog'[i]] # Nobody /\ open'[backlog'[i]]
               /\ backlog'[i] \notin Registered /\ \A d \in Registered : d < backlog'[i]
    <3>1. CASE i \in 1..Len(backlog)
      <4>1. backlog'[i] = backlog[i] /\ backlog[i] \in Conns
        BY <1>2, <3>1
      <4>2. /\ addr[backlog[i]] # Nobody /\ open[backlog[i]]
            /\ backlog[i] \notin Registered /\ \A d \in Registered : d < backlog[i]
        BY <3>1 DEF RegInv, InOrder
      <4>3. backlog[i] \in Conns \ {c}
        BY <1>1, <4>1, <4>2
      <4>. QED
        BY <1>6, <4>1, <4>2, <4>3
    <3>2. CASE i = Len(backlog) + 1
      BY <1>2, <1>4, <1>5, <1>6, <3>2 DEF RegInv, InOrder, Registered
    <3>. QED
      BY <1>2, <3>1, <3>2
  <2>4. ASSUME NEW i \in 1..Len(backlog'), NEW j \in 1..Len(backlog'), i < j
        PROVE  backlog'[i] < backlog'[j]
    <3>1. i \in 1..Len(backlog)
      BY <1>2, <2>4
    <3>2. CASE j \in 1..Len(backlog)
      BY <1>2, <2>4, <3>1, <3>2 DEF RegInv, InOrder
    <3>3. CASE j = Len(backlog) + 1
      BY <1>2, <1>4, <3>1, <3>3 DEF RegInv, InOrder
    <3>. QED
      BY <1>2, <3>2, <3>3
  <2>. QED
    BY <1>5, <2>1, <2>2, <2>3, <2>4 DEF InOrder
<1>8. OneClient'
  BY <1>1, <1>4, <1>6 DEF RegInv, OneClient
<1>9. TableIsLatest' /\ TakenWasRegistered'
  BY <1>1, <1>5, <1>6 DEF RegInv, TableIsLatest, TakenWasRegistered, Registered
<1>10. ClosedOnce'
  BY <1>1, <1>6 DEF RegInv, ClosedOnce, Registry!ClosedOnce, Registry!Closing, Registry!TypeOK
<1>. QED
  BY <1>3, <1>7, <1>8, <1>9, <1>10 DEF RegInv

\* the oldest of the backlog is filed, in place of an older one with its address
LEMMA RegisterKeeps ==
  ASSUME RegInv, Registry!Register
  PROVE  RegInv'
<1>. USE FlowAssumption
<1>0. PICK c \in Conns : c = Head(backlog)
  BY TailAt DEF Registry!Register, RegInv, Registry!TypeOK
<1>1. /\ backlog # <<>> /\ backlog' = Tail(backlog)
      /\ table' = [table EXCEPT ![addr[c]] = c]
      /\ reader' = [reader EXCEPT ![c] = "reading"]
      /\ UNCHANGED <<addr, taken, up, open>>
  BY <1>0 DEF Registry!Register
<1>2. /\ Len(backlog) \in Nat /\ Len(backlog') = Len(backlog) - 1
      /\ 1 \in 1..Len(backlog) /\ backlog[1] = c
      /\ \A i \in 1..Len(backlog') : i + 1 \in 1..Len(backlog) /\ backlog'[i] = backlog[i + 1]
      /\ \A i \in 1..Len(backlog) : backlog[i] \in Conns
  BY <1>0, <1>1, TailAt, ElementAt DEF RegInv, Registry!TypeOK
<1>3. /\ addr[c] # Nobody /\ open[c] /\ c \notin Registered /\ \A d \in Registered : d < c
  BY <1>2 DEF RegInv, InOrder
<1>4. Registered' = Registered \cup {c} /\ addr[c] \in Addrs
  BY <1>1, <1>3 DEF Registered, RegInv, Registry!TypeOK
<1>5. Registry!TypeOK'
  BY <1>1, <1>3, TailAt DEF RegInv, Registry!TypeOK, Registered
<1>6. InOrder'
  <2>1. ASSUME NEW i \in 1..Len(backlog')
        PROVE  /\ addr[backlog'[i]] # Nobody /\ open[backlog'[i]] /\ c < backlog'[i]
               /\ backlog'[i] \notin Registered' /\ \A d \in Registered' : d < backlog'[i]
    <3>1. i + 1 \in 1..Len(backlog) /\ backlog'[i] = backlog[i + 1] /\ 1 < i + 1
      BY <1>2
    <3>2. c < backlog'[i] /\ c # backlog'[i]
      BY <1>2, <3>1 DEF RegInv, InOrder
    <3>. QED
      BY <1>4, <3>1, <3>2 DEF RegInv, InOrder
  <2>2. ASSUME NEW i \in 1..Len(backlog'), NEW j \in 1..Len(backlog'), i < j
        PROVE  backlog'[i] < backlog'[j]
    <3>1. i + 1 \in 1..Len(backlog) /\ j + 1 \in 1..Len(backlog) /\ i + 1 < j + 1
      BY <1>2, <2>2
    <3>. QED
      BY <1>2, <3>1 DEF RegInv, InOrder
  <2>. QED
    BY <1>1, <1>3, <1>4, <2>1, <2>2 DEF RegInv, InOrder
<1>7. OneClient' /\ TakenWasRegistered'
  BY <1>1, <1>3, <1>4 DEF RegInv, OneClient, TakenWasRegistered, Registered, Registry!TypeOK
<1>8. TableIsLatest'
  BY <1>1, <1>3, <1>4 DEF RegInv, TableIsLatest, Registry!TypeOK, Registered
<1>9. ClosedOnce'
  <2>1. Registry!Closing' = Registry!Closing
    BY <1>1, <1>3 DEF Registry!Closing, RegInv, Registry!TypeOK, Registered
  <2>2. \A d \in Registry!Closing : taken[d] # c
    BY <1>3 DEF RegInv, TakenWasRegistered, Registry!Closing
  <2>. QED
    BY <1>1, <1>3, <1>4, <2>1, <2>2 DEF RegInv, ClosedOnce, Registry!ClosedOnce, Registry!TypeOK
<1>. QED
  BY <1>5, <1>6, <1>7, <1>8, <1>9 DEF RegInv

\* a client or a reader leaves; unregister takes an entry out; and closes it
LEMMA LeaveKeeps ==
  ASSUME RegInv, NEW c \in Conns,
         Registry!ClientLeaves(c) \/ Registry!Reject(c) \/ Registry!ReadFails(c)
  PROVE  RegInv'
<1>1. /\ UNCHANGED <<addr, backlog, table, taken, open>>
      /\ up' = up \/ (up' = [up EXCEPT ![c] = FALSE])
      /\ reader' = reader \/ (reader[c] = "reading" /\ reader' = [reader EXCEPT ![c] = "leaving"])
  BY DEF Registry!ClientLeaves, Registry!Reject, Registry!ReadFails
<1>2. Registered' = Registered /\ Registry!Closing' = Registry!Closing
  BY <1>1 DEF Registered, Registry!Closing, RegInv, Registry!TypeOK
<1>3. Registry!TypeOK'
  BY <1>1 DEF RegInv, Registry!TypeOK
<1>4. \A d \in Conns : up'[d] => up[d]
  BY <1>1 DEF RegInv, Registry!TypeOK
<1>5. InOrder' /\ OneClient' /\ TableIsLatest'
  BY <1>1, <1>2, <1>4 DEF RegInv, InOrder, OneClient, TableIsLatest
<1>6. TakenWasRegistered' /\ ClosedOnce'
  BY <1>1, <1>2 DEF RegInv, TakenWasRegistered, ClosedOnce, Registry!ClosedOnce, Registry!Closing
<1>. QED
  BY <1>3, <1>5, <1>6 DEF RegInv

\* LoadAndDelete takes the entry of the address, which may be that of a later client
LEMMA UnregisterKeeps ==
  ASSUME RegInv, NEW c \in Conns, Registry!LoadAndDelete(c)
  PROVE  RegInv'
<1>. USE FlowAssumption
<1>. DEFINE e == table[addr[c]]
<1>1. /\ reader[c] = "leaving" /\ taken' = [taken EXCEPT ![c] = e]
      /\ reader' = [reader EXCEPT ![c] = IF e = Nobody THEN "gone" ELSE "closing"]
      /\ table' = [table EXCEPT ![addr[c]] = Nobody]
      /\ UNCHANGED <<addr, backlog, up, open>>
  BY DEF Registry!LoadAndDelete
<1>2. c \in Registered /\ addr[c] \in Addrs /\ e \in Conns \cup {Nobody}
  BY <1>1 DEF Registered, RegInv, InOrder, Registry!TypeOK
<1>3. e # Nobody => e \in Registered /\ open[e] /\ addr[e] = addr[c]
        /\ \A d \in Registry!Closing : taken[d] # e
  BY <1>2 DEF RegInv, TableIsLatest, ClosedOnce, Registry!ClosedOnce
<1>. HIDE DEF e
<1>4. Registered' = Registered
  BY <1>1, <1>2 DEF Registered, RegInv, Registry!TypeOK
<1>5. Registry!Closing' = Registry!Closing \cup (IF e = Nobody THEN {} ELSE {c}) /\ c \notin Registry!Closing
  BY <1>1 DEF Registry!Closing, RegInv, Registry!TypeOK
<1>6. Registry!TypeOK'
  BY <1>1, <1>2 DEF RegInv, Registry!TypeOK
<1>7. InOrder' /\ OneClient'
  BY <1>1, <1>4 DEF RegInv, InOrder, OneClient
<1>8. TableIsLatest'
  BY <1>1, <1>4 DEF RegInv, TableIsLatest, Registry!TypeOK
<1>9. TakenWasRegistered'
  BY <1>1, <1>3, <1>4 DEF RegInv, TakenWasRegistered, Registry!TypeOK
<1>10. ClosedOnce'
  <2>1. \A d \in Registry!Closing : taken'[d] = taken[d] /\ open[taken[d]]
    BY <1>1, <1>5 DEF RegInv, ClosedOnce, Registry!ClosedOnce, Registry!Closing, Registry!TypeOK
  <2>2. taken'[c] = e
    BY <1>1 DEF RegInv, Registry!TypeOK
  <2>3. \A d \in Registry!Closing' : open'[taken'[d]]
    BY <1>1, <1>3, <1>5, <2>1, <2>2
  <2>4. \A d, f \in Registry!Closing' : taken'[d] = taken'[f] => d = f
    BY <1>3, <1>5, <2>1, <2>2 DEF RegInv, ClosedOnce, Registry!ClosedOnce
  <2>5. ASSUME NEW a \in Addrs, table'[a] # Nobody
        PROVE  open'[table'[a]] /\ table'[a] \notin {taken'[d] : d \in Registry!Closing'}
    <3>1. a # addr[c] /\ table'[a] = table[a]
      BY <1>1, <1>2, <2>5 DEF RegInv, Registry!TypeOK
    <3>2. addr[table[a]] = a
      BY <2>5, <3>1 DEF RegInv, TableIsLatest
    <3>. QED
      BY <1>1, <1>3, <1>5, <2>1, <2>2, <2>5, <3>1, <3>2
      DEF RegInv, ClosedOnce, Registry!ClosedOnce
  <2>. QED
    BY <2>3, <2>4, <2>5 DEF ClosedOnce, Registry!ClosedOnce
<1>. QED
  BY <1>6, <1>7, <1>8, <1>9, <1>10 DEF RegInv

\* a connection is closed by the one goroutine that took its entry
LEMMA CloseKeeps ==
  ASSUME RegInv, NEW c \in Conns, Registry!Close(c)
  PROVE  RegInv'
<1>. USE FlowAssumption
<1>1. /\ reader[c] = "closing" /\ reader' = [reader EXCEPT ![c] = "gone"]
      /\ open' = [open EXCEPT ![taken[c]] = FALSE]
      /\ taken' = [taken EXCEPT ![c] = Nobody]
      /\ UNCHANGED <<addr, backlog, table, up>>
  BY DEF Registry!Close
<1>2. c \in Registry!Closing /\ Registry!Closing' = Registry!Closing \ {c}
  BY <1>1 DEF Registry!Closing, RegInv, Registry!TypeOK
<1>3. Registered' = Registered /\ taken[c] \in Registered
  BY <1>1 DEF Registered, RegInv, TakenWasRegistered, Registry!TypeOK
<1>4. Registry!TypeOK'
  BY <1>1 DEF RegInv, Registry!TypeOK
<1>5. \A d \in Conns : d # taken[c] => open'[d] = open[d]
  BY <1>1 DEF RegInv, Registry!TypeOK
<1>6. InOrder'
  <2>1. \A i \in 1..Len(backlog) : backlog[i] \in Conns /\ backlog[i] # taken[c]
    BY <1>3, ElementAt DEF RegInv, InOrder, Registry!TypeOK
  <2>. QED
    BY <1>1, <1>3, <1>5, <2>1 DEF RegInv, InOrder
<1>7. OneClient' /\ TableIsLatest'
  BY <1>1, <1>3 DEF RegInv, OneClient, TableIsLatest
<1>8. TakenWasRegistered'
  BY <1>1, <1>3 DEF RegInv, TakenWasRegistered, Registry!TypeOK
<1>9. ClosedOnce'
  <2>1. \A d \in Registry!Closing' : taken'[d] = taken[d] /\ taken[d] # taken[c] /\ taken[d] \in Conns
    BY <1>1, <1>2 DEF RegInv, ClosedOnce, Registry!ClosedOnce, Registry!Closing, Registry!TypeOK
  <2>2. \A a \in Addrs : table[a] # Nobody => table[a] # taken[c] /\ table[a] \in Conns
    BY <1>2 DEF RegInv, ClosedOnce, Registry!ClosedOnce, Registry!TypeOK
  <2>. QED
    BY <1>1, <1>2, <1>5, <2>1, <2>2 DEF RegInv, ClosedOnce, Registry!ClosedOnce
<1>. QED
  BY <1>4, <1>6, <1>7, <1>8, <1>9 DEF RegInv

\* no step of the registry breaks its part of the invariant
LEMMA RegistryStep ==
  ASSUME RegInv, Registry!Next \/ UNCHANGED conns
  PROVE  RegInv'
<1>1. ASSUME UNCHANGED conns PROVE RegInv'
  BY <1>1 DEF conns, RegInv, Registry!TypeOK, InOrder, OneClient, TableIsLatest,
              TakenWasRegistered, ClosedOnce, Registry!ClosedOnce, Registry!Closing, Registered
<1>. QED
  BY <1>1, ConnectKeeps, RegisterKeeps, LeaveKeeps, UnregisterKeeps, CloseKeeps
  DEF Registry!Next, Registry!ReaderStep

-----------------------------------------------------------------------------
(* The packets: types and lines. *)

\* a packet that moves leaves the others where they are
LEMMA Moved ==
  ASSUME FlowTypes, NEW p \in Packets, NEW here, NEW there, Move(p, here, there)
  PROVE  /\ stage[p] = here /\ stage'[p] = there
         /\ \A q \in Packets \ {p} : stage'[q] = stage[q]
BY DEF FlowTypes, Move

\* a set of stages gains or loses at most the packet that moves
LEMMA AtMoved ==
  ASSUME FlowTypes, NEW p \in Packets, NEW here, NEW there, Move(p, here, there), NEW S
  PROVE  At(S)' = IF there \in S THEN At(S) \cup {p} ELSE At(S) \ {p}
BY Moved DEF At

\* every packet starts outside, every line and wire empty
LEMMA InitFlowInv == Init => FlowInv
<1>. SUFFICES ASSUME Init PROVE FlowInv
  OBVIOUS
<1>. USE FlowAssumption DEF Init
<1>1. Cardinality(Packets) \in Nat
  BY FS_CardinalityType
<1>2. FlowTypes
  BY <1>1 DEF FlowTypes
<1>3. LineInv
  BY DEF LineInv, At, ToSet, IsInjective
<1>4. OneSend /\ Addressed /\ WireInTsOrder
  BY DEF OneSend, Addressed, WireInTsOrder, At, ToSet, IsInjective
<1>5. Stamped
  <2>1. Stamps \in Nat
    BY FS_Subset, FS_CardinalityType DEF Stamps
  <2>. QED
    BY <2>1 DEF Stamped
<1>6. Overtaken
  BY DEF Overtaken
<1>. QED
  BY <1>2, <1>3, <1>4, <1>5, <1>6 DEF FlowInv

\* how many packets are stamped, before and after one more is
LEMMA StampCount ==
  ASSUME FlowTypes, NEW p \in Packets
  PROVE  /\ Stamps \in 0..Cardinality(Packets) /\ Cardinality(Packets) \in Nat
         /\ ts[p] = 0 /\ ts' = [ts EXCEPT ![p] = Stamps + 1] =>
              Stamps' = Stamps + 1 /\ Stamps' <= Cardinality(Packets)
<1>. DEFINE stamped == {q \in Packets : ts[q] # 0}
<1>1. /\ IsFiniteSet(Packets) /\ Cardinality(Packets) \in Nat
      /\ IsFiniteSet(stamped) /\ Cardinality(stamped) \in 0..Cardinality(Packets)
  BY FlowAssumption, FS_Subset, FS_CardinalityType
<1>2. ASSUME ts[p] = 0, ts' = [ts EXCEPT ![p] = Stamps + 1]
      PROVE  Stamps' = Stamps + 1 /\ Stamps' <= Cardinality(Packets)
  <2>0. ts'[p] # 0 /\ \A q \in Packets \ {p} : ts'[q] = ts[q]
    BY <1>1, <1>2 DEF FlowTypes, Stamps
  <2>1. stamped' = stamped \cup {p} /\ p \notin stamped
    BY <1>2, <2>0
  <2>2. Cardinality(stamped \cup {p}) = Cardinality(stamped) + 1
    BY <1>1, <2>1, FS_AddElement
  <2>3. Cardinality(stamped \cup {p}) <= Cardinality(Packets)
    BY <1>1, FS_Subset
  <2>. QED
    BY <2>1, <2>2, <2>3 DEF Stamps
<1>. QED
  BY <1>1, <1>2 DEF Stamps

\* what the table holds is a connection of the address that was registered
LEMMA Entry ==
  ASSUME RegInv, FlowTypes, Addressed, NEW p \in Packets, NEW a \in Addrs, table[a] # Nobody
  PROVE  /\ table[a] \in Registered /\ table[a] \in Conns /\ addr[table[a]] = a
         /\ NotLater(p, table[a])
BY FlowAssumption DEF RegInv, TableIsLatest, Addressed, NotLater, Registered

\* the kinds of step that a packet takes
PacketStep(p) ==
  \/ \E x \in Registered \cup Addrs : Receive(p, x)
  \/ StartReceipt(p) \/ AdmitCommand(p) \/ QueueCommand(p) \/ StartHandler(p)
  \/ Drop(p, "dispatch", "undispatched") \/ Drop(p, "handler", "unpushed")
  \/ running /\ Step(p, "handler", "pushing")
  \/ running /\ \E e \in Registered : Stamp(p, e) /\ NotLater(p, e)
  \/ QueueFrame(p) \/ StartSend(p) \/ Write(p)
  \/ Drop(p, "popped", "over") \/ EndSend(p)

\* every step of a packet is one of these
LEMMA Kinds ==
  ASSUME NEW p \in Packets, RegInv, FlowInv,
         Start(p) \/ Proceed(p) \/ (\E c \in Conns : ReadCommand(p, c)) \/ (\E a \in Addrs : ReadDatagram(p, a))
  PROVE  PacketStep(p)
<1>1. ASSUME NEW c \in Conns, ReadCommand(p, c) PROVE c \in Registered /\ Receive(p, c)
  BY <1>1 DEF ReadCommand, Registered
<1>2. ASSUME NEW a \in Addrs, ReadDatagram(p, a) PROVE Receive(p, a)
  BY <1>2 DEF ReadDatagram
<1>3. ASSUME NEW a \in Addrs, Push(p, a)
      PROVE  \/ Drop(p, "handler", "unpushed")
             \/ running /\ \E e \in Registered : Stamp(p, e) /\ NotLater(p, e)
  BY <1>3, Entry DEF Push, FlowInv
<1>4. ASSUME Answer(p)
      PROVE  \/ Drop(p, "handler", "unpushed")
             \/ running /\ \E e \in Registered : Stamp(p, e) /\ NotLater(p, e)
  <2>1. stage[p] = "handler"
    BY <1>4 DEF Answer, Push
  <2>2. from[p] \in Registered \cup Addrs
    BY <2>1 DEF FlowInv, Addressed, Ends
  <2>3. Origin(p) \in Addrs
    BY <2>2, FlowAssumption DEF Origin, RegInv, InOrder, Registry!TypeOK, Registered
  <2>. QED
    BY <1>3, <1>4, <2>3 DEF Answer
<1>5. ASSUME Route(p)
      PROVE  \/ Drop(p, "handler", "unpushed")
             \/ running /\ \E e \in Registered : Stamp(p, e) /\ NotLater(p, e)
  BY <1>3, <1>5 DEF Route
<1>6. ASSUME Start(p) PROVE StartReceipt(p) \/ StartHandler(p) \/ StartSend(p)
  BY <1>6 DEF Start
<1>7. ASSUME Proceed(p)
      PROVE  \/ AdmitCommand(p) \/ QueueCommand(p) \/ Answer(p) \/ Route(p)
             \/ Drop(p, "dispatch", "undispatched") \/ Drop(p, "handler", "unpushed")
             \/ (running /\ Step(p, "handler", "pushing")) \/ QueueFrame(p) \/ Write(p)
             \/ Drop(p, "popped", "over") \/ EndSend(p)
  BY <1>7 DEF Proceed, DropCommand, HandlerSilent, PushUDP, WriteFails, WriteDatagram
<1>. QED
  BY <1>1, <1>2, <1>4, <1>5, <1>6, <1>7 DEF PacketStep

\* a step of the clients and readers, or of the engine, leaves the packets alone
LEMMA OutsideStep ==
  ASSUME RegInv, FlowInv, Registry!Next \/ UNCHANGED conns,
         UNCHANGED <<stage, from, lines, frames, late>>, running' \in BOOLEAN
  PROVE  FlowInv'
<1>1. UNCHANGED <<stage, from, iLine, hLine, pLine, entry, ts, wire, near, late>>
  BY DEF lines, frames
<1>2. \A c \in Registered : c \in Registered' /\ addr'[c] = addr[c]
  <2>. SUFFICES ASSUME NEW c \in Registered PROVE c \in Registered' /\ addr'[c] = addr[c]
    OBVIOUS
  <2>. USE DEF RegInv, Registered, Registry!TypeOK
  <2>1. ASSUME UNCHANGED conns PROVE c \in Registered' /\ addr'[c] = addr[c]
    BY <2>1 DEF conns
  <2>2. ASSUME NEW d \in Conns, NEW a \in Addrs, Registry!Connect(d, a)
        PROVE  c \in Registered' /\ addr'[c] = addr[c]
    BY <2>2 DEF Registry!Connect, InOrder
  <2>3. ASSUME Registry!Register PROVE c \in Registered' /\ addr'[c] = addr[c]
    BY <2>3 DEF Registry!Register
  <2>4. ASSUME NEW d \in Conns, Registry!ClientLeaves(d) \/ Registry!Reject(d) \/ Registry!ReaderStep(d)
        PROVE  c \in Registered' /\ addr'[c] = addr[c]
    BY <2>4 DEF Registry!ClientLeaves, Registry!ReaderStep, Registry!Reject, Registry!ReadFails,
                Registry!LoadAndDelete, Registry!Close
  <2>. QED
    BY <2>1, <2>2, <2>3, <2>4 DEF Registry!Next, Registry!ReaderStep
<1>3. FlowTypes' /\ LineInv' /\ OneSend' /\ Stamped' /\ Overtaken' /\ WireInTsOrder'
  BY <1>1 DEF FlowInv, FlowTypes, LineInv, OneSend, Stamped, Stamps, Overtaken, Ahead,
              WireInTsOrder, At
<1>4. \A p \in Packets, c \in Registered : NotLater(p, c) => NotLater(p, c)'
  BY <1>1, <1>2, FlowAssumption DEF NotLater, FlowInv, Addressed
<1>5. Addressed'
  <2>1. \A p \in Packets : from'[p] \in Registered' \cup Addrs
                          \/ (from'[p] = Nobody /\ stage'[p] \in {"idle"} \cup Ends)
    BY <1>1, <1>2 DEF FlowInv, Addressed
  <2>2. \A p \in Packets : entry'[p] # Nobody =>
          entry'[p] \in Registered' /\ ts'[p] > 0 /\ NotLater(p, entry[p])'
    BY <1>1, <1>2, <1>4 DEF FlowInv, Addressed
  <2>3. \A c \in Conns : ToSet(wire[c]) \subseteq Packets
    BY ElementAt DEF FlowInv, FlowTypes, ToSet
  <2>4. ASSUME NEW c \in Conns, NEW p \in ToSet(wire'[c])
        PROVE  c \in Registered' /\ ts'[p] > 0 /\ NotLater(p, c)' /\ stage'[p] \in {"sending", "over"}
    BY <1>1, <1>2, <1>4, <2>3, <2>4 DEF FlowInv, Addressed
  <2>5. \A c \in Conns : IsInjective(wire'[c])
    BY <1>1 DEF FlowInv, Addressed
  <2>. QED
    BY <2>1, <2>2, <2>4, <2>5 DEF Addressed
<1>. QED
  BY <1>3, <1>5 DEF FlowInv

\* the pairs that are near each other are pairs of packets
LEMMA PairsOf ==
  ASSUME NEW p \in Packets, NEW S
  PROVE  {{p, q} : q \in At(S)} \subseteq SUBSET Packets
<1>1. ASSUME NEW q \in At(S) PROVE {p, q} \in SUBSET Packets
  BY <1>1 DEF At
<1>. QED
  BY <1>1

\* a step of a packet keeps the types of its part
LEMMA TypesStep ==
  ASSUME FlowTypes, LineInv, Stamped, NEW p \in Packets, PacketStep(p)
  PROVE  FlowTypes'
<1>. USE FlowAssumption DEF FlowTypes, Move, Join, InReceipt, InHandler, InSend, Ends
<1>1. ASSUME NEW x \in Registered \cup Addrs, Receive(p, x) PROVE FlowTypes'
  BY <1>1 DEF Receive, frames, Registered
<1>2. ASSUME StartReceipt(p) \/ QueueCommand(p) \/ StartHandler(p) \/ QueueFrame(p) PROVE FlowTypes'
  BY <1>2 DEF StartReceipt, QueueCommand, StartHandler, QueueFrame, frames
<1>3. ASSUME AdmitCommand(p) \/ Step(p, "handler", "pushing") PROVE FlowTypes'
  BY <1>3 DEF AdmitCommand, Step, frames
<1>4. ASSUME \/ Drop(p, "dispatch", "undispatched") \/ Drop(p, "handler", "unpushed")
             \/ Drop(p, "popped", "over")
      PROVE  FlowTypes'
  BY <1>4 DEF Drop
<1>5. ASSUME NEW e \in Registered, Stamp(p, e) PROVE FlowTypes'
  <2>1. ts[p] = 0 /\ ts' = [ts EXCEPT ![p] = Stamps + 1]
    BY <1>5 DEF Stamp, Stamped
  <2>2. Stamps + 1 \in 0..Cardinality(Packets)
    <3>1. /\ Stamps \in 0..Cardinality(Packets) /\ Cardinality(Packets) \in Nat
          /\ Stamps' = Stamps + 1 /\ Stamps' <= Cardinality(Packets)
      BY <2>1, StampCount
    <3>. QED
      BY <3>1
  <2>3. ts' \in [Packets -> 0..Cardinality(Packets)]
    BY <2>1, <2>2
  <2>4. near' \subseteq SUBSET Packets
    BY <1>5, PairsOf DEF Stamp
  <2>. QED
    BY <1>5, <2>3, <2>4 DEF Stamp, Registered
<1>6. ASSUME StartSend(p) PROVE FlowTypes'
  <2>1. near' \subseteq SUBSET Packets
    <3>1. near' = near \cup {{p, q} : q \in At(InSend)} /\ near \subseteq SUBSET Packets
      BY <1>6 DEF StartSend
    <3>2. {{p, q} : q \in At(InSend)} \subseteq SUBSET Packets
      BY PairsOf
    <3>. QED
      BY <3>1, <3>2
  <2>. QED
    BY <1>6, <2>1 DEF StartSend
<1>7. ASSUME Write(p) PROVE FlowTypes'
  <2>1. entry[p] \in Conns /\ wire' = [wire EXCEPT ![entry[p]] = Append(wire[entry[p]], p)]
    BY <1>7 DEF Write
  <2>2. Append(wire[entry[p]], p) \in Seq(Packets)
    BY <2>1, AppendAt
  <2>3. wire' \in [Conns -> Seq(Packets)]
    BY <2>1, <2>2
  <2>. QED
    BY <1>7, <2>3 DEF Write
<1>8. ASSUME EndSend(p) PROVE FlowTypes'
  BY <1>8 DEF EndSend
<1>. QED
  BY <1>1, <1>2, <1>3, <1>4, <1>5, <1>6, <1>7, <1>8 DEF PacketStep

\* a packet that joins a queue, and one that is taken out of it
LEMMA Joined ==
  ASSUME NEW line \in Seq(Packets), NEW p \in Packets, p \notin ToSet(line), IsInjective(line)
  PROVE  /\ Append(line, p) \in Seq(Packets)
         /\ ToSet(Append(line, p)) = ToSet(line) \cup {p}
         /\ IsInjective(Append(line, p))
BY AppendAt, AppendSet, AppendNew

\* a line without repetitions, without the packet at one place of it
LEMMA Left ==
  ASSUME NEW line \in Seq(Packets), NEW i \in DOMAIN line, IsInjective(line)
  PROVE  /\ RemoveAt(line, i) \in Seq(Packets)
         /\ ToSet(RemoveAt(line, i)) = ToSet(line) \ {line[i]}
         /\ IsInjective(RemoveAt(line, i))
BY ElementAt, RemoveAtAt, RemoveAtQueue

\* the same of the packet at its head
LEMMA HeadLeft ==
  ASSUME NEW line \in Seq(Packets), line # <<>>, IsInjective(line)
  PROVE  /\ Tail(line) \in Seq(Packets)
         /\ ToSet(Tail(line)) = ToSet(line) \ {Head(line)}
         /\ IsInjective(Tail(line))
<1>1. 1 \in DOMAIN line /\ line[1] = Head(line) /\ RemoveAt(line, 1) = Tail(line)
  BY QueueHead
<1>. QED
  BY <1>1, Left


\* a move between stages that have no line
LEMMA LinesKept ==
  ASSUME FlowTypes, LineInv, NEW p \in Packets, NEW here, NEW there, Move(p, here, there),
         {here, there} \cap {"receipt", "command", "frame"} = {}, UNCHANGED lines
  PROVE  LineInv'
<1>1. At({"receipt"})' = At({"receipt"}) /\ At({"command"})' = At({"command"})
      /\ At({"frame"})' = At({"frame"})
  BY Moved DEF At
<1>. QED
  BY <1>1 DEF LineInv, lines

\* a line is what is at its stage, whoever joins it or leaves it
LEMMA LineStep ==
  ASSUME FlowTypes, LineInv, NEW p \in Packets, PacketStep(p)
  PROVE  LineInv'
<1>1. ASSUME NEW x, Receive(p, x) PROVE LineInv'
  <2>1. Move(p, "idle", "receipt") /\ iLine' = Append(iLine, p) /\ UNCHANGED <<hLine, pLine>>
    BY <1>1 DEF Receive
  <2>2. At({"receipt"})' = At({"receipt"}) \cup {p} /\ At({"command"})' = At({"command"})
        /\ At({"frame"})' = At({"frame"}) /\ p \notin At({"receipt"})
    BY <2>1, Moved DEF At
  <2>. QED
    BY <2>1, <2>2, Joined DEF LineInv
<1>2. ASSUME StartReceipt(p) PROVE LineInv'
  <2>1. /\ Move(p, "receipt", "dispatch") /\ iLine # <<>> /\ Head(iLine) = p
        /\ iLine' = Tail(iLine) /\ UNCHANGED <<hLine, pLine>>
    BY <1>2 DEF StartReceipt
  <2>2. At({"receipt"})' = At({"receipt"}) \ {p} /\ At({"command"})' = At({"command"})
        /\ At({"frame"})' = At({"frame"})
    BY <2>1, Moved DEF At
  <2>. QED
    BY <2>1, <2>2, HeadLeft DEF LineInv
<1>3. ASSUME QueueCommand(p) PROVE LineInv'
  <2>1. Move(p, "admitted", "command") /\ hLine' = Append(hLine, p) /\ UNCHANGED <<iLine, pLine>>
    BY <1>3 DEF QueueCommand
  <2>2. At({"command"})' = At({"command"}) \cup {p} /\ At({"receipt"})' = At({"receipt"})
        /\ At({"frame"})' = At({"frame"}) /\ p \notin At({"command"})
    BY <2>1, Moved DEF At
  <2>. QED
    BY <2>1, <2>2, Joined DEF LineInv
<1>4. ASSUME StartHandler(p) PROVE LineInv'
  <2>1. PICK i \in DOMAIN hLine : hLine[i] = p /\ hLine' = RemoveAt(hLine, i)
    BY <1>4 DEF StartHandler
  <2>2. Move(p, "command", "handler") /\ UNCHANGED <<iLine, pLine>>
    BY <1>4 DEF StartHandler
  <2>3. At({"command"})' = At({"command"}) \ {p} /\ At({"receipt"})' = At({"receipt"})
        /\ At({"frame"})' = At({"frame"})
    BY <2>2, Moved DEF At
  <2>. QED
    BY <2>1, <2>2, <2>3, Left DEF LineInv
<1>5. ASSUME QueueFrame(p) PROVE LineInv'
  <2>1. Move(p, "pushing", "frame") /\ pLine' = Append(pLine, p) /\ UNCHANGED <<iLine, hLine>>
    BY <1>5 DEF QueueFrame
  <2>2. At({"frame"})' = At({"frame"}) \cup {p} /\ At({"receipt"})' = At({"receipt"})
        /\ At({"command"})' = At({"command"}) /\ p \notin At({"frame"})
    BY <2>1, Moved DEF At
  <2>. QED
    BY <2>1, <2>2, Joined DEF LineInv
<1>6. ASSUME StartSend(p) PROVE LineInv'
  <2>1. /\ Move(p, "frame", "popped") /\ pLine # <<>> /\ Head(pLine) = p
        /\ pLine' = Tail(pLine) /\ UNCHANGED <<iLine, hLine>>
    BY <1>6 DEF StartSend
  <2>2. At({"frame"})' = At({"frame"}) \ {p} /\ At({"receipt"})' = At({"receipt"})
        /\ At({"command"})' = At({"command"})
    BY <2>1, Moved DEF At
  <2>. QED
    BY <2>1, <2>2, HeadLeft DEF LineInv
<1>7. ASSUME AdmitCommand(p) PROVE LineInv'
  BY <1>7, LinesKept DEF AdmitCommand, Step
<1>8. ASSUME Step(p, "handler", "pushing") PROVE LineInv'
  BY <1>8, LinesKept DEF Step
<1>9. ASSUME NEW h \in {"dispatch", "handler", "popped"}, NEW t \in Ends, Drop(p, h, t) PROVE LineInv'
  BY <1>9, LinesKept DEF Drop, Ends
<1>10. ASSUME NEW e, Stamp(p, e) PROVE LineInv'
  BY <1>10, LinesKept DEF Stamp
<1>11. ASSUME Write(p) PROVE LineInv'
  BY <1>11, LinesKept DEF Write
<1>12. ASSUME EndSend(p) PROVE LineInv'
  BY <1>12, LinesKept DEF EndSend
<1>. QED
  BY <1>1, <1>2, <1>3, <1>4, <1>5, <1>6, <1>7, <1>8, <1>9, <1>10, <1>11, <1>12 DEF PacketStep, Ends

-----------------------------------------------------------------------------
(* The packets: what is sent, to whom, and in which order. *)

\* the parts of FlowInv that are about what Push stamped
SentInv == OneSend /\ Addressed /\ Stamped /\ Overtaken /\ WireInTsOrder

\* a packet that is on a wire
Written == {p \in Packets : \E c \in Conns : p \in ToSet(wire[c])}

\* what is on a wire was stamped, and its send has begun
LEMMA WireFacts ==
  ASSUME FlowInv
  PROVE  /\ \A c \in Conns : Len(wire[c]) \in Nat /\ DOMAIN wire[c] = 1..Len(wire[c])
         /\ \A c \in Conns : \A i \in 1..Len(wire[c]) : wire[c][i] \in ToSet(wire[c])
         /\ \A c \in Conns : ToSet(wire[c]) \subseteq Written
         /\ \A p \in Written : ts[p] > 0 /\ stage[p] \in {"sending", "over"}
<1>1. \A c \in Conns : Len(wire[c]) \in Nat /\ DOMAIN wire[c] = 1..Len(wire[c])
        /\ ToSet(wire[c]) \subseteq Packets
  BY ElementAt DEF FlowInv, FlowTypes, ToSet
<1>. QED
  BY <1>1 DEF ToSet, Written, FlowInv, Addressed

\* a packet that Push has not stamped moves on
LEMMA CalmStep ==
  ASSUME RegInv, FlowInv, NEW p \in Packets, ts[p] = 0,
         NEW here, NEW there, Move(p, here, there), there # "sending",
         UNCHANGED <<conns, ts, wire, near, pLine>>,
         \A q \in Packets \ {p} : from'[q] = from[q] /\ entry'[q] = entry[q],
         entry'[p] \in {entry[p], Nobody},
         from'[p] \in Registered \cup Addrs \/ (from'[p] = Nobody /\ there \in Ends)
  PROVE  SentInv'
<1>1. /\ stage[p] = here /\ stage'[p] = there /\ \A q \in Packets \ {p} : stage'[q] = stage[q]
  BY Moved DEF FlowInv
<1>2. /\ entry[p] = Nobody /\ entry'[p] = Nobody /\ p \notin Written
  BY WireFacts DEF FlowInv, Addressed
<1>3. Registered' = Registered /\ addr' = addr
  BY DEF conns, Registered
<1>4. OneSend'
  BY <1>1 DEF FlowInv, OneSend, At
<1>5. Addressed'
  <2>1. \A q \in Packets : from'[q] \in Registered' \cup Addrs
                          \/ (from'[q] = Nobody /\ stage'[q] \in {"idle"} \cup Ends)
    BY <1>1, <1>3 DEF FlowInv, Addressed
  <2>2. \A q \in Packets \ {p}, c \in Conns : NotLater(q, c) => NotLater(q, c)'
    BY <1>3 DEF NotLater
  <2>3. \A q \in Packets : entry'[q] # Nobody =>
          entry'[q] \in Registered' /\ ts'[q] > 0 /\ NotLater(q, entry[q])'
    BY <1>1, <1>2, <1>3, <2>2 DEF FlowInv, Addressed, Registered
  <2>4. ASSUME NEW c \in Conns, NEW q \in ToSet(wire[c])
        PROVE  c \in Registered' /\ ts'[q] > 0 /\ NotLater(q, c)' /\ stage'[q] \in {"sending", "over"}
    <3>1. q \in Packets \ {p}
      BY <1>2, <2>4, WireFacts DEF Written
    <3>. QED
      BY <1>1, <1>3, <2>2, <2>4, <3>1 DEF FlowInv, Addressed
  <2>5. \A c \in Conns : IsInjective(wire'[c])
    BY DEF FlowInv, Addressed
  <2>. QED
    BY <2>1, <2>3, <2>4, <2>5 DEF Addressed
<1>6. Stamped'
  BY <1>1 DEF FlowInv, Stamped, Stamps
<1>7. Overtaken'
  <2>. SUFFICES ASSUME NEW a \in Packets, NEW b \in Packets,
                       0 < ts[a], ts[a] < ts[b], {a, b} \notin near
                PROVE  Ahead(a, b)'
    BY DEF Overtaken
  <2>1. ts[a] \in Nat /\ ts[b] \in Nat /\ a # p /\ b # p
    BY FS_CardinalityType, FlowAssumption DEF FlowInv, FlowTypes
  <2>. QED
    BY <1>1, <2>1 DEF FlowInv, Overtaken, Ahead
<1>8. WireInTsOrder'
  BY DEF FlowInv, WireInTsOrder
<1>. QED
  BY <1>4, <1>5, <1>6, <1>7, <1>8 DEF SentInv

\* Push stamps it, with the highest Ts so far
LEMMA StampStep ==
  ASSUME RegInv, FlowInv, NEW p \in Packets, NEW e \in Registered, Stamp(p, e), NotLater(p, e)
  PROVE  SentInv'
<1>1. /\ stage[p] = "handler" /\ stage'[p] = "pushing" /\ \A q \in Packets \ {p} : stage'[q] = stage[q]
  BY Moved DEF FlowInv, Stamp
<1>2. /\ ts[p] = 0 /\ ts' = [ts EXCEPT ![p] = Stamps + 1] /\ entry' = [entry EXCEPT ![p] = e]
      /\ near' = near \cup {{p, q} : q \in At({"pushing"})}
      /\ UNCHANGED <<conns, from, pLine, wire>>
  BY <1>1 DEF Stamp, FlowInv, Stamped, lines
<1>3. /\ ts'[p] = Stamps + 1 /\ \A q \in Packets \ {p} : ts'[q] = ts[q] /\ entry'[q] = entry[q]
      /\ entry'[p] = e
      /\ Stamps \in Nat /\ Stamps' = Stamps + 1 /\ \A q \in Packets : ts[q] \in Nat /\ ts[q] <= Stamps
  <2>1. Stamps \in Nat /\ Cardinality(Packets) \in Nat /\ Stamps' = Stamps + 1
    <3>1. FlowTypes /\ ts[p] = 0 /\ ts' = [ts EXCEPT ![p] = Stamps + 1]
      BY <1>2 DEF FlowInv
    <3>2. Stamps \in 0..Cardinality(Packets) /\ Cardinality(Packets) \in Nat /\ Stamps' = Stamps + 1
      BY <3>1, StampCount
    <3>. QED
      BY <3>2
  <2>. QED
    BY <1>2, <2>1 DEF FlowInv, FlowTypes, Stamped
<1>4. Registered' = Registered /\ addr' = addr /\ Registered \subseteq Conns
  BY <1>2 DEF conns, Registered
<1>5. p \notin Written
  BY <1>2, WireFacts
<1>6. OneSend'
  BY <1>1, <1>3 DEF FlowInv, OneSend, At
<1>7. Addressed'
  <2>1. \A q \in Packets : from'[q] \in Registered' \cup Addrs
                          \/ (from'[q] = Nobody /\ stage'[q] \in {"idle"} \cup Ends)
    BY <1>1, <1>2, <1>4 DEF FlowInv, Addressed, Ends
  <2>2. \A q \in Packets, c \in Conns : NotLater(q, c) => NotLater(q, c)'
    BY <1>2, <1>4 DEF NotLater
  <2>3. ASSUME NEW q \in Packets, entry'[q] # Nobody
        PROVE  entry'[q] \in Registered' /\ ts'[q] > 0 /\ NotLater(q, entry[q])'
    <3>1. CASE q = p
      <4>1. NotLater(p, entry[p])'
        BY <1>2, <1>3, <1>4 DEF NotLater
      <4>. QED
        BY <1>3, <1>4, <3>1, <4>1
    <3>2. CASE q # p
      BY <1>3, <1>4, <2>2, <2>3, <3>2 DEF FlowInv, Addressed, NotLater
    <3>. QED
      BY <3>1, <3>2
  <2>4. ASSUME NEW c \in Conns, NEW q \in ToSet(wire[c])
        PROVE  c \in Registered' /\ ts'[q] > 0 /\ NotLater(q, c)' /\ stage'[q] \in {"sending", "over"}
    <3>1. q \in Packets \ {p}
      BY <1>5, <2>4, WireFacts DEF Written
    <3>. QED
      BY <1>1, <1>3, <1>4, <2>2, <2>4, <3>1 DEF FlowInv, Addressed
  <2>5. \A c \in Conns : IsInjective(wire'[c])
    BY <1>2 DEF FlowInv, Addressed
  <2>. QED
    BY <1>2, <2>1, <2>3, <2>4, <2>5 DEF Addressed
<1>8. Stamped'
  BY <1>1, <1>3 DEF FlowInv, Stamped
<1>9. Overtaken'
  <2>. SUFFICES ASSUME NEW a \in Packets, NEW b \in Packets,
                       0 < ts'[a], ts'[a] < ts'[b], {a, b} \notin near'
                PROVE  Ahead(a, b)'
    BY DEF Overtaken
  <2>1. a # p
    BY <1>3
  <2>2. CASE b = p
    <3>1. stage[a] \in {"pushing", "frame", "popped", "sending", "over"}
      BY <1>3, <2>1 DEF FlowInv, Stamped
    <3>2. stage[a] # "pushing"
      BY <1>2, <2>2 DEF At
    <3>. QED
      BY <1>1, <2>1, <2>2, <3>1, <3>2 DEF Ahead
  <2>3. CASE b # p
    BY <1>1, <1>2, <1>3, <2>1, <2>3 DEF FlowInv, Overtaken, Ahead
  <2>. QED
    BY <2>2, <2>3
<1>10. WireInTsOrder'
  <2>. SUFFICES ASSUME NEW c \in Conns, NEW i \in DOMAIN wire[c], NEW j \in DOMAIN wire[c],
                       i < j, ts'[wire[c][i]] > ts'[wire[c][j]]
                PROVE  {wire[c][i], wire[c][j]} \in near'
    BY <1>2 DEF WireInTsOrder
  <2>1. wire[c][i] \in Packets \ {p} /\ wire[c][j] \in Packets \ {p}
    BY <1>5, WireFacts DEF Written
  <2>2. {wire[c][i], wire[c][j]} \in near
    BY <1>3, <2>1 DEF FlowInv, WireInTsOrder
  <2>. QED
    BY <1>2, <2>2
<1>. QED
  BY <1>6, <1>7, <1>8, <1>9, <1>10 DEF SentInv

\* a stamped packet goes on towards the wire, and is written
LEMMA OnwardAddressed ==
  ASSUME RegInv, FlowInv, NEW p \in Packets,
         stage[p] \in {"pushing", "frame", "popped", "sending"},
         NEW there \in {"frame", "popped", "sending", "over"},
         stage' = [stage EXCEPT ![p] = there],
         UNCHANGED <<conns, ts>>, stage[p] = "sending" => there = "over",
         \A q \in Packets \ {p} : from'[q] = from[q] /\ entry'[q] = entry[q],
         from'[p] = from[p] \/ (from'[p] = Nobody /\ there = "over"),
         entry'[p] \in {entry[p], Nobody},
         \/ wire' = wire
         \/ /\ there = "sending" /\ stage[p] = "popped" /\ entry[p] # Nobody /\ entry' = entry
            /\ wire' = [wire EXCEPT ![entry[p]] = Append(wire[entry[p]], p)]
            /\ from'[p] = from[p]
  PROVE  Addressed' /\ Stamped'
<1>1. stage'[p] = there /\ \A q \in Packets \ {p} : stage'[q] = stage[q]
  BY DEF FlowInv, FlowTypes
<1>2. Registered' = Registered /\ addr' = addr /\ Registered \subseteq Conns
  BY DEF conns, Registered
<1>3. \A q \in Packets : from'[q] \in Registered' \cup Addrs
                        \/ (from'[q] = Nobody /\ stage'[q] \in {"idle"} \cup Ends)
  BY <1>1, <1>2 DEF FlowInv, Addressed, Ends
<1>4. \A q \in Packets, c \in Conns : NotLater(q, c) => NotLater(q, c)'
  BY <1>2, FlowAssumption DEF NotLater
<1>5. ASSUME NEW q \in Packets, entry'[q] # Nobody
      PROVE  entry'[q] \in Registered' /\ ts'[q] > 0 /\ NotLater(q, entry[q])'
  <2>1. entry'[q] = entry[q]
    BY <1>5
  <2>. QED
    BY <1>2, <1>4, <1>5, <2>1 DEF FlowInv, Addressed, NotLater
<1>6. \A c \in Conns : \A q \in ToSet(wire[c]) :
        c \in Registered' /\ ts'[q] > 0 /\ NotLater(q, c)' /\ stage'[q] \in {"sending", "over"}
  <2>. SUFFICES ASSUME NEW c \in Conns, NEW q \in ToSet(wire[c])
                PROVE  c \in Registered' /\ ts'[q] > 0 /\ NotLater(q, c)' /\ stage'[q] \in {"sending", "over"}
    OBVIOUS
  <2>1. q \in Packets /\ stage[q] \in {"sending", "over"}
    BY WireFacts DEF Written
  <2>. QED
    BY <1>1, <1>2, <1>4, <2>1 DEF FlowInv, Addressed
<1>7. Stamped'
  BY <1>1 DEF FlowInv, Stamped, Stamps
<1>8. CASE wire' = wire
  <2>1. \A c \in Conns : IsInjective(wire'[c])
    BY <1>8 DEF FlowInv, Addressed
  <2>. QED
    BY <1>3, <1>5, <1>6, <1>7, <1>8, <2>1 DEF Addressed
<1>9. CASE /\ there = "sending" /\ stage[p] = "popped" /\ entry[p] # Nobody /\ entry' = entry
           /\ wire' = [wire EXCEPT ![entry[p]] = Append(wire[entry[p]], p)]
           /\ from'[p] = from[p]
  <2>0. PICK c \in Conns : c = entry[p]
    BY <1>2, <1>9 DEF FlowInv, Addressed
  <2>1. c \in Registered /\ ts[p] > 0 /\ NotLater(p, c)
    BY <1>9, <2>0 DEF FlowInv, Addressed
  <2>2. wire[c] \in Seq(Packets) /\ IsInjective(wire[c]) /\ p \notin ToSet(wire[c])
    BY <1>9, WireFacts DEF FlowInv, FlowTypes, Addressed
  <2>3. /\ wire'[c] = Append(wire[c], p) /\ ToSet(wire'[c]) = ToSet(wire[c]) \cup {p}
        /\ IsInjective(wire'[c]) /\ \A d \in Conns \ {c} : wire'[d] = wire[d]
    <3>1. wire'[c] = Append(wire[c], p) /\ \A d \in Conns \ {c} : wire'[d] = wire[d]
      BY <1>9, <2>0 DEF FlowInv, FlowTypes
    <3>. QED
      BY <2>2, <3>1, Joined
  <2>4. NotLater(p, c)' /\ c \in Registered' /\ ts'[p] > 0 /\ stage'[p] = "sending"
    BY <1>1, <1>2, <1>4, <1>9, <2>1
  <2>5. ASSUME NEW d \in Conns, NEW q \in ToSet(wire'[d])
        PROVE  d \in Registered' /\ ts'[q] > 0 /\ NotLater(q, d)' /\ stage'[q] \in {"sending", "over"}
    BY <1>6, <2>3, <2>4, <2>5
  <2>6. \A d \in Conns : IsInjective(wire'[d])
    BY <2>3 DEF FlowInv, Addressed
  <2>. QED
    BY <1>3, <1>5, <1>7, <2>5, <2>6 DEF Addressed
<1>. QED
  BY <1>8, <1>9

\* what the remaining steps have in common
LEMMA OneSendStep ==
  ASSUME FlowInv, NEW p \in Packets, QueueFrame(p) \/ StartSend(p) \/ Write(p)
                                       \/ Drop(p, "popped", "over") \/ EndSend(p)
  PROVE  OneSend'
<1>1. CASE QueueFrame(p) \/ StartSend(p) \/ Drop(p, "popped", "over") \/ EndSend(p)
  <2>1. \A q \in At({"sending"})' : q # p /\ stage[q] = "sending" /\ entry'[q] = entry[q]
    BY <1>1 DEF QueueFrame, StartSend, Drop, EndSend, Move, At, FlowInv, FlowTypes, frames
  <2>. QED
    BY <2>1 DEF FlowInv, OneSend, At
<1>2. CASE Write(p)
  <2>1. /\ ~Held(entry[p]) /\ entry' = entry
        /\ \A q \in At({"sending"})' : q # p => q \in At({"sending"})
    BY <1>2 DEF Write, Move, At, FlowInv, FlowTypes
  <2>. QED
    BY <2>1 DEF FlowInv, OneSend, Held, At
<1>. QED
  BY <1>1, <1>2

\* from Push to the end of the send a packet keeps to the client it was looked up for
LEMMA AddressedStep ==
  ASSUME RegInv, FlowInv, NEW p \in Packets, QueueFrame(p) \/ StartSend(p) \/ Write(p)
                                               \/ Drop(p, "popped", "over") \/ EndSend(p)
  PROVE  Addressed' /\ Stamped'
<1>. USE DEF FlowInv, FlowTypes, Move
<1>1. CASE QueueFrame(p)
  BY <1>1, OnwardAddressed DEF QueueFrame, frames
<1>2. CASE StartSend(p)
  BY <1>2, OnwardAddressed DEF StartSend
<1>3. CASE Write(p)
  BY <1>3, OnwardAddressed DEF Write
<1>4. CASE Drop(p, "popped", "over")
  BY <1>4, OnwardAddressed DEF Drop
<1>5. CASE EndSend(p)
  BY <1>5, OnwardAddressed DEF EndSend
<1>. QED
  BY <1>1, <1>2, <1>3, <1>4, <1>5

\* what was stamped is somewhere between Push and its end
LEMMA Places ==
  ASSUME FlowInv, NEW a \in Packets, NEW b \in Packets,
         0 < ts[a], ts[a] < ts[b], {a, b} \notin near
  PROVE  /\ a # b /\ Ahead(a, b)
         /\ stage[a] \in {"pushing", "frame", "popped", "sending", "over"}
         /\ stage[b] \in {"pushing", "frame", "popped", "sending", "over"}
<1>1. ts[a] \in Nat /\ ts[b] \in Nat
  BY FS_CardinalityType, FlowAssumption DEF FlowInv, FlowTypes
<1>. QED
  BY <1>1 DEF FlowInv, Overtaken, Stamped

\* pPool's queue holds each frame once, at the frame's stage
LEMMA InPLine ==
  ASSUME FlowInv
  PROVE  /\ pLine \in Seq(Packets) /\ Len(pLine) \in Nat
         /\ \A i \in 1..Len(pLine) : pLine[i] \in Packets /\ stage[pLine[i]] = "frame"
         /\ \A i, j \in 1..Len(pLine) : pLine[i] = pLine[j] => i = j
         /\ \A p \in Packets : stage[p] = "frame" => \E i \in 1..Len(pLine) : pLine[i] = p
<1>1. pLine \in Seq(Packets) /\ ToSet(pLine) = At({"frame"}) /\ IsInjective(pLine)
  BY DEF FlowInv, LineInv
<1>2. Len(pLine) \in Nat /\ DOMAIN pLine = 1..Len(pLine)
  BY <1>1, ElementAt
<1>. QED
  BY <1>1, <1>2 DEF ToSet, At, IsInjective

\* from Push to the end of the send the order of the stamps is kept, but for near ones
LEMMA OvertakenStep ==
  ASSUME FlowInv, NEW p \in Packets, QueueFrame(p) \/ StartSend(p) \/ Write(p)
                                       \/ Drop(p, "popped", "over") \/ EndSend(p)
  PROVE  Overtaken'
<1>0. ts' = ts /\ near \subseteq near'
  BY DEF QueueFrame, StartSend, Write, Drop, EndSend, frames
<1>. SUFFICES ASSUME NEW a \in Packets, NEW b \in Packets,
                     0 < ts[a], ts[a] < ts[b], {a, b} \notin near'
              PROVE  Ahead(a, b)'
  BY <1>0 DEF Overtaken
<1>1. /\ a # b /\ Ahead(a, b) /\ {a, b} \notin near
      /\ stage[a] \in {"pushing", "frame", "popped", "sending", "over"}
      /\ stage[b] \in {"pushing", "frame", "popped", "sending", "over"}
  BY <1>0, Places
<1>2. CASE QueueFrame(p)
  <2>1. /\ stage[p] = "pushing" /\ stage'[p] = "frame" /\ \A q \in Packets \ {p} : stage'[q] = stage[q]
        /\ pLine' = Append(pLine, p)
    BY <1>2, Moved DEF QueueFrame, FlowInv
  <2>2. /\ Len(pLine) \in Nat /\ Len(pLine') = Len(pLine) + 1 /\ pLine'[Len(pLine) + 1] = p
        /\ \A i \in 1..Len(pLine) : pLine'[i] = pLine[i]
    BY <2>1, InPLine, AppendAt
  <2>3. a # p
    BY <1>1, <2>1, InPLine DEF Ahead
  <2>4. CASE b = p
    <3>1. stage[a] \in {"frame", "popped", "sending", "over"}
      BY <1>1, <2>1, <2>4 DEF Ahead
    <3>2. CASE stage[a] = "frame"
      <4>1. PICK i \in 1..Len(pLine) : pLine[i] = a
        BY <3>2, InPLine
      <4>2. /\ i \in 1..Len(pLine') /\ Len(pLine) + 1 \in 1..Len(pLine') /\ i < Len(pLine) + 1
            /\ pLine'[i] = a /\ pLine'[Len(pLine) + 1] = b
        BY <2>2, <2>4, <4>1
      <4>. QED
        BY <2>1, <2>4, <4>2 DEF Ahead
    <3>. QED
      BY <2>1, <2>3, <2>4, <3>1, <3>2 DEF Ahead
  <2>5. CASE b # p
    <3>1. CASE \E i, j \in 1..Len(pLine) : i < j /\ pLine[i] = a /\ pLine[j] = b
      <4>1. \E i, j \in 1..Len(pLine') : i < j /\ pLine'[i] = a /\ pLine'[j] = b
        BY <2>2, <3>1
      <4>2. stage[b] = "frame"
        BY <3>1, InPLine
      <4>. QED
        BY <2>1, <2>5, <4>1, <4>2 DEF Ahead
    <3>2. CASE ~\E i, j \in 1..Len(pLine) : i < j /\ pLine[i] = a /\ pLine[j] = b
      BY <1>1, <2>1, <2>3, <2>5, <3>2 DEF Ahead
    <3>. QED
      BY <3>1, <3>2
  <2>. QED
    BY <2>4, <2>5
<1>3. CASE StartSend(p)
  <2>1. /\ stage[p] = "frame" /\ stage'[p] = "popped" /\ \A q \in Packets \ {p} : stage'[q] = stage[q]
        /\ pLine # <<>> /\ Head(pLine) = p /\ pLine' = Tail(pLine)
        /\ near' = near \cup {{p, q} : q \in At(InSend)}
    BY <1>3, Moved DEF StartSend, FlowInv
  <2>2. /\ Len(pLine) \in Nat \ {0} /\ Len(pLine') = Len(pLine) - 1 /\ pLine[1] = p
        /\ \A i \in 1..(Len(pLine) - 1) : pLine'[i] = pLine[i + 1]
    BY <2>1, InPLine, TailAt
  <2>3. CASE b = p
    <3>1. ~\E i, j \in 1..Len(pLine) : i < j /\ pLine[i] = a /\ pLine[j] = b
      <4>. SUFFICES ASSUME NEW i \in 1..Len(pLine), NEW j \in 1..Len(pLine), i < j, pLine[j] = p
                    PROVE  FALSE
        BY <2>3
      <4>1. j = 1
        BY <2>2, InPLine
      <4>. QED
        BY <2>2, <4>1
    <3>2. stage[a] \in {"popped", "sending", "over"}
      BY <1>1, <2>1, <2>3, <3>1 DEF Ahead
    <3>3. stage[a] \notin InSend
      BY <2>1, <2>3 DEF At
    <3>. QED
      BY <1>1, <2>1, <2>3, <3>2, <3>3 DEF Ahead, InSend
  <2>4. CASE b # p /\ a = p
    BY <1>1, <2>1, <2>4 DEF Ahead
  <2>5. CASE b # p /\ a # p
    <3>1. ASSUME NEW i \in 1..Len(pLine), NEW j \in 1..Len(pLine), i < j, pLine[i] = a, pLine[j] = b
          PROVE  Ahead(a, b)'
      <4>1. i # 1
        BY <2>2, <2>5, <3>1
      <4>2. /\ i - 1 \in 1..Len(pLine') /\ j - 1 \in 1..Len(pLine') /\ i - 1 < j - 1
            /\ i - 1 \in 1..(Len(pLine) - 1) /\ j - 1 \in 1..(Len(pLine) - 1)
            /\ (i - 1) + 1 = i /\ (j - 1) + 1 = j
        BY <2>2, <3>1, <4>1
      <4>3. pLine'[i - 1] = a /\ pLine'[j - 1] = b
        BY <2>2, <3>1, <4>2
      <4>4. stage'[b] = "frame"
        BY <2>1, <2>5, <3>1, InPLine
      <4>. QED
        BY <4>2, <4>3, <4>4 DEF Ahead
    <3>2. CASE ~\E i, j \in 1..Len(pLine) : i < j /\ pLine[i] = a /\ pLine[j] = b
      BY <1>1, <2>1, <2>5, <3>2 DEF Ahead
    <3>. QED
      BY <3>1, <3>2
  <2>. QED
    BY <2>3, <2>4, <2>5
<1>4. CASE Write(p)
  <2>1. /\ stage[p] = "popped" /\ stage'[p] = "sending" /\ \A q \in Packets \ {p} : stage'[q] = stage[q]
        /\ pLine' = pLine
    BY <1>4, Moved DEF Write, FlowInv, lines
  <2>. QED
    BY <1>1, <2>1 DEF Ahead
<1>5. CASE Drop(p, "popped", "over") \/ EndSend(p)
  <2>1. /\ stage[p] \in InSend /\ stage'[p] = "over" /\ \A q \in Packets \ {p} : stage'[q] = stage[q]
        /\ pLine' = pLine
    BY <1>5, Moved DEF Drop, EndSend, FlowInv, lines, InSend
  <2>. QED
    BY <1>1, <2>1 DEF Ahead, InSend
<1>. QED
  BY <1>2, <1>3, <1>4, <1>5

\* a frame is written behind all that was written, some of which it was near once
LEMMA WireStep ==
  ASSUME FlowInv, NEW p \in Packets, QueueFrame(p) \/ StartSend(p) \/ Write(p)
                                       \/ Drop(p, "popped", "over") \/ EndSend(p)
  PROVE  WireInTsOrder'
<1>0. ts' = ts /\ near \subseteq near'
  BY DEF QueueFrame, StartSend, Write, Drop, EndSend, frames
<1>1. CASE QueueFrame(p) \/ StartSend(p) \/ Drop(p, "popped", "over") \/ EndSend(p)
  <2>1. wire' = wire
    BY <1>1 DEF QueueFrame, StartSend, Drop, EndSend, frames
  <2>. QED
    BY <1>0, <2>1 DEF FlowInv, WireInTsOrder
<1>2. CASE Write(p)
  <2>0. PICK c \in Conns : c = entry[p]
    BY <1>2 DEF Write, FlowInv, FlowTypes
  <2>1. /\ stage[p] = "popped" /\ ts[p] > 0 /\ wire'[c] = Append(wire[c], p)
        /\ \A d \in Conns \ {c} : wire'[d] = wire[d]
    BY <1>2, <2>0, FlowAssumption DEF Write, Move, FlowInv, FlowTypes, Addressed
  <2>2. wire[c] \in Seq(Packets) /\ \A q \in Packets : ts[q] \in Nat
    BY FS_CardinalityType, FlowAssumption DEF FlowInv, FlowTypes
  <2>3. /\ Len(wire[c]) \in Nat /\ Len(wire'[c]) = Len(wire[c]) + 1 /\ wire'[c][Len(wire[c]) + 1] = p
        /\ \A i \in 1..Len(wire[c]) : wire'[c][i] = wire[c][i]
        /\ DOMAIN wire'[c] = 1..(Len(wire[c]) + 1) /\ DOMAIN wire[c] = 1..Len(wire[c])
    <3>1. ASSUME NEW w \in Seq(Packets), NEW v, v = Append(w, p)
          PROVE  /\ Len(w) \in Nat /\ Len(v) = Len(w) + 1 /\ v[Len(w) + 1] = p
                 /\ \A i \in 1..Len(w) : v[i] = w[i]
                 /\ DOMAIN v = 1..(Len(w) + 1) /\ DOMAIN w = 1..Len(w)
      BY <3>1, AppendAt, ElementAt
    <3>2. wire[c] \in Seq(Packets) /\ wire'[c] = Append(wire[c], p)
      BY <2>1, <2>2
    <3>. QED
      BY <3>1, <3>2
  <2>4. ASSUME NEW i \in 1..Len(wire[c]), ts[wire[c][i]] > ts[p]
        PROVE  {wire[c][i], p} \in near
    <3>1. wire[c][i] \in Packets /\ stage[wire[c][i]] \in {"sending", "over"}
      BY WireFacts DEF Written
    <3>2. ~Ahead(p, wire[c][i])
      BY <2>1, <3>1, InPLine DEF Ahead
    <3>3. {p, wire[c][i]} \in near
      BY <2>1, <2>2, <2>4, <3>1, <3>2 DEF FlowInv, Overtaken
    <3>. QED
      BY <3>3
  <2>5. ASSUME NEW i \in DOMAIN wire'[c], NEW j \in DOMAIN wire'[c],
               i < j, ts[wire'[c][i]] > ts[wire'[c][j]]
        PROVE  {wire'[c][i], wire'[c][j]} \in near
    <3>1. i \in 1..Len(wire[c]) /\ wire'[c][i] = wire[c][i]
      BY <2>3, <2>5
    <3>2. CASE j = Len(wire[c]) + 1
      BY <2>3, <2>4, <2>5, <3>1, <3>2
    <3>3. CASE j \in 1..Len(wire[c])
      BY <2>3, <2>5, <3>1, <3>3 DEF FlowInv, WireInTsOrder
    <3>. QED
      BY <2>3, <3>2, <3>3
  <2>6. ASSUME NEW d \in Conns, NEW i \in DOMAIN wire'[d], NEW j \in DOMAIN wire'[d],
               i < j, ts[wire'[d][i]] > ts[wire'[d][j]]
        PROVE  {wire'[d][i], wire'[d][j]} \in near
    <3>1. CASE d = c
      BY <2>5, <2>6, <3>1
    <3>2. CASE d # c
      BY <2>1, <2>6, <3>2 DEF FlowInv, WireInTsOrder
    <3>. QED
      BY <3>1, <3>2
  <2>. QED
    BY <1>0, <2>6 DEF WireInTsOrder
<1>. QED
  BY <1>1, <1>2

\* a step of a packet breaks nothing, and leaves the registry alone
LEMMA PacketKeeps ==
  ASSUME CFInv, NEW p \in Packets, PacketStep(p)
  PROVE  CFInv'
<1>1. UNCHANGED conns
  BY DEF PacketStep, Receive, StartReceipt, AdmitCommand, QueueCommand, StartHandler, Drop, Step,
         Stamp, QueueFrame, StartSend, Write, EndSend
<1>2. RegInv'
  BY <1>1, RegistryStep DEF CFInv
<1>3. FlowTypes' /\ LineInv'
  BY TypesStep, LineStep DEF CFInv, FlowInv
<1>4. SentInv'
  <2>. USE DEF CFInv
  <2>1. stage[p] \in {"idle", "receipt", "dispatch", "admitted", "command", "handler"} => ts[p] = 0
    BY DEF FlowInv, Stamped
  <2>2. from[p] \in Registered \cup Addrs \/ stage[p] \in {"idle"} \cup Ends
    BY DEF FlowInv, Addressed
  <2>3. ASSUME NEW x \in Registered \cup Addrs, Receive(p, x) PROVE SentInv'
    <3>1. /\ ts[p] = 0 /\ Move(p, "idle", "receipt") /\ UNCHANGED <<conns, ts, wire, near, pLine>>
          /\ entry' = entry
      BY <2>1, <2>3 DEF Receive, Move, frames
    <3>2. from'[p] = x /\ \A q \in Packets \ {p} : from'[q] = from[q]
      BY <2>3 DEF Receive, FlowInv, FlowTypes
    <3>. QED
      BY <2>3, <3>1, <3>2, CalmStep
  <2>4. CASE StartReceipt(p)
    <3>1. /\ ts[p] = 0 /\ Move(p, "receipt", "dispatch") /\ UNCHANGED <<conns, ts, wire, near, pLine>>
          /\ UNCHANGED <<entry, from>> /\ from[p] \in Registered \cup Addrs
      BY <2>1, <2>2, <2>4 DEF StartReceipt, Move, frames, Ends
    <3>. QED
      BY <3>1, CalmStep
  <2>5. CASE AdmitCommand(p)
    BY <2>1, <2>2, <2>5, CalmStep DEF AdmitCommand, Step, Move, frames, lines, Ends
  <2>6. CASE QueueCommand(p)
    BY <2>1, <2>2, <2>6, CalmStep DEF QueueCommand, Move, frames, Ends
  <2>7. CASE StartHandler(p)
    <3>1. /\ ts[p] = 0 /\ Move(p, "command", "handler") /\ UNCHANGED <<conns, ts, wire, near, pLine>>
          /\ UNCHANGED <<entry, from>> /\ from[p] \in Registered \cup Addrs
      BY <2>1, <2>2, <2>7 DEF StartHandler, Move, frames, Ends
    <3>. QED
      BY <3>1, CalmStep
  <2>8. ASSUME NEW h \in {"dispatch", "handler"}, NEW t \in Ends, Drop(p, h, t) PROVE SentInv'
    <3>1. /\ ts[p] = 0 /\ Move(p, h, t) /\ t # "sending" /\ UNCHANGED <<conns, ts, wire, near, pLine>>
      BY <2>1, <2>8 DEF Drop, Move, Ends, lines
    <3>2. /\ \A q \in Packets \ {p} : from'[q] = from[q] /\ entry'[q] = entry[q]
          /\ entry'[p] = Nobody /\ from'[p] = Nobody
      BY <2>8 DEF Drop, FlowInv, FlowTypes
    <3>. QED
      BY <3>1, <3>2, CalmStep
  <2>9. CASE Step(p, "handler", "pushing")
    BY <2>1, <2>2, <2>9, CalmStep DEF Step, Move, frames, lines, Ends
  <2>10. ASSUME NEW e \in Registered, Stamp(p, e), NotLater(p, e) PROVE SentInv'
    BY <2>10, StampStep
  <2>11. CASE QueueFrame(p) \/ StartSend(p) \/ Write(p) \/ Drop(p, "popped", "over") \/ EndSend(p)
    BY <2>11, OneSendStep, AddressedStep, OvertakenStep, WireStep DEF SentInv
  <2>. QED
    BY <2>3, <2>4, <2>5, <2>6, <2>7, <2>8, <2>9, <2>10, <2>11 DEF PacketStep, Ends
<1>. QED
  BY <1>2, <1>3, <1>4 DEF CFInv, FlowInv, SentInv

\* no step breaks the invariant
LEMMA Inductive ==
  ASSUME CFInv, [Next]_vars
  PROVE  CFInv'
<1>1. CASE ClientStep
  BY <1>1, RegistryStep, OutsideStep DEF ClientStep, CFInv, FlowInv, FlowTypes
<1>2. CASE Stop
  BY <1>2, RegistryStep, OutsideStep DEF Stop, CFInv
<1>3. CASE UNCHANGED vars
  BY <1>3, RegistryStep, OutsideStep DEF vars, CFInv, FlowInv, FlowTypes
<1>4. ASSUME NEW p \in Packets,
             Start(p) \/ Proceed(p) \/ (\E c \in Conns : ReadCommand(p, c))
               \/ (\E a \in Addrs : ReadDatagram(p, a))
      PROVE  CFInv'
  BY <1>4, Kinds, PacketKeeps DEF CFInv
<1>. QED
  BY <1>1, <1>2, <1>3, <1>4 DEF Next

-----------------------------------------------------------------------------
(***************************************************************************)
(* The inductive invariant holds for any packets, connections, addresses   *)
(* and numbers of workers.                                                 *)
(***************************************************************************)
THEOREM Invariant == Spec => []CFInv
<1>1. Init => CFInv
  BY InitRegInv, InitFlowInv DEF CFInv
<1>2. CFInv /\ [Next]_vars => CFInv'
  BY Inductive
<1>. QED
  BY <1>1, <1>2, PTL DEF Spec

(***************************************************************************)
(* Every packet is at one stage, in the queue of that stage once and in no *)
(* other, and no two sends hold the mutex of one entry.                    *)
(***************************************************************************)
THEOREM TypeCorrect == Spec => []TypeOK
<1>1. CFInv => TypeOK
  BY DEF CFInv, RegInv, FlowInv, FlowTypes, LineInv, OneSend, TypeOK
<1>. QED
  BY <1>1, Invariant, PTL

(***************************************************************************)
(* invocation.go:225-247.  No connection is closed twice and none that the *)
(* table still holds is closed, however many clients share an address.     *)
(***************************************************************************)
THEOREM ClosedOnceHolds == Spec => []ClosedOnce
<1>1. CFInv => ClosedOnce
  BY DEF CFInv, RegInv
<1>. QED
  BY <1>1, Invariant, PTL

(***************************************************************************)
(* registry.go:174-183, factory.go:81-104.  A result is written once, and  *)
(* never to another client of the address while the one that asked is      *)
(* there: the entry that Push finds is never older than the asking         *)
(* connection, and a younger one means that this one's client has left.    *)
(***************************************************************************)
THEOREM AnswersGoHomeHolds == Spec => []AnswersGoHome
<1>1. CFInv => AnswersGoHome
  <2>. SUFFICES ASSUME CFInv PROVE AnswersGoHome
    OBVIOUS
  <2>1. ASSUME NEW c \in Conns, NEW p \in ToSet(wire[c]), from[p] \in Conns \ {c}, Origin(p) = addr[c]
        PROVE  ~up[from[p]]
    <3>1. addr[from[p]] = addr[c]
      BY <2>1 DEF Origin
    <3>2. c \in Registered /\ NotLater(p, c)
      BY <2>1 DEF CFInv, FlowInv, Addressed
    <3>3. from[p] < c
      <4>1. from[p] <= c /\ from[p] # c
        BY <2>1, <3>1, <3>2 DEF NotLater
      <4>2. from[p] \in Nat /\ c \in Nat
        BY <2>1, FlowAssumption
      <4>. QED
        BY <4>1, <4>2
    <3>4. addr[c] # Nobody
      BY <3>2 DEF CFInv, RegInv, InOrder
    <3>. QED
      BY <2>1, <3>1, <3>3, <3>4 DEF CFInv, RegInv, OneClient
  <2>2. \A c \in Conns : IsInjective(wire[c])
    BY DEF CFInv, FlowInv, Addressed
  <2>. QED
    BY <2>1, <2>2 DEF AnswersGoHome
<1>. QED
  BY <1>1, Invariant, PTL

(***************************************************************************)
(* factory.go:89-103.  On a connection a frame overtakes one with a lower  *)
(* Ts only if the two were inside Push, or on workers of pPool, together.  *)
(***************************************************************************)
THEOREM WireOrderHolds == Spec => []WireInTsOrder
<1>1. CFInv => WireInTsOrder
  BY DEF CFInv, FlowInv
<1>. QED
  BY <1>1, Invariant, PTL

-----------------------------------------------------------------------------
(* The three pools that a packet passes, as TaskPromise has them. *)

\* the state of a task whose packet is at stage s
Kind(s, new, admitted, waiting, active) ==
  IF s \in new THEN "new"
  ELSE IF s \in admitted THEN "admitted"
  ELSE IF s \in waiting THEN "waiting"
  ELSE IF s \in active THEN "running"
  ELSE "done"

\* a packet that moves changes its task, or leaves all as they are
LEMMA TaskMoved ==
  ASSUME FlowTypes, NEW p \in Packets, NEW here, NEW there, Move(p, here, there),
         NEW n, NEW a, NEW w, NEW r
  PROVE  /\ TaskIn(n, a, w, r)[p] = Kind(here, n, a, w, r)
         /\ TaskIn(n, a, w, r)' = [TaskIn(n, a, w, r) EXCEPT ![p] = Kind(there, n, a, w, r)]
         /\ Kind(here, n, a, w, r) = Kind(there, n, a, w, r) =>
              TaskIn(n, a, w, r)' = TaskIn(n, a, w, r)
<1>1. /\ stage[p] = here /\ stage'[p] = there
      /\ \A q \in Packets \ {p} : stage'[q] = stage[q]
  BY Moved
<1>2. TaskIn(n, a, w, r) = [q \in Packets |-> Kind(stage[q], n, a, w, r)]
  BY DEF TaskIn, Kind
<1>3. TaskIn(n, a, w, r)' = [q \in Packets |-> Kind(stage'[q], n, a, w, r)]
  BY DEF TaskIn, Kind
<1>. QED
  BY <1>1, <1>2, <1>3

\* where no packet moves, no task of a pool does
LEMMA TasksKept ==
  ASSUME UNCHANGED stage, NEW n, NEW a, NEW w, NEW r
  PROVE  TaskIn(n, a, w, r)' = TaskIn(n, a, w, r)
BY DEF TaskIn

\* the tasks that run are the packets at the stages on a worker
LEMMA RunningTasks ==
  /\ ICore!In("running") = At(InReceipt)
  /\ Harmonic!In("running") = At(InHandler)
  /\ Protocol!In("running") = At(InSend)
BY DEF ICore!In, Harmonic!In, Protocol!In, TaskIn, At, Before, InReceipt, InHandler, InSend

\* the instances count, and take out of a line, as this module does
LEMMA SameCount ==
  ASSUME NEW S
  PROVE  /\ ICore!Cardinality(S) = Cardinality(S)
         /\ Harmonic!Cardinality(S) = Cardinality(S)
         /\ Protocol!Cardinality(S) = Cardinality(S)
<1>1. ICore!Cardinality(S) = Cardinality(S)
  BY Zenon DEF ICore!Cardinality, Cardinality
<1>2. Harmonic!Cardinality(S) = Cardinality(S)
  BY Zenon DEF Harmonic!Cardinality, Cardinality
<1>3. Protocol!Cardinality(S) = Cardinality(S)
  BY Zenon DEF Protocol!Cardinality, Cardinality
<1>. QED
  BY <1>1, <1>2, <1>3

\* the three pools start as promised, with no task
LEMMA PoolsInit == Init => ICore!Init /\ Harmonic!Init /\ Protocol!Init
BY DEF Init, ICore!Init, Harmonic!Init, Protocol!Init, TaskIn, Before

\* the head of a line without repetitions is at its first place
LEMMA HeadPlace ==
  ASSUME NEW line \in Seq(Packets), line # <<>>, IsInjective(line)
  PROVE  1 \in DOMAIN line /\ line[1] = Head(line) /\ RemoveAt(line, 1) = Tail(line)
BY QueueHead

\* receipts: submitted by the readers, taken in that order
LEMMA ICoreStep ==
  ASSUME CFInv, NEW p \in Packets, PacketStep(p)
  PROVE  ICore!Next \/ UNCHANGED ICore!vars
<1>. DEFINE task == TaskIn({"idle"}, {}, {"receipt"}, InReceipt)
            kind(s) == Kind(s, {"idle"}, {}, {"receipt"}, InReceipt)
<1>0. FlowTypes /\ LineInv
  BY DEF CFInv, FlowInv
<1>1. ASSUME NEW h, NEW t, Move(p, h, t)
      PROVE  task[p] = kind(h) /\ task' = [task EXCEPT ![p] = kind(t)]
             /\ (kind(h) = kind(t) => task' = task)
  BY <1>0, <1>1, TaskMoved
<1>. HIDE DEF task
<1>. USE DEF Kind, InReceipt
<1>2. ASSUME NEW x, Receive(p, x) PROVE ICore!Next
  <2>1. Move(p, "idle", "receipt") /\ iLine' = Append(iLine, p) /\ UNCHANGED running
    BY <1>2 DEF Receive
  <2>2. task[p] = "new" /\ task' = [task EXCEPT ![p] = "waiting"]
    BY <1>1, <2>1
  <2>3. ICore!Join(p)
    BY <2>1, <2>2 DEF ICore!Join, ICore!Become, task
  <2>. QED
    BY <2>3 DEF ICore!Next
<1>3. CASE StartReceipt(p)
  <2>1. /\ Move(p, "receipt", "dispatch") /\ UNCHANGED running
        /\ iLine # <<>> /\ Head(iLine) = p /\ iLine' = Tail(iLine)
        /\ Cardinality(At(InReceipt)) < IWidth
    BY <1>3 DEF StartReceipt
  <2>2. 1 \in DOMAIN iLine /\ iLine[1] = p /\ iLine' = RemoveAt(iLine, 1)
    BY <1>0, <2>1, HeadPlace DEF LineInv
  <2>3. task[p] = "waiting" /\ task' = [task EXCEPT ![p] = "running"]
    BY <1>1, <2>1
  <2>4. Cardinality(ICore!In("running")) < IWidth
    BY <2>1, RunningTasks
  <2>5. iLine' = ICore!RemoveAt(iLine, 1)
    BY <2>2 DEF RemoveAt, ICore!RemoveAt
  <2>6. ICore!Start(1)
    BY <2>1, <2>2, <2>3, <2>4, <2>5, SameCount DEF ICore!Start, ICore!Become, Oldest, task
  <2>. QED
    BY <2>2, <2>6 DEF ICore!Next
<1>4. CASE QueueCommand(p) \/ Drop(p, "dispatch", "undispatched")
  <2>1. /\ Move(p, "admitted", "command") \/ Move(p, "dispatch", "undispatched")
        /\ UNCHANGED <<iLine, running>>
    BY <1>4 DEF QueueCommand, Drop, lines
  <2>2. task[p] = "running" /\ task' = [task EXCEPT ![p] = "done"]
    BY <1>1, <2>1
  <2>3. ICore!Finish(p)
    BY <2>1, <2>2 DEF ICore!Finish, ICore!Become, task
  <2>. QED
    BY <2>3 DEF ICore!Next
<1>5. ASSUME NEW h, NEW t, Move(p, h, t), kind(h) = kind(t), UNCHANGED <<iLine, running>>
      PROVE  UNCHANGED ICore!vars
  BY <1>1, <1>5 DEF ICore!vars, task
<1>6. CASE AdmitCommand(p) \/ StartHandler(p) \/ Drop(p, "handler", "unpushed") \/ Step(p, "handler", "pushing")
  BY <1>5, <1>6 DEF AdmitCommand, StartHandler, Drop, Step, lines
<1>7. ASSUME NEW e, Stamp(p, e) PROVE UNCHANGED ICore!vars
  BY <1>5, <1>7 DEF Stamp, lines
<1>8. CASE QueueFrame(p) \/ StartSend(p) \/ Write(p) \/ Drop(p, "popped", "over") \/ EndSend(p)
  BY <1>5, <1>8 DEF QueueFrame, StartSend, Write, Drop, EndSend, lines
<1>. QED
  BY <1>2, <1>3, <1>4, <1>6, <1>7, <1>8 DEF PacketStep

\* commands: admitted and queued by Dispatch, taken in any order
LEMMA HarmonicStep ==
  ASSUME CFInv, NEW p \in Packets, PacketStep(p)
  PROVE  Harmonic!Next \/ UNCHANGED Harmonic!vars
<1>. DEFINE task == TaskIn(Before, {"admitted"}, {"command"}, InHandler)
            kind(s) == Kind(s, Before, {"admitted"}, {"command"}, InHandler)
<1>0. FlowTypes /\ LineInv
  BY DEF CFInv, FlowInv
<1>1. ASSUME NEW h, NEW t, Move(p, h, t)
      PROVE  task[p] = kind(h) /\ task' = [task EXCEPT ![p] = kind(t)]
             /\ (kind(h) = kind(t) => task' = task)
  BY <1>0, <1>1, TaskMoved
<1>. HIDE DEF task
<1>. USE DEF Kind, InHandler, Before
<1>2. CASE AdmitCommand(p)
  <2>1. Move(p, "dispatch", "admitted") /\ UNCHANGED <<hLine, running>> /\ running
    BY <1>2 DEF AdmitCommand, Step, lines
  <2>2. task[p] = "new" /\ task' = [task EXCEPT ![p] = "admitted"]
    BY <1>1, <2>1
  <2>3. Harmonic!Admit(p)
    BY <2>1, <2>2 DEF Harmonic!Admit, Harmonic!Become, task
  <2>. QED
    BY <2>3 DEF Harmonic!Next
<1>3. CASE QueueCommand(p)
  <2>1. Move(p, "admitted", "command") /\ hLine' = Append(hLine, p) /\ UNCHANGED running
    BY <1>3 DEF QueueCommand
  <2>2. task[p] = "admitted" /\ task' = [task EXCEPT ![p] = "waiting"]
    BY <1>1, <2>1
  <2>3. Harmonic!Join(p)
    BY <2>1, <2>2 DEF Harmonic!Join, Harmonic!Become, task
  <2>. QED
    BY <2>3 DEF Harmonic!Next
<1>4. CASE StartHandler(p)
  <2>1. /\ Move(p, "command", "handler") /\ UNCHANGED running
        /\ Cardinality(At(InHandler)) < HWidth
    BY <1>4 DEF StartHandler
  <2>2. PICK i \in DOMAIN hLine : hLine[i] = p /\ hLine' = RemoveAt(hLine, i)
    BY <1>4 DEF StartHandler
  <2>3. task[p] = "waiting" /\ task' = [task EXCEPT ![p] = "running"]
    BY <1>1, <2>1
  <2>4. Cardinality(Harmonic!In("running")) < HWidth
    BY <2>1, RunningTasks
  <2>5. hLine' = Harmonic!RemoveAt(hLine, i)
    BY <2>2 DEF RemoveAt, Harmonic!RemoveAt
  <2>6. Harmonic!Start(i)
    BY <2>1, <2>2, <2>3, <2>4, <2>5, SameCount DEF Harmonic!Start, Harmonic!Become, Anyone, task
  <2>. QED
    BY <2>2, <2>6 DEF Harmonic!Next
<1>5. CASE QueueFrame(p) \/ Drop(p, "handler", "unpushed")
  <2>1. /\ Move(p, "pushing", "frame") \/ Move(p, "handler", "unpushed")
        /\ UNCHANGED <<hLine, running>>
    BY <1>5 DEF QueueFrame, Drop, lines
  <2>2. task[p] = "running" /\ task' = [task EXCEPT ![p] = "done"]
    BY <1>1, <2>1
  <2>3. Harmonic!Finish(p)
    BY <2>1, <2>2 DEF Harmonic!Finish, Harmonic!Become, task
  <2>. QED
    BY <2>3 DEF Harmonic!Next
<1>6. ASSUME NEW h, NEW t, Move(p, h, t), kind(h) = kind(t), UNCHANGED <<hLine, running>>
      PROVE  UNCHANGED Harmonic!vars
  BY <1>1, <1>6 DEF Harmonic!vars, task
<1>7. ASSUME NEW x, Receive(p, x) PROVE UNCHANGED Harmonic!vars
  BY <1>6, <1>7 DEF Receive
<1>8. CASE StartReceipt(p) \/ Drop(p, "dispatch", "undispatched") \/ Step(p, "handler", "pushing")
  BY <1>6, <1>8 DEF StartReceipt, Drop, Step, lines
<1>9. ASSUME NEW e, Stamp(p, e) PROVE UNCHANGED Harmonic!vars
  BY <1>6, <1>9 DEF Stamp, lines
<1>10. CASE StartSend(p) \/ Write(p) \/ Drop(p, "popped", "over") \/ EndSend(p)
  BY <1>6, <1>10 DEF StartSend, Write, Drop, EndSend, lines
<1>. QED
  BY <1>2, <1>3, <1>4, <1>5, <1>7, <1>8, <1>9, <1>10 DEF PacketStep

\* frames: admitted and queued by Push, taken in that order
LEMMA ProtocolStep ==
  ASSUME CFInv, NEW p \in Packets, PacketStep(p)
  PROVE  Protocol!Next \/ UNCHANGED Protocol!vars
<1>. DEFINE before == Before \cup {"admitted", "command", "handler", "unpushed"}
            task == TaskIn(before, {"pushing"}, {"frame"}, InSend)
            kind(s) == Kind(s, before, {"pushing"}, {"frame"}, InSend)
<1>0. FlowTypes /\ LineInv
  BY DEF CFInv, FlowInv
<1>1. ASSUME NEW h, NEW t, Move(p, h, t)
      PROVE  task[p] = kind(h) /\ task' = [task EXCEPT ![p] = kind(t)]
             /\ (kind(h) = kind(t) => task' = task)
  BY <1>0, <1>1, TaskMoved
<1>. HIDE DEF task
<1>. USE DEF Kind, InSend, Before
<1>2. ASSUME running, \/ Step(p, "handler", "pushing") \/ \E e \in Registered : Stamp(p, e)
      PROVE  Protocol!Next
  <2>1. Move(p, "handler", "pushing") /\ UNCHANGED <<pLine, running>>
    BY <1>2 DEF Step, Stamp, lines
  <2>2. task[p] = "new" /\ task' = [task EXCEPT ![p] = "admitted"]
    BY <1>1, <2>1
  <2>3. Protocol!Admit(p)
    BY <1>2, <2>1, <2>2 DEF Protocol!Admit, Protocol!Become, task
  <2>. QED
    BY <2>3 DEF Protocol!Next
<1>3. CASE QueueFrame(p)
  <2>1. Move(p, "pushing", "frame") /\ pLine' = Append(pLine, p) /\ UNCHANGED running
    BY <1>3 DEF QueueFrame
  <2>2. task[p] = "admitted" /\ task' = [task EXCEPT ![p] = "waiting"]
    BY <1>1, <2>1
  <2>3. Protocol!Join(p)
    BY <2>1, <2>2 DEF Protocol!Join, Protocol!Become, task
  <2>. QED
    BY <2>3 DEF Protocol!Next
<1>4. CASE StartSend(p)
  <2>1. /\ Move(p, "frame", "popped") /\ UNCHANGED running
        /\ pLine # <<>> /\ Head(pLine) = p /\ pLine' = Tail(pLine)
        /\ Cardinality(At(InSend)) < PWidth
    BY <1>4 DEF StartSend
  <2>2. 1 \in DOMAIN pLine /\ pLine[1] = p /\ pLine' = RemoveAt(pLine, 1)
    BY <1>0, <2>1, HeadPlace DEF LineInv
  <2>3. task[p] = "waiting" /\ task' = [task EXCEPT ![p] = "running"]
    BY <1>1, <2>1
  <2>4. Cardinality(Protocol!In("running")) < PWidth
    BY <2>1, RunningTasks
  <2>5. pLine' = Protocol!RemoveAt(pLine, 1)
    BY <2>2 DEF RemoveAt, Protocol!RemoveAt
  <2>6. Protocol!Start(1)
    BY <2>1, <2>2, <2>3, <2>4, <2>5, SameCount DEF Protocol!Start, Protocol!Become, Oldest, task
  <2>. QED
    BY <2>2, <2>6 DEF Protocol!Next
<1>5. CASE Drop(p, "popped", "over") \/ EndSend(p)
  <2>1. /\ Move(p, "popped", "over") \/ Move(p, "sending", "over")
        /\ UNCHANGED <<pLine, running>>
    BY <1>5 DEF EndSend, Drop, lines
  <2>2. task[p] = "running" /\ task' = [task EXCEPT ![p] = "done"]
    BY <1>1, <2>1
  <2>3. Protocol!Finish(p)
    BY <2>1, <2>2 DEF Protocol!Finish, Protocol!Become, task
  <2>. QED
    BY <2>3 DEF Protocol!Next
<1>6. ASSUME NEW h, NEW t, Move(p, h, t), kind(h) = kind(t), UNCHANGED <<pLine, running>>
      PROVE  UNCHANGED Protocol!vars
  BY <1>1, <1>6 DEF Protocol!vars, task
<1>7. ASSUME NEW x, Receive(p, x) PROVE UNCHANGED Protocol!vars
  BY <1>6, <1>7 DEF Receive
<1>8. CASE StartReceipt(p) \/ AdmitCommand(p) \/ QueueCommand(p) \/ StartHandler(p)
  BY <1>6, <1>8 DEF StartReceipt, AdmitCommand, Step, QueueCommand, StartHandler, lines
<1>9. CASE Drop(p, "dispatch", "undispatched") \/ Drop(p, "handler", "unpushed") \/ Write(p)
  BY <1>6, <1>9 DEF Drop, Write, lines
<1>. QED
  BY <1>2, <1>3, <1>4, <1>5, <1>7, <1>8, <1>9 DEF PacketStep

\* every step is a step of the promise of each pool, or none
LEMMA PoolsStep ==
  ASSUME CFInv, [Next]_vars
  PROVE  [ICore!Next]_ICore!vars /\ [Harmonic!Next]_Harmonic!vars /\ [Protocol!Next]_Protocol!vars
<1>1. ASSUME UNCHANGED <<stage, lines>>, UNCHANGED running \/ running' = FALSE
      PROVE  /\ [ICore!Next]_ICore!vars /\ [Harmonic!Next]_Harmonic!vars
             /\ [Protocol!Next]_Protocol!vars
  BY <1>1, TasksKept
  DEF lines, ICore!vars, Harmonic!vars, Protocol!vars, ICore!Next, Harmonic!Next, Protocol!Next,
      ICore!Close, Harmonic!Close, Protocol!Close
<1>2. CASE ClientStep \/ Stop \/ UNCHANGED vars
  BY <1>1, <1>2 DEF ClientStep, Stop, vars
<1>3. ASSUME NEW p \in Packets,
             Start(p) \/ Proceed(p) \/ (\E c \in Conns : ReadCommand(p, c))
               \/ (\E a \in Addrs : ReadDatagram(p, a))
      PROVE  /\ [ICore!Next]_ICore!vars /\ [Harmonic!Next]_Harmonic!vars
             /\ [Protocol!Next]_Protocol!vars
  BY <1>3, Kinds, ICoreStep, HarmonicStep, ProtocolStep DEF CFInv
<1>. QED
  BY <1>2, <1>3 DEF Next

(***************************************************************************)
(* pool.go, factory.go:25-58.  A packet's way through the engine uses each *)
(* of its three pools as TaskPromise says a pool may be used.              *)
(***************************************************************************)
THEOREM PoolsImplemented == Spec => PoolsAsPromised
<1>1. Init => ICore!Init /\ Harmonic!Init /\ Protocol!Init
  BY PoolsInit
<1>2. CFInv /\ [Next]_vars => /\ [ICore!Next]_ICore!vars /\ [Harmonic!Next]_Harmonic!vars
                              /\ [Protocol!Next]_Protocol!vars
  BY PoolsStep
<1>. QED
  BY <1>1, <1>2, Invariant, PTL
  DEF Spec, PoolsAsPromised, ICore!Spec, Harmonic!Spec, Protocol!Spec
=============================================================================
