--------------------------- MODULE DropLogProofs ---------------------------
(***************************************************************************)
(* Proofs about DropLog for any messages, buffer, timeout and number of    *)
(* timers and of timer goroutines.                                         *)
(***************************************************************************)
EXTENDS DropLog, TLAPS

-----------------------------------------------------------------------------
(* Sequences used as queues. *)

\* appending leaves the places that were taken as they were
LEMMA AppendAt ==
  ASSUME NEW S, NEW s \in Seq(S), NEW e \in S
  PROVE  /\ Append(s, e) \in Seq(S)
         /\ Len(s) \in Nat
         /\ Len(Append(s, e)) = Len(s) + 1
         /\ Append(s, e)[Len(s) + 1] = e
         /\ \A i \in 1..Len(s) : Append(s, e)[i] = s[i]
OBVIOUS

\* taking the first moves the others one place up
LEMMA TailAt ==
  ASSUME NEW S, NEW s \in Seq(S), s # <<>>
  PROVE  /\ Tail(s) \in Seq(S)
         /\ Len(s) \in Nat \ {0}
         /\ Len(Tail(s)) = Len(s) - 1
         /\ Head(s) = s[1] /\ Head(s) \in S
         /\ \A i \in 1..(Len(s) - 1) : Tail(s)[i] = s[i + 1]
OBVIOUS

\* appending puts one more element in a sequence, at the end
LEMMA AppendSet ==
  ASSUME NEW S, NEW s \in Seq(S), NEW e \in S
  PROVE  ToSet(Append(s, e)) = ToSet(s) \cup {e}
<1>1. /\ Len(Append(s, e)) = Len(s) + 1
      /\ DOMAIN Append(s, e) = 1..(Len(s) + 1)
      /\ DOMAIN s = 1..Len(s)
      /\ Append(s, e)[Len(s) + 1] = e
      /\ \A i \in 1..Len(s) : Append(s, e)[i] = s[i]
  OBVIOUS
<1>2. ASSUME NEW x \in ToSet(Append(s, e)) PROVE x \in ToSet(s) \cup {e}
  BY <1>1, <1>2 DEF ToSet
<1>3. ASSUME NEW x \in ToSet(s) \cup {e} PROVE x \in ToSet(Append(s, e))
  <2>1. CASE x = e
    BY <1>1, <2>1 DEF ToSet
  <2>2. CASE x \in ToSet(s)
    <3>1. PICK i \in 1..Len(s) : x = s[i]
      BY <1>1, <2>2 DEF ToSet
    <3>. QED
      BY <1>1, <3>1 DEF ToSet
  <2>. QED
    BY <1>3, <2>1, <2>2
<1>. QED
  BY <1>2, <1>3

\* appending something new keeps a sequence free of repetitions
LEMMA AppendNew ==
  ASSUME NEW S, NEW s \in Seq(S), NEW e \in S, IsInjective(s), e \notin ToSet(s)
  PROVE  IsInjective(Append(s, e))
<1>1. /\ DOMAIN Append(s, e) = 1..(Len(s) + 1)
      /\ DOMAIN s = 1..Len(s)
      /\ Append(s, e)[Len(s) + 1] = e
      /\ \A i \in 1..Len(s) : Append(s, e)[i] = s[i]
  OBVIOUS
<1>2. \A i \in 1..Len(s) : s[i] # e
  BY <1>1 DEF ToSet
<1>3. \A i, j \in 1..Len(s) : s[i] = s[j] => i = j
  BY <1>1 DEF IsInjective
<1>4. \A i, j \in 1..(Len(s) + 1) : Append(s, e)[i] = Append(s, e)[j] => i = j
  BY <1>1, <1>2, <1>3
<1>. QED
  BY <1>1, <1>4 DEF IsInjective

\* the head of a queue without repetitions occurs in it once
LEMMA QueueHead ==
  ASSUME NEW S, NEW q \in Seq(S), q # <<>>, IsInjective(q)
  PROVE  /\ ToSet(q) = ToSet(Tail(q)) \cup {Head(q)}
         /\ Head(q) \notin ToSet(Tail(q))
         /\ RemoveAt(q, 1) = Tail(q)
         /\ 1 \in DOMAIN q /\ q[1] = Head(q)
<1>1. /\ DOMAIN q = 1..Len(q) /\ Len(q) \in Nat \ {0}
      /\ Head(q) = q[1]
      /\ DOMAIN Tail(q) = 1..(Len(q) - 1)
      /\ \A i \in 1..(Len(q) - 1) : Tail(q)[i] = q[i + 1]
  OBVIOUS
<1>2. ASSUME NEW t \in ToSet(q) PROVE t \in ToSet(Tail(q)) \cup {Head(q)}
  <2>1. PICK i \in 1..Len(q) : q[i] = t
    BY <1>1, <1>2 DEF ToSet
  <2>2. CASE i = 1
    BY <1>1, <2>1, <2>2
  <2>3. CASE i > 1
    <3>1. i - 1 \in 1..(Len(q) - 1) /\ Tail(q)[i - 1] = t
      BY <1>1, <2>1, <2>3
    <3>. QED
      BY <1>1, <3>1 DEF ToSet
  <2>. QED
    BY <1>1, <2>2, <2>3
<1>3. ASSUME NEW t \in ToSet(Tail(q)) PROVE t \in ToSet(q) /\ t # Head(q)
  <2>1. PICK i \in 1..(Len(q) - 1) : Tail(q)[i] = t
    BY <1>1, <1>3 DEF ToSet
  <2>2. i + 1 \in DOMAIN q /\ q[i + 1] = t /\ 1 \in DOMAIN q /\ i + 1 # 1
    BY <1>1, <2>1
  <2>. QED
    BY <1>1, <2>2 DEF ToSet, IsInjective
<1>4. Head(q) \in ToSet(q)
  BY <1>1 DEF ToSet
<1>5. RemoveAt(q, 1) = Tail(q)
  BY DEF RemoveAt
<1>. QED
  BY <1>1, <1>2, <1>3, <1>4, <1>5

\* what is left of a queue without repetitions has none
LEMMA TailNew ==
  ASSUME NEW S, NEW q \in Seq(S), q # <<>>, IsInjective(q)
  PROVE  IsInjective(Tail(q))
<1>1. /\ DOMAIN q = 1..Len(q) /\ Len(q) \in Nat \ {0}
      /\ DOMAIN Tail(q) = 1..(Len(q) - 1)
      /\ \A i \in 1..(Len(q) - 1) : Tail(q)[i] = q[i + 1]
  OBVIOUS
<1>2. ASSUME NEW i \in 1..(Len(q) - 1), NEW j \in 1..(Len(q) - 1), Tail(q)[i] = Tail(q)[j]
      PROVE  i = j
  <2>1. q[i + 1] = q[j + 1] /\ i + 1 \in 1..Len(q) /\ j + 1 \in 1..Len(q)
    BY <1>1, <1>2
  <2>. QED
    BY <1>1, <2>1 DEF IsInjective
<1>. QED
  BY <1>1, <1>2 DEF IsInjective

\* two queues without repetitions and without a common element, end to end
LEMMA JoinQueues ==
  ASSUME NEW S, NEW s \in Seq(S), NEW q \in Seq(S),
         IsInjective(s), IsInjective(q), ToSet(s) \cap ToSet(q) = {}
  PROVE  /\ IsInjective(s \o q)
         /\ ToSet(s \o q) = ToSet(s) \cup ToSet(q)
<1>1. /\ Len(s) \in Nat /\ Len(q) \in Nat
      /\ DOMAIN s = 1..Len(s) /\ DOMAIN q = 1..Len(q)
      /\ DOMAIN (s \o q) = 1..(Len(s) + Len(q))
      /\ \A i \in 1..Len(s) : (s \o q)[i] = s[i]
      /\ \A i \in 1..Len(q) : (s \o q)[Len(s) + i] = q[i]
  OBVIOUS
<1>2. \A i \in 1..(Len(s) + Len(q)) :
        \/ i \in 1..Len(s)
        \/ i - Len(s) \in 1..Len(q) /\ Len(s) + (i - Len(s)) = i
  BY <1>1
<1>. DEFINE j == s \o q
<1>. HIDE DEF j
<1>3. \A i \in 1..(Len(s) + Len(q)) :
        \/ i \in 1..Len(s) /\ j[i] = s[i]
        \/ i - Len(s) \in 1..Len(q) /\ j[i] = q[i - Len(s)]
  BY <1>1, <1>2 DEF j
<1>4. /\ \A i \in 1..Len(s) : s[i] \in ToSet(s)
      /\ \A i \in 1..Len(q) : q[i] \in ToSet(q)
  BY <1>1 DEF ToSet
<1>5. ASSUME NEW i \in 1..(Len(s) + Len(q)), NEW k \in 1..(Len(s) + Len(q)), j[i] = j[k]
      PROVE  i = k
  <2>1. CASE i \in 1..Len(s) /\ j[i] = s[i]
    <3>1. k \in 1..Len(s) /\ j[k] = s[k]
      BY <1>3, <1>4, <1>5, <2>1
    <3>. QED
      BY <1>1, <1>5, <2>1, <3>1 DEF IsInjective
  <2>2. CASE i - Len(s) \in 1..Len(q) /\ j[i] = q[i - Len(s)]
    <3>1. k - Len(s) \in 1..Len(q) /\ j[k] = q[k - Len(s)]
      BY <1>3, <1>4, <1>5, <2>2
    <3>2. i - Len(s) = k - Len(s)
      BY <1>1, <1>5, <2>2, <3>1 DEF IsInjective
    <3>. QED
      BY <1>1, <3>2
  <2>. QED
    BY <1>3, <2>1, <2>2
<1>6. IsInjective(s \o q)
  BY <1>1, <1>5 DEF IsInjective, j
<1>7. ASSUME NEW x \in ToSet(s \o q) PROVE x \in ToSet(s) \cup ToSet(q)
  <2>1. PICK i \in 1..(Len(s) + Len(q)) : j[i] = x
    BY <1>1, <1>7 DEF ToSet, j
  <2>. QED
    BY <1>3, <1>4, <2>1
<1>8. ASSUME NEW x \in ToSet(s) PROVE x \in ToSet(s \o q)
  <2>1. PICK i \in 1..Len(s) : s[i] = x
    BY <1>1, <1>8 DEF ToSet
  <2>. QED
    BY <1>1, <2>1 DEF ToSet
<1>9. ASSUME NEW x \in ToSet(q) PROVE x \in ToSet(s \o q)
  <2>1. PICK i \in 1..Len(q) : q[i] = x
    BY <1>1, <1>9 DEF ToSet
  <2>2. Len(s) + i \in DOMAIN (s \o q) /\ (s \o q)[Len(s) + i] = x
    BY <1>1, <2>1
  <2>. QED
    BY <2>2 DEF ToSet
<1>. QED
  BY <1>6, <1>7, <1>8, <1>9

-----------------------------------------------------------------------------
(* The inductive invariant.  OnePlace alone is not inductive: the two      *)
(* queues have to be apart, and what is in a batch has to be among what    *)
(* was emitted, so that the next message is in no place yet.               *)

Held(g) == ToSet(batch[g])

Queued == ToSet(logCh) \cup ToSet(entries)

Ended == lost \cup filed \cup failed \cup replaced

\* what is on its way has not come to an end, and is in one place of the way
Places ==
  /\ IsInjective(logCh) /\ IsInjective(entries) /\ IsInjective(file)
  /\ ToSet(logCh) \cap ToSet(entries) = {}
  /\ Queued \subseteq emitted /\ Queued \cap Ended = {}
  /\ \A g \in Goroutines :
       /\ IsInjective(batch[g]) /\ Held(g) \subseteq emitted
       /\ Held(g) \cap (Queued \cup Ended) = {}
  /\ \A g, h \in Goroutines : g # h => Held(g) \cap Held(h) = {}

\* the four ends are apart, and what the file of this second holds is filed
EndsApart ==
  /\ lost \cap (filed \cup failed \cup replaced) = {}
  /\ filed \cap (failed \cup replaced) = {}
  /\ failed \cap replaced = {}
  /\ ToSet(file) \subseteq filed

\* no message is nowhere
Somewhere ==
  \A m \in emitted : m \in Queued \/ m \in Ended \/ \E g \in Goroutines : m \in Held(g)

DInv == TypeOK /\ BatchCovered /\ Places /\ EndsApart /\ Somewhere

\* the log starts empty, with no timer
LEMMA InitDInv == Init => DInv
<1>. SUFFICES ASSUME Init PROVE DInv
  OBVIOUS
<1>. USE DropAssumption DEF Init
<1>1. TypeOK
  <2>1. BufSize \in Nat /\ Len(logCh) = 0
    OBVIOUS
  <2>2. pc \in [Goroutines -> {"idle", "loop", "drain", "look", "halt", "take", "write", "done"}]
        /\ \A g \in Goroutines : pc[g] # "write" /\ batch[g] = <<>>
    OBVIOUS
  <2>3. /\ logCh \in Seq(Msgs) /\ Len(logCh) <= BufSize
        /\ entries \in Seq(Msgs) /\ file \in Seq(Msgs)
    BY <2>1
  <2>4. /\ timer \in Timers \cup {Off}
        /\ left \in [Timers -> 0..Timeout \cup {Off}]
        /\ seen \in [Goroutines -> Timers \cup {Off}]
    OBVIOUS
  <2>5. batch \in [Goroutines -> Seq(Msgs)]
    OBVIOUS
  <2>6. closed \in BOOLEAN /\ exited \in BOOLEAN
    OBVIOUS
  <2>7. emitted \subseteq Msgs /\ lost \cup filed \cup failed \cup replaced \subseteq emitted
    OBVIOUS
  <2>. QED
    BY <2>2, <2>3, <2>4, <2>5, <2>6, <2>7 DEF TypeOK
<1>2. BatchCovered
  BY DEF BatchCovered
<1>3. Places /\ EndsApart
  BY DEF Places, EndsApart, Held, Queued, Ended, ToSet, IsInjective
<1>4. Somewhere
  BY DEF Somewhere
<1>. QED
  BY <1>1, <1>2, <1>3, <1>4 DEF DInv

-----------------------------------------------------------------------------
(* A write. *)

\* a write takes its batch to an end: the filed messages that it replaces stay
\* among the ended
LEMMA WriteMoves ==
  ASSUME TypeOK, Places, EndsApart, NEW g \in Goroutines, Write(g) \/ WriteFails(g)
  PROVE  /\ Ended' = Ended \cup Held(g)
         /\ EndsApart'
         /\ file' \in Seq(Msgs) /\ IsInjective(file')
<1>. USE DEF Held, Ended, EndsApart
<1>1. Held(g) \cap Ended = {} /\ IsInjective(batch[g]) /\ IsInjective(file)
  BY DEF Places
<1>2. CASE Write(g)
  <2>1. /\ file' = batch[g] /\ lost' = lost /\ failed' = failed
        /\ filed' = (filed \ ToSet(file)) \cup ToSet(batch[g])
        /\ replaced' = replaced \cup ToSet(file)
    BY <1>2 DEF Write, Written
  <2>. QED
    BY <1>1, <2>1 DEF TypeOK
<1>3. CASE WriteFails(g)
  <2>1. PICK kept \in {file, <<>>} :
          /\ file' = kept /\ lost' = lost /\ failed' = failed \cup ToSet(batch[g])
          /\ filed' = filed \ (ToSet(file) \ ToSet(kept))
          /\ replaced' = replaced \cup (ToSet(file) \ ToSet(kept))
    BY <1>3 DEF WriteFails, Written
  <2>2. ToSet(kept) \subseteq ToSet(file) /\ IsInjective(kept) /\ kept \in Seq(Msgs)
    <3>1. CASE kept = file
      BY <1>1, <3>1 DEF TypeOK
    <3>2. CASE kept = <<>>
      <4>1. ToSet(kept) = {} /\ IsInjective(kept)
        BY <3>2 DEF ToSet, IsInjective
      <4>. QED
        BY <3>2, <4>1
    <3>. QED
      BY <2>1, <3>1, <3>2
  <2>. QED
    BY <1>1, <2>1, <2>2
<1>. QED
  BY <1>2, <1>3

-----------------------------------------------------------------------------
(* Types. *)

\* every step keeps the types
LEMMA TypeStep ==
  ASSUME TypeOK, Places, EndsApart, [Next]_vars
  PROVE  TypeOK'
<1>. USE DropAssumption DEF TypeOK, Goto, bvars, fvars, wvars
<1>1. ASSUME NEW m \in Msgs, Emit(m) PROVE TypeOK'
  <2>1. CASE Len(logCh) < BufSize
    <3>1. logCh' = Append(logCh, m)
      BY <1>1, <2>1 DEF Emit
    <3>2. logCh' \in Seq(Msgs) /\ Len(logCh') <= BufSize
      BY <2>1, <3>1, AppendAt
    <3>. QED
      BY <1>1, <2>1, <3>2 DEF Emit
  <2>2. CASE ~(Len(logCh) < BufSize)
    BY <1>1, <2>2 DEF Emit
  <2>. QED
    BY <2>1, <2>2
<1>2. ASSUME NEW t \in Timers, Fire(t) PROVE TypeOK'
  BY <1>2 DEF Fire, Goroutines
<1>3. ASSUME NEW g \in Goroutines, Look(g) PROVE TypeOK'
  BY <1>3 DEF Look
<1>4. ASSUME NEW g \in Goroutines, Halt(g) PROVE TypeOK'
  BY <1>4 DEF Halt
<1>5. ASSUME NEW g \in Goroutines, Take(g) PROVE TypeOK'
  BY <1>5 DEF Take, After
<1>6. ASSUME NEW g \in Goroutines, Write(g) \/ WriteFails(g) PROVE TypeOK'
  <2>1. PICK gone : Written(g, gone)
    BY <1>6 DEF Write, WriteFails
  <2>2. /\ file' \in Seq(Msgs) /\ Ended' = Ended \cup Held(g) /\ Held(g) \subseteq emitted
    BY <1>6, WriteMoves DEF Places
  <2>3. /\ lost' \cup filed' \cup failed' \cup replaced' \subseteq emitted'
        /\ emitted' \subseteq Msgs
    BY <2>1, <2>2 DEF Ended, Written
  <2>. QED
    BY <2>1, <2>2, <2>3 DEF Written, After
<1>7. CASE LoggerAdds
  <2>1. /\ logCh # <<>> /\ Add(Head(logCh)) /\ logCh' = Tail(logCh)
        /\ UNCHANGED <<pc, seen, batch, wvars, closed, exited, emitted, lost>>
    BY <1>7 DEF LoggerAdds
  <2>2. /\ Head(logCh) \in Msgs /\ logCh' \in Seq(Msgs) /\ Len(logCh') <= BufSize
    BY <2>1, TailAt
  <2>3. entries' \in Seq(Msgs)
    BY <2>1, <2>2, AppendAt DEF Add
  <2>4. timer' \in Timers \cup {Off} /\ left' \in [Timers -> 0..Timeout \cup {Off}]
    <3>1. Timeout \in 0..Timeout
      OBVIOUS
    <3>2. CASE timer # Off
      BY <2>1, <3>1, <3>2 DEF Add
    <3>3. CASE timer = Off
      <4>1. Fresh # {} => (CHOOSE t \in Fresh : TRUE) \in Timers
        BY DEF Fresh
      <4>. QED
        BY <2>1, <3>1, <3>3, <4>1 DEF Add
    <3>. QED
      BY <3>2, <3>3
  <2>. QED
    BY <2>1, <2>2, <2>3, <2>4
<1>8. CASE LoggerSeesStop \/ LoggerDrained
  BY <1>8 DEF LoggerSeesStop, LoggerDrained, Goroutines
<1>9. CASE CloseStop \/ Exit
  BY <1>9 DEF CloseStop, Exit, Goroutines
<1>10. CASE Tick
  <2>1. \A t \in Timers : left[t] \notin {0, Off} => left[t] - 1 \in 0..Timeout
    OBVIOUS
  <2>2. left' \in [Timers -> 0..Timeout \cup {Off}]
    BY <1>10, <2>1 DEF Tick
  <2>. QED
    BY <1>10, <2>2 DEF Tick
<1>11. CASE UNCHANGED vars
  BY <1>11 DEF vars
<1>. QED
  BY <1>1, <1>2, <1>3, <1>4, <1>5, <1>6, <1>7, <1>8, <1>9, <1>10, <1>11
  DEF Next, FlushStep, LoggerStep

-----------------------------------------------------------------------------
(* The batch is covered. *)

\* no step leaves a batch without a timer, a flush or the logger to take it
LEMMA CoveredStep ==
  ASSUME TypeOK, BatchCovered, [Next]_vars
  PROVE  BatchCovered'
<1>. USE DropAssumption DEF TypeOK, Goto, bvars, fvars
<1>1. ASSUME UNCHANGED <<entries, left>>,
             \A g \in Goroutines : pc[g] = "take" => pc'[g] = "take"
      PROVE  BatchCovered'
  BY <1>1 DEF BatchCovered
<1>2. ASSUME NEW m \in Msgs, Emit(m) PROVE BatchCovered'
  BY <1>1, <1>2 DEF Emit
<1>3. ASSUME NEW t \in Timers, Fire(t) PROVE BatchCovered'
  BY <1>3 DEF Fire, BatchCovered, Goroutines
<1>4. ASSUME NEW g \in Goroutines, Look(g) \/ Write(g) \/ WriteFails(g) PROVE BatchCovered'
  BY <1>1, <1>4 DEF Look, Write, WriteFails, Written
<1>5. ASSUME NEW g \in Goroutines, Halt(g) PROVE BatchCovered'
  BY <1>5 DEF Halt, BatchCovered
<1>6. ASSUME NEW g \in Goroutines, Take(g) PROVE BatchCovered'
  BY <1>6 DEF Take, BatchCovered
<1>7. CASE LoggerAdds
  <2>1. \E t \in Timers : left' = [left EXCEPT ![t] = Timeout]
    BY <1>7 DEF LoggerAdds, Add, Fresh
  <2>. QED
    BY <2>1 DEF BatchCovered
<1>8. CASE LoggerSeesStop \/ LoggerDrained \/ CloseStop \/ Exit
  BY <1>1, <1>8 DEF LoggerSeesStop, LoggerDrained, CloseStop, Exit
<1>9. CASE Tick
  <2>1. \A t \in Timers : left[t] # Off => left'[t] # Off
    BY <1>9 DEF Tick
  <2>. QED
    BY <1>9, <2>1 DEF Tick, BatchCovered
<1>10. CASE UNCHANGED vars
  BY <1>1, <1>10 DEF vars
<1>. QED
  BY <1>2, <1>3, <1>4, <1>5, <1>6, <1>7, <1>8, <1>9, <1>10 DEF Next, FlushStep, LoggerStep

-----------------------------------------------------------------------------
(* A message is in one place. *)

\* a message moves from one place to the next, and is never in two
LEMMA PlacesStep ==
  ASSUME TypeOK, Places, EndsApart, [Next]_vars
  PROVE  Places'
<1>. USE DEF bvars, fvars, wvars
<1>1. ASSUME UNCHANGED <<logCh, entries, batch, filed, failed, replaced, emitted, lost>>,
             file' = file \/ file' = <<>>
      PROVE  Places'
  <2>1. IsInjective(file')
    BY <1>1 DEF Places, IsInjective
  <2>. QED
    BY <1>1, <2>1 DEF Places, Held, Queued, Ended
<1>2. ASSUME NEW m \in Msgs, Emit(m) PROVE Places'
  <2>1. /\ m \notin emitted /\ emitted' = emitted \cup {m}
        /\ UNCHANGED <<entries, batch, wvars>>
    BY <1>2 DEF Emit
  <2>2. CASE logCh' = Append(logCh, m) /\ lost' = lost
    <3>1. logCh \in Seq(Msgs) /\ IsInjective(logCh) /\ m \notin ToSet(logCh)
      BY <2>1 DEF TypeOK, Places, Queued
    <3>2. ToSet(logCh') = ToSet(logCh) \cup {m} /\ IsInjective(logCh')
      BY <2>2, <3>1, AppendSet, AppendNew
    <3>3. Queued' = Queued \cup {m}
      BY <2>1, <3>2 DEF Queued
    <3>4. /\ Ended' = Ended /\ m \notin Ended /\ m \notin ToSet(entries)
          /\ \A g \in Goroutines : m \notin Held(g)
      BY <2>1, <2>2 DEF TypeOK, Places, Queued, Ended
    <3>. QED
      BY <2>1, <2>2, <3>2, <3>3, <3>4 DEF Places, Held
  <2>3. CASE logCh' = logCh /\ lost' = lost \cup {m}
    <3>1. Ended' = Ended \cup {m} /\ Queued' = Queued /\ m \notin Queued
      BY <2>1, <2>3 DEF Ended, Queued, Places
    <3>2. \A g \in Goroutines : Held(g)' = Held(g) /\ m \notin Held(g)
      BY <2>1 DEF Held, Places
    <3>. QED
      BY <2>1, <2>3, <3>1, <3>2 DEF Places
  <2>. QED
    BY <1>2, <2>2, <2>3 DEF Emit
<1>3. ASSUME NEW t \in Timers, Fire(t) PROVE Places'
  BY <1>1, <1>3 DEF Fire
<1>4. ASSUME NEW g \in Goroutines, Look(g) \/ Halt(g) PROVE Places'
  BY <1>1, <1>4 DEF Look, Halt
<1>5. ASSUME NEW g \in Goroutines, Take(g) PROVE Places'
  <2>1. /\ pc[g] = "take" /\ batch' = [batch EXCEPT ![g] = entries] /\ entries' = <<>>
        /\ UNCHANGED <<logCh, wvars, emitted, lost>>
    BY <1>5 DEF Take, Goto
  <2>2. /\ batch'[g] = entries /\ \A h \in Goroutines \ {g} : batch'[h] = batch[h]
    BY <2>1 DEF TypeOK
  <2>3. ToSet(entries') = {} /\ IsInjective(entries')
    BY <2>1 DEF ToSet, IsInjective
  <2>4. Queued' = ToSet(logCh) /\ Held(g)' = ToSet(entries) /\ \A h \in Goroutines \ {g} : Held(h)' = Held(h)
    BY <2>1, <2>2, <2>3 DEF Queued, Held
  <2>. QED
    BY <2>1, <2>2, <2>3, <2>4 DEF Places, Queued, Ended
<1>6. ASSUME NEW g \in Goroutines, Write(g) \/ WriteFails(g) PROVE Places'
  <2>1. /\ batch' = [batch EXCEPT ![g] = <<>>]
        /\ UNCHANGED <<logCh, entries, emitted, lost>>
    BY <1>6 DEF Write, WriteFails, Written
  <2>2. /\ batch'[g] = <<>> /\ \A h \in Goroutines \ {g} : batch'[h] = batch[h]
    BY <2>1 DEF TypeOK
  <2>3. Held(g)' = {} /\ IsInjective(batch'[g])
    BY <2>2 DEF Held, ToSet, IsInjective
  <2>4. Queued' = Queued /\ \A h \in Goroutines \ {g} : Held(h)' = Held(h)
    BY <2>1, <2>2 DEF Queued, Held
  <2>5. Ended' = Ended \cup Held(g) /\ IsInjective(file')
    BY <1>6, WriteMoves
  <2>. QED
    BY <2>1, <2>2, <2>3, <2>4, <2>5 DEF Places
<1>7. CASE LoggerAdds
  <2>1. /\ logCh # <<>> /\ entries' = Append(entries, Head(logCh)) /\ logCh' = Tail(logCh)
        /\ UNCHANGED <<batch, wvars, emitted, lost>>
    BY <1>7 DEF LoggerAdds, Add
  <2>2. PICK m \in Msgs : m = Head(logCh)
    BY <2>1, TailAt DEF TypeOK
  <2>3. /\ ToSet(logCh) = ToSet(logCh') \cup {m} /\ m \notin ToSet(logCh') /\ IsInjective(logCh')
    <3>1. logCh \in Seq(Msgs) /\ IsInjective(logCh) /\ 1 \in 1..Len(logCh)
      BY <2>1, TailAt DEF TypeOK, Places
    <3>2. RemoveAt(logCh, 1) = Tail(logCh) /\ ToSet(logCh) = ToSet(Tail(logCh)) \cup {Head(logCh)}
          /\ Head(logCh) \notin ToSet(Tail(logCh))
      BY <2>1, <3>1, QueueHead
    <3>3. IsInjective(Tail(logCh))
      BY <3>1, TailNew
    <3>. QED
      BY <2>1, <2>2, <3>2, <3>3
  <2>4. /\ ToSet(entries') = ToSet(entries) \cup {m} /\ IsInjective(entries')
    BY <2>1, <2>2, <2>3, AppendSet, AppendNew DEF TypeOK, Places
  <2>5. Queued' = Queued
    BY <2>3, <2>4 DEF Queued
  <2>. QED
    BY <2>1, <2>3, <2>4, <2>5 DEF Places, Held, Ended
<1>8. CASE LoggerSeesStop \/ LoggerDrained \/ CloseStop \/ Exit \/ Tick
  BY <1>1, <1>8 DEF LoggerSeesStop, LoggerDrained, CloseStop, Exit, Tick
<1>9. CASE UNCHANGED vars
  BY <1>1, <1>9 DEF vars
<1>. QED
  BY <1>2, <1>3, <1>4, <1>5, <1>6, <1>7, <1>8, <1>9
  DEF Next, FlushStep, LoggerStep

\* a message that came to an end stays there, or goes from filed to replaced
LEMMA EndsStep ==
  ASSUME TypeOK, Places, EndsApart, [Next]_vars
  PROVE  EndsApart'
<1>. USE DEF bvars, fvars, wvars
<1>1. ASSUME UNCHANGED <<filed, failed, replaced, lost>>, file' = file \/ file' = <<>>
      PROVE  EndsApart'
  BY <1>1 DEF EndsApart, ToSet
<1>2. ASSUME NEW m \in Msgs, Emit(m) PROVE EndsApart'
  <2>1. m \notin filed \cup failed \cup replaced /\ UNCHANGED wvars /\ lost' \in {lost, lost \cup {m}}
    BY <1>2 DEF Emit, TypeOK
  <2>. QED
    BY <2>1 DEF EndsApart
<1>3. ASSUME NEW t \in Timers, Fire(t) PROVE EndsApart'
  BY <1>1, <1>3 DEF Fire
<1>4. ASSUME NEW g \in Goroutines, FlushStep(g) PROVE EndsApart'
  <2>1. CASE Look(g) \/ Halt(g) \/ Take(g)
    BY <1>1, <2>1 DEF Look, Halt, Take
  <2>2. CASE Write(g) \/ WriteFails(g)
    BY <2>2, WriteMoves
  <2>. QED
    BY <1>4, <2>1, <2>2 DEF FlushStep
<1>5. CASE LoggerStep
  BY <1>1, <1>5 DEF LoggerStep, LoggerAdds, LoggerSeesStop, LoggerDrained
<1>6. CASE CloseStop \/ Exit \/ Tick
  BY <1>1, <1>6 DEF CloseStop, Exit, Tick
<1>7. CASE UNCHANGED vars
  BY <1>1, <1>7 DEF vars
<1>. QED
  BY <1>2, <1>3, <1>4, <1>5, <1>6, <1>7 DEF Next

\* a message that leaves a place comes to the next
LEMMA SomewhereStep ==
  ASSUME TypeOK, Places, EndsApart, Somewhere, [Next]_vars
  PROVE  Somewhere'
<1>. USE DEF bvars, fvars, wvars
<1>1. ASSUME Queued' = Queued, Ended' = Ended, UNCHANGED <<batch, emitted>> PROVE Somewhere'
  BY <1>1 DEF Somewhere, Held
<1>2. ASSUME UNCHANGED <<logCh, entries, batch, filed, failed, replaced, emitted, lost>>
      PROVE  Somewhere'
  BY <1>1, <1>2 DEF Queued, Ended
<1>3. ASSUME NEW m \in Msgs, Emit(m) PROVE Somewhere'
  <2>1. emitted' = emitted \cup {m} /\ UNCHANGED <<entries, batch, wvars>>
    BY <1>3 DEF Emit
  <2>2. CASE logCh' = Append(logCh, m) /\ lost' = lost
    <3>1. ToSet(logCh') = ToSet(logCh) \cup {m}
      BY <2>2, AppendSet DEF TypeOK
    <3>. QED
      BY <2>1, <2>2, <3>1 DEF Somewhere, Queued, Ended, Held
  <2>3. CASE logCh' = logCh /\ lost' = lost \cup {m}
    BY <2>1, <2>3 DEF Somewhere, Queued, Ended, Held
  <2>. QED
    BY <1>3, <2>2, <2>3 DEF Emit
<1>4. ASSUME NEW t \in Timers, Fire(t) PROVE Somewhere'
  BY <1>2, <1>4 DEF Fire
<1>5. ASSUME NEW g \in Goroutines, Look(g) \/ Halt(g) PROVE Somewhere'
  BY <1>2, <1>5 DEF Look, Halt
<1>6. ASSUME NEW g \in Goroutines, Take(g) PROVE Somewhere'
  <2>1. /\ pc[g] = "take" /\ batch' = [batch EXCEPT ![g] = entries]
        /\ UNCHANGED <<logCh, wvars, emitted, lost>>
    BY <1>6 DEF Take, Goto
  <2>2. batch'[g] = entries /\ \A h \in Goroutines \ {g} : batch'[h] = batch[h]
    BY <2>1 DEF TypeOK
  <2>3. Held(g) = {}
    BY <2>1 DEF Held, TypeOK, ToSet
  <2>4. Held(g)' = ToSet(entries) /\ \A h \in Goroutines \ {g} : Held(h)' = Held(h)
    BY <2>2 DEF Held
  <2>5. Ended' = Ended /\ ToSet(logCh) \subseteq Queued'
    BY <2>1 DEF Ended, Queued
  <2>. QED
    BY <2>1, <2>3, <2>4, <2>5 DEF Somewhere, Queued
<1>7. ASSUME NEW g \in Goroutines, Write(g) \/ WriteFails(g) PROVE Somewhere'
  <2>1. /\ batch' = [batch EXCEPT ![g] = <<>>]
        /\ UNCHANGED <<logCh, entries, emitted>>
    BY <1>7 DEF Write, WriteFails, Written
  <2>2. \A h \in Goroutines \ {g} : Held(h)' = Held(h)
    BY <2>1 DEF TypeOK, Held
  <2>3. Ended' = Ended \cup Held(g) /\ Queued' = Queued
    BY <1>7, <2>1, WriteMoves DEF Queued
  <2>. QED
    BY <2>1, <2>2, <2>3 DEF Somewhere
<1>8. CASE LoggerAdds
  <2>1. /\ logCh # <<>> /\ entries' = Append(entries, Head(logCh)) /\ logCh' = Tail(logCh)
        /\ UNCHANGED <<batch, wvars, emitted, lost>>
    BY <1>8 DEF LoggerAdds, Add
  <2>2. Head(logCh) \in Msgs
    BY <2>1, TailAt DEF TypeOK
  <2>3. ToSet(logCh) = ToSet(logCh') \cup {Head(logCh)}
    BY <2>1, QueueHead DEF TypeOK, Places
  <2>4. ToSet(entries') = ToSet(entries) \cup {Head(logCh)}
    BY <2>1, <2>2, AppendSet DEF TypeOK
  <2>. QED
    BY <1>1, <2>1, <2>3, <2>4 DEF Queued, Ended
<1>9. CASE LoggerSeesStop \/ LoggerDrained \/ CloseStop \/ Exit \/ Tick
  BY <1>2, <1>9 DEF LoggerSeesStop, LoggerDrained, CloseStop, Exit, Tick
<1>10. CASE UNCHANGED vars
  BY <1>2, <1>10 DEF vars
<1>. QED
  BY <1>3, <1>4, <1>5, <1>6, <1>7, <1>8, <1>9, <1>10 DEF Next, FlushStep, LoggerStep

-----------------------------------------------------------------------------
(***************************************************************************)
(* The inductive invariant holds for all messages, buffers and goroutines. *)
(***************************************************************************)
THEOREM Invariant == Spec => []DInv
<1>1. DInv /\ [Next]_vars => DInv'
  BY TypeStep, CoveredStep, PlacesStep, EndsStep, SomewhereStep DEF DInv
<1>. QED
  BY <1>1, InitDInv, PTL DEF Spec

(***************************************************************************)
(* logCh never holds more than its buffer, a timer is never set beyond its *)
(* timeout, and a flush has a batch exactly while it is about to write it. *)
(***************************************************************************)
THEOREM TypeCorrect == Spec => []TypeOK
<1>1. DInv => TypeOK
  BY DEF DInv
<1>. QED
  BY <1>1, Invariant, PTL

(***************************************************************************)
(* drops.go:42-76.  No batch is stranded without a timer or a flush,       *)
(* however many timers go off while others are set again.                  *)
(***************************************************************************)
THEOREM CoverHolds == Spec => []BatchCovered
<1>1. DInv => BatchCovered
  BY DEF DInv
<1>. QED
  BY <1>1, Invariant, PTL

(***************************************************************************)
(* drops.go:53-69, 78-104, invocation.go:249-286.  Every emitted message   *)
(* is in one place and once, however many flushes there are at once: on    *)
(* its way, or at one of its four ends.                                    *)
(***************************************************************************)
THEOREM OnePlaceHolds == Spec => []OnePlace
<1>1. DInv => OnePlace
  <2>. SUFFICES ASSUME DInv PROVE OnePlace
    OBVIOUS
  <2>1. ToSet(logCh \o entries) = Queued /\ IsInjective(logCh \o entries)
    BY JoinQueues DEF DInv, TypeOK, Places, Queued
  <2>2. emitted = Queued \cup (UNION {Held(g) : g \in Goroutines}) \cup Ended
    <3>1. Ended \subseteq emitted /\ Queued \subseteq emitted
          /\ \A g \in Goroutines : Held(g) \subseteq emitted
      BY DEF DInv, TypeOK, Places, Ended
    <3>2. ASSUME NEW m \in emitted
          PROVE  m \in Queued \cup (UNION {Held(g) : g \in Goroutines}) \cup Ended
      BY <3>2 DEF DInv, Somewhere
    <3>3. ASSUME NEW m \in Queued \cup (UNION {Held(g) : g \in Goroutines}) \cup Ended
          PROVE  m \in emitted
      <4>1. CASE m \in Queued \cup Ended
        BY <3>1, <4>1
      <4>2. CASE m \in UNION {Held(g) : g \in Goroutines}
        <5>1. PICK g \in Goroutines : m \in Held(g)
          BY <4>2
        <5>. QED
          BY <3>1, <5>1
      <4>. QED
        BY <3>3, <4>1, <4>2
    <3>. QED
      BY <3>2, <3>3
  <2>. QED
    BY <2>1, <2>2 DEF DInv, Places, EndsApart, Held, Ended, OnePlace
<1>. QED
  BY <1>1, Invariant, PTL
=============================================================================
