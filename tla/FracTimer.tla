----------------------------- MODULE FracTimer -----------------------------
(***************************************************************************)
(* The engine's fractional timer (timer.go).  ReadUs reads the clock and   *)
(* the origin, then takes a number from an atomic counter, and returns the *)
(* elapsed microseconds plus tickUs/1000 for each number taken so far,     *)
(* rounded down.  Reset sets the counter to 0 and then moves the origin;   *)
(* nothing holds ReadUs off meanwhile.  Two Resets, which may overlap in   *)
(* the code, come one after the other here: at each step of one RealOrder  *)
(* forgets what was read before, and so no step of another can break it.   *)
(***************************************************************************)
EXTENDS Integers

CONSTANTS
  Readers,    \* goroutines that call ReadUs: Push, tasks, handlers
  TickUs,     \* ft.tickUs, measured once by newFracTimer, at least 1
  Scale,      \* the divisor of ReadUs, 1000 in the code
  MaxNow,     \* bound on the clock
  MaxSeq      \* bound on the number of reads since a Reset

VARIABLES
  now,        \* the clock
  start,      \* ft.start
  seq,        \* ft.seq
  resetting,  \* a Reset has set the counter and not yet moved the origin
  pc,         \* where each reader is in ReadUs
  realUs,     \* the local realUs of each reader
  taken,      \* the local seq of each reader
  top,        \* observer: highest value returned since the last Reset
  floor       \* observer: top when the reader began, -1 if a Reset came between

vars == <<now, start, seq, resetting, pc, realUs, taken, top, floor>>

Init ==
  /\ now = 0 /\ start = 0 /\ seq = 0
  /\ resetting = FALSE
  /\ pc = [r \in Readers |-> "idle"]
  /\ realUs = [r \in Readers |-> 0]
  /\ taken = [r \in Readers |-> 0]
  /\ top = 0
  /\ floor = [r \in Readers |-> -1]

\* faulty variant: the fraction is kept within one tick
FracUsWrapped(n) == ((n * TickUs) \div Scale) % TickUs

\* the synthetic part of a value
FracUs(n) == (n * TickUs) \div Scale

Value(r) == realUs[r] + FracUs(taken[r])

Goto(r, from, to) == pc[r] = from /\ pc' = [pc EXCEPT ![r] = to]

-----------------------------------------------------------------------------
\* realUs := time.Since(ft.start)
ReadClock(r) ==
  /\ Goto(r, "idle", "real")
  /\ realUs' = [realUs EXCEPT ![r] = now - start]
  /\ floor' = [floor EXCEPT ![r] = IF resetting THEN -1 ELSE top]
  /\ UNCHANGED <<now, start, seq, resetting, taken, top>>

\* seq := ft.seq.Add(1)
TakeSeq(r) ==
  /\ seq < MaxSeq
  /\ Goto(r, "real", "seq")
  /\ seq' = seq + 1
  /\ taken' = [taken EXCEPT ![r] = seq + 1]
  /\ UNCHANGED <<now, start, resetting, realUs, top, floor>>

ReturnUs(r) ==
  /\ Goto(r, "seq", "idle")
  /\ top' = IF floor[r] # -1 /\ Value(r) > top THEN Value(r) ELSE top
  /\ realUs' = [realUs EXCEPT ![r] = 0]
  /\ taken' = [taken EXCEPT ![r] = 0]
  /\ floor' = [floor EXCEPT ![r] = -1]
  /\ UNCHANGED <<now, start, seq, resetting>>

\* the observers forget what was before a step of Reset
Forget == top' = 0 /\ floor' = [r \in Readers |-> -1]

ResetSeq ==
  /\ ~resetting
  /\ resetting' = TRUE
  /\ seq' = 0
  /\ Forget
  /\ UNCHANGED <<now, start, pc, realUs, taken>>

ResetStart ==
  /\ resetting
  /\ resetting' = FALSE
  /\ start' = now
  /\ Forget
  /\ UNCHANGED <<now, seq, pc, realUs, taken>>

Advance ==
  /\ now < MaxNow
  /\ now' = now + 1
  /\ UNCHANGED <<start, seq, resetting, pc, realUs, taken, top, floor>>

Next ==
  \/ \E r \in Readers : ReadClock(r) \/ TakeSeq(r) \/ ReturnUs(r)
  \/ ResetSeq \/ ResetStart \/ Advance

Spec == Init /\ [][Next]_vars

-----------------------------------------------------------------------------
(***************************************************************************)
(* timer.go:35 "ordering is real".  A call that begins after another has   *)
(* returned gets no lower value, although the clock and the counter are    *)
(* read apart and other readers take numbers in between - provided that no *)
(* step of a Reset comes between the two.                                  *)
(***************************************************************************)
RealOrder == \A r \in Readers : pc[r] = "seq" => Value(r) >= floor[r]
=============================================================================
