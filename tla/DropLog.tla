------------------------------ MODULE DropLog ------------------------------
(***************************************************************************)
(* The way of a drop message from emit to a drop log file.  emit puts it   *)
(* in logCh or loses it; the logger goroutine adds it to the batcher,      *)
(* whose timer is set to go off Timeout after the last add; the timer's    *)
(* goroutine, and at the end Engine.Stop and the logger, flush the batch   *)
(* into a file named by the second of the flush: a second flush within the *)
(* second replaces it.  A step under b.mu is one action, and so is the     *)
(* os.WriteFile of a batch, which truncates and writes: two in one second  *)
(* come one after the other here, and what the longer one may leave behind *)
(* the shorter is not looked at.  flushNow looks at b.timer without b.mu.  *)
(* The pool counters that runDropFlusher swaps are never incremented, so   *)
(* it adds nothing and is left out, and so is what the terminal shows.     *)
(***************************************************************************)
EXTENDS Naturals, Sequences, SequencesExt, FiniteSets

CONSTANTS
  Msgs,       \* drop messages, each emitted at most once
  BufSize,    \* capacity of logCh
  Timers,     \* bound: the timers there are at one time
  Flushes,    \* bound: the timer goroutines there are at one time
  Timeout,    \* b.timeout, in ticks of one second
  Stop,       \* the goroutine that calls Engine.Stop
  Logger,     \* the goroutine of runLogger
  Off         \* no timer; a timer that is not set

ASSUME DropAssumption ==
  /\ {BufSize, Timeout} \subseteq Nat \ {0}
  /\ Stop # Logger /\ {Stop, Logger} \cap Flushes = {}
  /\ Off \notin Timers \cup Nat

VARIABLES
  logCh,      \* e.logCh
  entries,    \* b.entries
  timer,      \* b.timer
  left,       \* seconds until a timer goes off
  pc,         \* where each goroutine is
  seen,       \* the timer that flushNow read
  batch,      \* the entries a flush took and has not written
  closed,     \* e.stopCh is closed
  exited,     \* the process ended after Stop returned
  file,       \* the drop log named by the present second
  emitted,    \* observer: messages emit was called with
  lost,       \* observer: those that found logCh full
  filed,      \* observer: those that are in a drop log
  failed,     \* observer: those in a batch that could not be written
  replaced    \* observer: those that were in a drop log that is replaced

bvars == <<entries, timer, left>>
wvars == <<file, filed, failed, replaced>>
fvars == <<seen, batch, wvars>>
vars == <<logCh, bvars, pc, fvars, closed, exited, emitted, lost>>

Goroutines == Flushes \cup {Stop, Logger}

TypeOK ==
  /\ logCh \in Seq(Msgs) /\ Len(logCh) <= BufSize
  /\ entries \in Seq(Msgs)
  /\ timer \in Timers \cup {Off}
  /\ left \in [Timers -> 0..Timeout \cup {Off}]
  /\ pc \in [Goroutines -> {"idle", "loop", "drain", "look", "halt", "take", "write", "done"}]
  /\ seen \in [Goroutines -> Timers \cup {Off}]
  /\ batch \in [Goroutines -> Seq(Msgs)]
  /\ \A g \in Goroutines : pc[g] = "write" <=> batch[g] # <<>>
  /\ closed \in BOOLEAN /\ exited \in BOOLEAN
  /\ file \in Seq(Msgs)
  /\ emitted \subseteq Msgs
  /\ lost \cup filed \cup failed \cup replaced \subseteq emitted

Init ==
  /\ logCh = <<>> /\ entries = <<>>
  /\ timer = Off
  /\ left = [t \in Timers |-> Off]
  /\ pc = [g \in Goroutines |-> IF g = Logger THEN "loop" ELSE "idle"]
  /\ seen = [g \in Goroutines |-> Off]
  /\ batch = [g \in Goroutines |-> <<>>]
  /\ closed = FALSE /\ exited = FALSE
  /\ file = <<>>
  /\ emitted = {} /\ lost = {} /\ filed = {} /\ failed = {} /\ replaced = {}

\* nothing happens any more once the process has ended
Goto(g, from, to) == ~exited /\ pc[g] = from /\ pc' = [pc EXCEPT ![g] = to]

-----------------------------------------------------------------------------
\* emit(LogDropped, ...): a full channel loses the message
Emit(m) ==
  /\ ~exited /\ m \notin emitted
  /\ emitted' = emitted \cup {m}
  /\ IF Len(logCh) < BufSize
     THEN logCh' = Append(logCh, m) /\ UNCHANGED lost
     ELSE lost' = lost \cup {m} /\ UNCHANGED logCh
  /\ UNCHANGED <<bvars, pc, fvars, closed, exited>>

-----------------------------------------------------------------------------
(* The batcher. *)

\* timers nobody holds and that are not set
Fresh == {t \in Timers : left[t] = Off /\ t # timer /\ \A g \in Goroutines : seen[g] # t}

\* b.add: set b.timer again, or start a new one
Add(m) ==
  /\ entries' = Append(entries, m)
  /\ IF timer # Off
     THEN left' = [left EXCEPT ![timer] = Timeout] /\ UNCHANGED timer
     ELSE LET t == CHOOSE t \in Fresh : TRUE IN
            Fresh # {} /\ timer' = t /\ left' = [left EXCEPT ![t] = Timeout]

\* a timer goes off: a goroutine of its own calls flush
Fire(t) ==
  /\ left[t] = 0
  /\ left' = [left EXCEPT ![t] = Off]
  /\ \E g \in Flushes : Goto(g, "idle", "take")
  /\ UNCHANGED <<logCh, entries, timer, fvars, closed, exited, emitted, lost>>

\* flushNow reads b.timer
Look(g) ==
  /\ Goto(g, "look", IF timer = Off THEN "take" ELSE "halt")
  /\ seen' = [seen EXCEPT ![g] = timer]
  /\ UNCHANGED <<logCh, bvars, batch, wvars, closed, exited, emitted, lost>>

After(g) == IF g \in Flushes THEN "idle" ELSE "done"

\* faulty variant: flushNow stops the timer and leaves the batch to others
HaltOnly(g) ==
  /\ Goto(g, "halt", After(g))
  /\ left' = [left EXCEPT ![seen[g]] = Off]
  /\ seen' = [seen EXCEPT ![g] = Off]
  /\ UNCHANGED <<logCh, entries, timer, batch, wvars,
                 closed, exited, emitted, lost>>

\* and stops it, which does not call back a flush that has begun
Halt(g) ==
  /\ Goto(g, "halt", "take")
  /\ left' = [left EXCEPT ![seen[g]] = Off]
  /\ seen' = [seen EXCEPT ![g] = Off]
  /\ UNCHANGED <<logCh, entries, timer, batch, wvars,
                 closed, exited, emitted, lost>>

\* faulty variant: the batch is not emptied
TakeCopy(g) ==
  /\ Goto(g, "take", IF entries = <<>> THEN After(g) ELSE "write")
  /\ batch' = [batch EXCEPT ![g] = entries]
  /\ timer' = Off
  /\ UNCHANGED <<logCh, entries, left, seen, wvars,
                 closed, exited, emitted, lost>>

\* faulty variant: a flush that finds no entries writes a file all the same
TakeAnyway(g) ==
  /\ Goto(g, "take", "write")
  /\ batch' = [batch EXCEPT ![g] = entries]
  /\ entries' = <<>>
  /\ timer' = Off
  /\ UNCHANGED <<logCh, left, seen, wvars,
                 closed, exited, emitted, lost>>

\* flush, under b.mu: take the batch and forget the timer
Take(g) ==
  /\ Goto(g, "take", IF entries = <<>> THEN After(g) ELSE "write")
  /\ batch' = [batch EXCEPT ![g] = entries]
  /\ entries' = <<>>
  /\ timer' = Off
  /\ UNCHANGED <<logCh, left, seen, wvars,
                 closed, exited, emitted, lost>>

\* the flush is done with its batch, and what was in the file is gone or not
Written(g, gone) ==
  /\ Goto(g, "write", After(g))
  /\ replaced' = replaced \cup gone
  /\ batch' = [batch EXCEPT ![g] = <<>>]
  /\ UNCHANGED <<logCh, bvars, seen, closed, exited, emitted, lost>>

\* writeLog: the file of this second is created, or truncated if it is there
Write(g) ==
  /\ Written(g, ToSet(file))
  /\ file' = batch[g]
  /\ filed' = (filed \ ToSet(file)) \cup ToSet(batch[g])
  /\ UNCHANGED failed

\* writeLog fails, before it has truncated the file or after
WriteFails(g) ==
  /\ \E kept \in {file, <<>>} :
       /\ Written(g, ToSet(file) \ ToSet(kept))
       /\ file' = kept
       /\ filed' = filed \ (ToSet(file) \ ToSet(kept))
  /\ failed' = failed \cup ToSet(batch[g])

FlushStep(g) == Look(g) \/ Halt(g) \/ Take(g) \/ Write(g) \/ WriteFails(g)

-----------------------------------------------------------------------------
(* runLogger. *)

LoggerAdds ==
  /\ ~exited /\ pc[Logger] \in {"loop", "drain"}
  /\ logCh # <<>>
  /\ Add(Head(logCh))
  /\ logCh' = Tail(logCh)
  /\ UNCHANGED <<pc, fvars, closed, exited, emitted, lost>>

LoggerSeesStop ==
  /\ closed
  /\ Goto(Logger, "loop", "drain")
  /\ UNCHANGED <<logCh, bvars, fvars, closed, exited, emitted, lost>>

\* faulty variant: the logger leaves what is in logCh
LoggerQuits ==
  /\ Goto(Logger, "drain", "look")
  /\ UNCHANGED <<logCh, bvars, fvars, closed, exited, emitted, lost>>

LoggerDrained ==
  /\ logCh = <<>>
  /\ Goto(Logger, "drain", "look")
  /\ UNCHANGED <<logCh, bvars, fvars, closed, exited, emitted, lost>>

LoggerStep == LoggerAdds \/ LoggerSeesStop \/ LoggerDrained

-----------------------------------------------------------------------------
\* the end of Engine.Stop: close(e.stopCh), then flushNow
CloseStop ==
  /\ Goto(Stop, "idle", "look")
  /\ closed' = TRUE
  /\ UNCHANGED <<logCh, bvars, fvars, exited, emitted, lost>>

\* main returns after Stop
Exit ==
  /\ ~exited /\ pc[Stop] = "done"
  /\ exited' = TRUE
  /\ UNCHANGED <<logCh, bvars, pc, fvars, closed, emitted, lost>>

\* a second passes
Tick ==
  /\ ~exited
  /\ left' = [t \in Timers |-> IF left[t] \in {0, Off} THEN left[t] ELSE left[t] - 1]
  /\ file' = <<>>
  /\ UNCHANGED <<logCh, entries, timer, pc, seen, batch, filed, failed, replaced,
                 closed, exited, emitted, lost>>

Next ==
  \/ \E m \in Msgs : Emit(m)
  \/ \E t \in Timers : Fire(t)
  \/ \E g \in Goroutines : FlushStep(g)
  \/ LoggerStep
  \/ CloseStop \/ Exit \/ Tick

Spec == Init /\ [][Next]_vars

\* goroutines run, timers go off, time passes; nobody has to call Stop
Fairness ==
  /\ \A g \in Goroutines : WF_vars(FlushStep(g))
  /\ \A t \in Timers : WF_vars(Fire(t))
  /\ WF_vars(LoggerStep)
  /\ WF_vars(Tick)

FairSpec == Spec /\ Fairness

-----------------------------------------------------------------------------
(***************************************************************************)
(* drops.go:42-76.  No batch is stranded: while there are entries, a timer *)
(* is set or a flush is on its way to them, although flushNow stops the    *)
(* timer it saw without b.mu, add sets one again that may have gone off,   *)
(* and a timer set again in that moment outlives its batch.                *)
(***************************************************************************)
BatchCovered ==
  entries # <<>> =>
    \/ \E t \in Timers : left[t] # Off
    \/ \E g \in Goroutines : pc[g] = "take"

(***************************************************************************)
(* drops.go:53-69, 78-104, invocation.go:249-286.  Timer goroutines, Stop  *)
(* and the logger flush at once, and still every message that was emitted  *)
(* is in one place, and there once: lost to a full logCh, in logCh or in   *)
(* the batch, with one flush, in a file, lost because its write failed, or *)
(* lost with a file that another flush of the same second has replaced.    *)
(***************************************************************************)
OnePlace ==
  LET queued == logCh \o entries
      held(g) == ToSet(batch[g])
      ended == lost \cup filed \cup failed \cup replaced
  IN  /\ emitted = ToSet(queued) \cup (UNION {held(g) : g \in Goroutines}) \cup ended
      /\ IsInjective(queued) /\ IsInjective(file)
      /\ \A g \in Goroutines : IsInjective(batch[g])
      /\ ToSet(queued) \cap ended = {}
      /\ \A g \in Goroutines : held(g) \cap (ToSet(queued) \cup ended) = {}
      /\ \A g, h \in Goroutines : g # h => held(g) \cap held(h) = {}
      /\ lost \cap (filed \cup failed \cup replaced) = {}
      /\ filed \cap (failed \cup replaced) = {}
      /\ failed \cap replaced = {}
      /\ ToSet(file) \subseteq filed

(***************************************************************************)
(* invocation.go:260-286, drops.go:42-104.  What is in logCh or in the     *)
(* batch before Stop closes stopCh is written, by way of the timer, of     *)
(* Stop or of the logger draining logCh, if the process lives.  In the end *)
(* it is in a file, or its write failed, or a flush of the same second has *)
(* replaced its file: Stop and the logger flush one after the other, and   *)
(* the later of them may lose what the earlier wrote, against              *)
(* README.md:277.                                                          *)
(***************************************************************************)
PendingIsFlushed ==
  \A m \in Msgs :
    (m \in ToSet(logCh \o entries) /\ ~closed) ~>
      [](m \in filed \/ m \in failed \/ m \in replaced \/ exited)
=============================================================================
