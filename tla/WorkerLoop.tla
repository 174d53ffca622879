----------------------------- MODULE WorkerLoop -----------------------------
(***************************************************************************)
(* The goroutine skeleton that every lane of pool.go repeats: a mutex, a   *)
(* condition variable, a stop channel and n workers that run               *)
(*                                                                         *)
(*     lock; while queue empty { if stopCh closed return; cond.Wait() }    *)
(*     take one; unlock; run it; again                                     *)
(*                                                                         *)
(* The queue is not here: a lane module extends this one, adds its queue   *)
(* and conjoins the guard on it to each step.  A step is one access to     *)
(* something another goroutine can change, so the test of stopCh and the   *)
(* entry into cond.Wait() are two steps although p.mu is held across both: *)
(* stop() closes the channel and broadcasts without taking p.mu.           *)
(***************************************************************************)
EXTENDS Naturals, FiniteSets

CONSTANTS Workers,    \* the worker goroutines of the lane
          NoWorker    \* value of mutex while nobody holds it across a step

ASSUME WorkersAssumption == IsFiniteSet(Workers) /\ NoWorker \notin Workers

VARIABLES
  mutex,     \* the worker that holds p.mu, or NoWorker
  wpc,       \* where each worker is in its loop
  stopped    \* p.stopCh has been closed

loopVars == <<mutex, wpc, stopped>>

(***************************************************************************)
(* lock    about to take p.mu (loop head, or woken inside cond.Wait)       *)
(* check   holds p.mu, at the test of the queue                            *)
(* park    holds p.mu, found stopCh open, has not yet entered cond.Wait    *)
(* asleep  on the condition variable's notify list, p.mu released          *)
(* run     inside t.run()                                                  *)
(* exited  the goroutine has returned                                      *)
(***************************************************************************)
WorkerPC == {"lock", "check", "park", "asleep", "run", "exited"}

At(pcs) == {w \in Workers : wpc[w] \in pcs}

LoopTypeOK ==
  /\ mutex \in Workers \cup {NoWorker}
  /\ wpc \in [Workers -> WorkerPC]
  /\ stopped \in BOOLEAN

LoopInit ==
  /\ mutex = NoWorker
  /\ wpc = [w \in Workers |-> "lock"]
  /\ stopped = FALSE

MoveTo(w, from, to) == wpc[w] = from /\ wpc' = [wpc EXCEPT ![w] = to]

-----------------------------------------------------------------------------
(* Steps of a worker. *)

\* p.mu.Lock(), at the loop head or on the way out of cond.Wait()
Acquire(w) ==
  /\ mutex = NoWorker
  /\ MoveTo(w, "lock", "check")
  /\ mutex' = w
  /\ UNCHANGED stopped

\* the queue has a task: it is popped, p.mu released, t.run() entered
Take(w) ==
  /\ MoveTo(w, "check", "run")
  /\ mutex' = NoWorker
  /\ UNCHANGED stopped

\* the queue is empty and stopCh is closed: unlock and return
Leave(w) ==
  /\ stopped
  /\ MoveTo(w, "check", "exited")
  /\ mutex' = NoWorker
  /\ UNCHANGED stopped

\* the queue is empty and the select on stopCh fell to its default
SeeOpen(w) ==
  /\ ~stopped
  /\ MoveTo(w, "check", "park")
  /\ UNCHANGED <<mutex, stopped>>

\* cond.Wait(): join the notify list, release p.mu, sleep
Wait(w) ==
  /\ MoveTo(w, "park", "asleep")
  /\ mutex' = NoWorker
  /\ UNCHANGED stopped

\* t.run() returned
Return(w) ==
  /\ MoveTo(w, "run", "lock")
  /\ UNCHANGED <<mutex, stopped>>

-----------------------------------------------------------------------------
(* Steps other goroutines take on the lane's synchronisation. *)

\* cond.Signal(): wakes one waiter, and is lost when there is none
Signal ==
  /\ \/ \E w \in Workers : MoveTo(w, "asleep", "lock")
     \/ At({"asleep"}) = {} /\ UNCHANGED wpc
  /\ UNCHANGED <<mutex, stopped>>

\* cond.Broadcast(): wakes every waiter there is at this moment
Broadcast ==
  /\ wpc' = [w \in Workers |-> IF wpc[w] = "asleep" THEN "lock" ELSE wpc[w]]
  /\ UNCHANGED <<mutex, stopped>>

\* close(p.stopCh)
CloseStop ==
  /\ stopped' = TRUE
  /\ UNCHANGED <<mutex, wpc>>

-----------------------------------------------------------------------------
\* p.mu is held across steps exactly by a worker between Lock and Unlock/Wait
MutexHeld ==
  \A w \in Workers : wpc[w] \in {"check", "park"} <=> mutex = w
=============================================================================
