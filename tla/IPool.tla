------------------------------- MODULE IPool -------------------------------
(***************************************************************************)
(* iPool with its two lanes: the standard lane of AssignI and iCore, the   *)
(* command receipt lane of AssignR and of the TCP and UDP readers.  Each   *)
(* lane is a WorkerPool with a mutex, condition variable, queue and        *)
(* workers of its own; they share engine.running, the stop channel and the *)
(* Stop that closes it once and then wakes one lane after the other.       *)
(***************************************************************************)
EXTENDS Naturals, FiniteSets, SequencesExt

CONSTANTS
  IWorkers, ITasks,   \* workers and calls of the standard lane
  RWorkers, RTasks,   \* workers and calls of iCore
  RDirect,            \* receipts submitted by the TCP and UDP readers
  NoWorker, NoTask

ASSUME LanesAssumption ==
  /\ RDirect \subseteq RTasks
  /\ ITasks \cap RTasks = {} /\ IWorkers \cap RWorkers = {}

VARIABLES
  running, stopCh,                  \* engine.running; p.stopCh is closed
  mu, iwpc, queue, icall, ijob,     \* the standard lane
  iappended, istarted, ifinished,
  rMu, rwpc, rQueue, rcall, rjob,   \* iCore
  rappended, rstarted, rfinished,
  istop, rstop                      \* how far Stop has got with each lane

ivars == <<mu, iwpc, queue, icall, ijob, iappended, istarted, ifinished>>
rvars == <<rMu, rwpc, rQueue, rcall, rjob, rappended, rstarted, rfinished>>
shared == <<running, stopCh, istop, rstop>>
vars == <<ivars, rvars, shared>>

Std == INSTANCE WorkerPool WITH
  Workers <- IWorkers, Tasks <- ITasks, NilTasks <- {}, Direct <- {},
  mutex <- mu, wpc <- iwpc, stopped <- stopCh, call <- icall, job <- ijob,
  stopper <- istop, appended <- iappended, started <- istarted, finished <- ifinished

Core == INSTANCE WorkerPool WITH
  Workers <- RWorkers, Tasks <- RTasks, NilTasks <- {}, Direct <- RDirect,
  mutex <- rMu, wpc <- rwpc, stopped <- stopCh, queue <- rQueue, call <- rcall, job <- rjob,
  stopper <- rstop, appended <- rappended, started <- rstarted, finished <- rfinished

Init == Std!Init /\ Core!Init

-----------------------------------------------------------------------------
(* The standard lane moves, iCore does not; and the other way round. *)

ICall(t) == Std!CallStep(t) /\ UNCHANGED <<rvars, rstop>>
IWork(w) == Std!WorkerStep(w) /\ UNCHANGED <<rvars, rstop>>

ValidateR(t) == Core!Validate(t) /\ UNCHANGED <<ivars, istop>>

SubmitR(t) == Core!Submit(t) /\ UNCHANGED <<ivars, istop>>

\* faulty variant: submitR signals the condition variable of the standard lane
SignalOtherLane(t) ==
  /\ Core!Progress(t, "appended", "accepted")
  /\ Std!Signal
  /\ UNCHANGED <<queue, icall, ijob, iappended, istarted, ifinished, running, istop, rstop>>
  /\ UNCHANGED <<rMu, rwpc, rQueue, rjob, rappended, rstarted, rfinished>>

SignalR(t) == Core!SignalSubmit(t) /\ UNCHANGED <<ivars, istop>>

RWork(w) == Core!WorkerStep(w) /\ UNCHANGED <<ivars, istop>>

-----------------------------------------------------------------------------
(* Stop: one flag, one channel, two broadcasts. *)

StopRunning == Std!StopRunning /\ Core!StopRunning

StopClose == Std!StopClose /\ Core!StopClose

WakeStd == Std!StopBroadcast /\ UNCHANGED <<rvars, rstop>>

WakeCore == istop = "done" /\ Core!StopBroadcast /\ UNCHANGED <<ivars, istop>>

Next ==
  \/ \E t \in ITasks : ICall(t)
  \/ \E w \in IWorkers : IWork(w)
  \/ \E t \in RTasks : ValidateR(t) \/ SubmitR(t) \/ SignalR(t)
  \/ \E w \in RWorkers : RWork(w)
  \/ StopRunning \/ StopClose \/ WakeStd \/ WakeCore

Spec == Init /\ [][Next]_vars

(***************************************************************************)
(* iCore's goroutines and Stop run, and receipts return.  Nothing is asked *)
(* of the standard lane: its tasks may never return.                       *)
(***************************************************************************)
Fairness ==
  /\ \A w \in RWorkers : WF_vars(RWork(w))
  /\ \A t \in RTasks : WF_vars(SubmitR(t) /\ rcall[t] = "validated") /\ WF_vars(SignalR(t))
  /\ WF_vars(StopClose) /\ WF_vars(WakeStd) /\ WF_vars(WakeCore)

FairSpec == Spec /\ Fairness

-----------------------------------------------------------------------------
(***************************************************************************)
(* README.md:63 "general work cannot delay command receipt".  A receipt    *)
(* queued before Stop closed the channel runs to its end even if no task   *)
(* of the standard lane ever returns and its workers are all stuck.        *)
(***************************************************************************)
ReceiptNotDelayed ==
  \A t \in RTasks :
    (t \in ToSet(rQueue) /\ ~stopCh) ~> (t \in rfinished)

(***************************************************************************)
(* pool.go:95-120, 149-154.  iCore's workers come home after Stop by the   *)
(* second broadcast, except from the window that OutsideWindowExits of     *)
(* WorkerPool names.                                                       *)
(***************************************************************************)
CoresComeHome ==
  \A w \in RWorkers :
    (rstop = "closed" /\ rwpc[w] # "park") ~> (rwpc[w] = "exited")

(***************************************************************************)
(* pool.go:88-154.  Both of the above: what iCore does, from its receipts  *)
(* to its exit, asks for nothing of the standard lane but the shared stop. *)
(***************************************************************************)
LanesApart == ReceiptNotDelayed /\ CoresComeHome
=============================================================================
