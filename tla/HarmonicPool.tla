---------------------------- MODULE HarmonicPool ----------------------------
(***************************************************************************)
(* hPool: the worker loop of WorkerLoop over the heap of HeapQueue, with   *)
(* Factory.AssignH in front and Stop behind.  A task is an hTask value, so *)
(* its priority is part of it; Tasks holds every task a caller might       *)
(* submit and MaxCalls bounds how many of them are.                        *)
(***************************************************************************)
EXTENDS WorkerLoop, HeapQueue, SequencesExt

CONSTANTS Tasks,      \* records with fields id, group and order
          NoTask,     \* value of job for a worker that runs nothing
          MaxCalls    \* bound on the number of calls made to AssignH

\* group is an int, order a float64: a number or not one
ASSUME HTasksAssumption ==
  /\ MaxCalls \in Nat
  /\ NoTask \notin Tasks
  /\ NaN \notin Int
  /\ \A t \in Tasks : t.group \in Int /\ t.order \in Int \cup {NaN}

VARIABLES
  running,    \* engine.running
  heap,       \* p.queue
  call,       \* how far each call to AssignH has got
  job,        \* the task a worker runs
  stopper,    \* how far Engine.Stop has got
  arrived,    \* observer: tasks pushed and not yet popped, oldest first
  finished    \* observer: tasks whose t.run() returned

vars == <<loopVars, running, heap, call, job, stopper, arrived, finished>>

Init ==
  /\ LoopInit
  /\ running = TRUE
  /\ heap = <<>>
  /\ call = [t \in Tasks |-> "idle"]
  /\ job = [w \in Workers |-> NoTask]
  /\ stopper = "idle"
  /\ arrived = <<>>
  /\ finished = {}

-----------------------------------------------------------------------------
(* A call to Factory.AssignH. *)

Calls == {t \in Tasks : call[t] # "idle"}

Progress(t, from, to) == call[t] = from /\ call' = [call EXCEPT ![t] = to]

Refused(t) == ~running \/ ~ValidPriority(t)

Validate(t) ==
  /\ Cardinality(Calls) < MaxCalls
  /\ Progress(t, "idle", IF Refused(t) THEN "refused" ELSE "validated")
  /\ UNCHANGED <<loopVars, running, heap, job, stopper, arrived, finished>>

Submit(t) ==
  /\ mutex = NoWorker
  /\ Progress(t, "validated", "pushed")
  /\ heap' = HeapPush(heap, t)
  /\ arrived' = Append(arrived, t)
  /\ UNCHANGED <<loopVars, running, job, stopper, finished>>

\* faulty variant: signal only if the heap was empty before
SignalFirstOnly(t) ==
  /\ Progress(t, "pushed", "accepted")
  /\ IF Len(heap) = 1 THEN Signal ELSE UNCHANGED loopVars
  /\ UNCHANGED <<running, heap, job, stopper, arrived, finished>>

SignalSubmit(t) ==
  /\ Progress(t, "pushed", "accepted")
  /\ Signal
  /\ UNCHANGED <<running, heap, job, stopper, arrived, finished>>

-----------------------------------------------------------------------------
(* A worker goroutine. *)

\* the observer's line once t has left it
Without(line, t) == RemoveAt(line, CHOOSE i \in DOMAIN line : line[i] = t)

LockQueue(w) ==
  /\ Acquire(w)
  /\ UNCHANGED <<running, heap, call, job, stopper, arrived, finished>>

\* faulty variant: the front is sliced off instead of heap.Pop
DequeueFront(w) ==
  /\ heap # <<>>
  /\ Take(w)
  /\ job' = [job EXCEPT ![w] = Head(heap)]
  /\ heap' = Tail(heap)
  /\ arrived' = Without(arrived, Head(heap))
  /\ UNCHANGED <<running, call, stopper, finished>>

Dequeue(w) ==
  /\ heap # <<>>
  /\ Take(w)
  /\ job' = [job EXCEPT ![w] = HeapTop(heap)]
  /\ heap' = HeapRest(heap)
  /\ arrived' = Without(arrived, HeapTop(heap))
  /\ UNCHANGED <<running, call, stopper, finished>>

\* faulty variant: stopCh is tested before the heap is drained
ExitAtOnce(w) ==
  /\ Leave(w)
  /\ UNCHANGED <<running, heap, call, job, stopper, arrived, finished>>

Exit(w) ==
  /\ heap = <<>>
  /\ Leave(w)
  /\ UNCHANGED <<running, heap, call, job, stopper, arrived, finished>>

FindEmpty(w) ==
  /\ heap = <<>>
  /\ SeeOpen(w)
  /\ UNCHANGED <<running, heap, call, job, stopper, arrived, finished>>

Sleep(w) ==
  /\ Wait(w)
  /\ UNCHANGED <<running, heap, call, job, stopper, arrived, finished>>

FinishTask(w) ==
  /\ Return(w)
  /\ finished' = finished \cup {job[w]}
  /\ job' = [job EXCEPT ![w] = NoTask]
  /\ UNCHANGED <<running, heap, call, stopper, arrived>>

WorkerStep(w) ==
  LockQueue(w) \/ Dequeue(w) \/ Exit(w) \/ FindEmpty(w) \/ Sleep(w) \/ FinishTask(w)

-----------------------------------------------------------------------------
(* Engine.Stop as this pool sees it. *)

StopRunning ==
  /\ stopper = "idle"
  /\ stopper' = "draining"
  /\ running' = FALSE
  /\ UNCHANGED <<loopVars, heap, call, job, arrived, finished>>

StopClose ==
  /\ stopper = "draining"
  /\ stopper' = "closed"
  /\ CloseStop
  /\ UNCHANGED <<running, heap, call, job, arrived, finished>>

StopBroadcast ==
  /\ stopper = "closed"
  /\ stopper' = "done"
  /\ Broadcast
  /\ UNCHANGED <<running, heap, call, job, arrived, finished>>

-----------------------------------------------------------------------------
CallStep(t) == Validate(t) \/ Submit(t) \/ SignalSubmit(t)

Next ==
  \/ \E t \in Tasks : CallStep(t)
  \/ \E w \in Workers : WorkerStep(w)
  \/ StopRunning \/ StopClose \/ StopBroadcast

Spec == Init /\ [][Next]_vars

\* as for the FIFO lanes: goroutines run, tasks return, a call begun goes on
Fairness ==
  /\ \A w \in Workers : WF_vars(WorkerStep(w))
  /\ \A t \in Tasks : WF_vars(Submit(t)) /\ WF_vars(SignalSubmit(t))
  /\ WF_vars(StopClose)
  /\ WF_vars(StopBroadcast)

FairSpec == Spec /\ Fairness

-----------------------------------------------------------------------------
\* calls that pushed their task and have not signalled yet
Signalling == {t \in Tasks : call[t] = "pushed"}

(***************************************************************************)
(* pool.go:244-263.  While a worker sleeps, every task in the heap is      *)
(* covered by a Signal still to come or by a worker on its way to it.      *)
(***************************************************************************)
WakeupsCoverHeap ==
  At({"asleep"}) # {} =>
    Len(heap) <= Cardinality(Signalling) + Cardinality(At({"lock", "check"}))

(***************************************************************************)
(* factory.go:48-58, pool.go:251-273.  A task in the heap before Stop      *)
(* closed the pool runs to its end, whatever its priority.                 *)
(***************************************************************************)
PushedBeforeStopRuns ==
  \A t \in Tasks :
    (t \in ToSet(heap) /\ ~stopped) ~> (t \in finished)

-----------------------------------------------------------------------------
\* the state of a task, told from its call, the heap and the workers
StateOf(t) ==
  IF call[t] = "idle" THEN "new"
  ELSE IF call[t] = "refused" THEN "refused"
  ELSE IF call[t] = "validated" THEN "admitted"
  ELSE IF t \in ToSet(heap) THEN "waiting"
  ELSE IF t \in finished THEN "done"
  ELSE "running"

TaskStates == [t \in Tasks |-> StateOf(t)]

\* every task has an order that is a number: factory.go:74-79 also admits NaN
Numbered == \A t \in Tasks : t.order # NaN

LeastFirst(line, i) ==
  \A j \in DOMAIN line :
    /\ line[i].group <= line[j].group
    /\ Numbered => ~Less(line[j], line[i])

Promise == INSTANCE TaskPromise WITH
  Direct <- {},
  Width <- Cardinality(Workers),
  MayStart <- LeastFirst,
  state <- TaskStates,
  line <- arrived,
  open <- running

(***************************************************************************)
(* factory.go:48-58, pool.go:35-52, 244-273.  hPool keeps the promise of   *)
(* TaskPromise with priority order: of all tasks that joined and have not  *)
(* started, the next to start is one with none in a lower group and, while *)
(* every order is a number, with none below it in its group, whatever      *)
(* pushes and pops of several workers came before.                         *)
(***************************************************************************)
KeepsPromise == Promise!Spec
=============================================================================
