----------------------------- MODULE WorkerPool -----------------------------
(***************************************************************************)
(* One FIFO lane of pool.go with the calls that feed it and the Stop that  *)
(* ends it: the standard lane of iPool, and by instantiation its iCore     *)
(* lane (IPool.tla) and pPool, which repeat the same code.  Factory.Assign *)
(* is three steps, because other goroutines run between them: validate     *)
(* reads engine.running; submit appends under p.mu; submit signals after   *)
(* the unlock.                                                             *)
(***************************************************************************)
EXTENDS WorkerLoop, SequencesExt

CONSTANTS Tasks,      \* one per call; each call has a goroutine of its own
          NilTasks,   \* calls that pass fn == nil
          Direct,     \* tasks submitted without Factory.validate (tcp, udp, calibrate)
          NoTask      \* value of job for a worker that runs nothing

ASSUME TasksAssumption ==
  /\ IsFiniteSet(Tasks)
  /\ NilTasks \subseteq Tasks
  /\ Direct \subseteq Tasks
  /\ NoTask \notin Tasks

VARIABLES
  running,    \* engine.running
  queue,      \* p.queue
  call,       \* how far each call to Assign/submit has got
  job,        \* the task a worker runs
  stopper,    \* how far Engine.Stop has got
  appended,   \* observer: tasks in the order they entered p.queue
  started,    \* observer: tasks in the order t.run() was entered
  finished    \* observer: tasks whose t.run() returned

vars == <<loopVars, running, queue, call, job, stopper, appended, started, finished>>

CallState == {"idle", "validated", "appended", "accepted", "refused"}
StopState == {"idle", "draining", "closed", "done"}

TypeOK ==
  /\ LoopTypeOK
  /\ running \in BOOLEAN
  /\ queue \in Seq(Tasks)
  /\ call \in [Tasks -> CallState]
  /\ job \in [Workers -> Tasks \cup {NoTask}]
  /\ stopper \in StopState
  /\ appended \in Seq(Tasks)
  /\ started \in Seq(Tasks)
  /\ finished \in SUBSET Tasks

Init ==
  /\ LoopInit
  /\ running = TRUE
  /\ queue = <<>>
  /\ call = [t \in Tasks |-> "idle"]
  /\ job = [w \in Workers |-> NoTask]
  /\ stopper = "idle"
  /\ appended = <<>>
  /\ started = <<>>
  /\ finished = {}

-----------------------------------------------------------------------------
(* A call to Factory.AssignI, or to submit by the engine itself. *)

Progress(t, from, to) == call[t] = from /\ call' = [call EXCEPT ![t] = to]

\* faulty variant: validate looks at fn only
RefusedNilOnly(t) == t \in NilTasks

Refused(t) == ~running \/ t \in NilTasks

Validate(t) ==
  /\ t \notin Direct
  /\ Progress(t, "idle", IF Refused(t) THEN "refused" ELSE "validated")
  /\ UNCHANGED <<loopVars, running, queue, job, stopper, appended, started, finished>>

\* faulty variant: the append is not under p.mu
SubmitUnlocked(t) ==
  /\ Progress(t, IF t \in Direct THEN "idle" ELSE "validated", "appended")
  /\ queue' = Append(queue, t)
  /\ appended' = Append(appended, t)
  /\ UNCHANGED <<loopVars, running, job, stopper, started, finished>>

Submit(t) ==
  /\ mutex = NoWorker
  /\ Progress(t, IF t \in Direct THEN "idle" ELSE "validated", "appended")
  /\ queue' = Append(queue, t)
  /\ appended' = Append(appended, t)
  /\ UNCHANGED <<loopVars, running, job, stopper, started, finished>>

\* faulty variant: signal only if the queue was empty before
SignalFirstOnly(t) ==
  /\ Progress(t, "appended", "accepted")
  /\ IF queue = <<t>> THEN Signal ELSE UNCHANGED loopVars
  /\ UNCHANGED <<running, queue, job, stopper, appended, started, finished>>

SignalSubmit(t) ==
  /\ Progress(t, "appended", "accepted")
  /\ Signal
  /\ UNCHANGED <<running, queue, job, stopper, appended, started, finished>>

-----------------------------------------------------------------------------
(* A worker goroutine. *)

LockQueue(w) ==
  /\ Acquire(w)
  /\ UNCHANGED <<running, queue, call, job, stopper, appended, started, finished>>

\* faulty variant: the queue is used as a stack
DequeueNewest(w) ==
  /\ queue # <<>>
  /\ Take(w)
  /\ job' = [job EXCEPT ![w] = Last(queue)]
  /\ started' = Append(started, Last(queue))
  /\ queue' = Front(queue)
  /\ UNCHANGED <<running, call, stopper, appended, finished>>

Dequeue(w) ==
  /\ queue # <<>>
  /\ Take(w)
  /\ job' = [job EXCEPT ![w] = Head(queue)]
  /\ started' = Append(started, Head(queue))
  /\ queue' = Tail(queue)
  /\ UNCHANGED <<running, call, stopper, appended, finished>>

\* faulty variant: stopCh is tested before the queue is drained
ExitAtOnce(w) ==
  /\ Leave(w)
  /\ UNCHANGED <<running, queue, call, job, stopper, appended, started, finished>>

Exit(w) ==
  /\ queue = <<>>
  /\ Leave(w)
  /\ UNCHANGED <<running, queue, call, job, stopper, appended, started, finished>>

FindEmpty(w) ==
  /\ queue = <<>>
  /\ SeeOpen(w)
  /\ UNCHANGED <<running, queue, call, job, stopper, appended, started, finished>>

Sleep(w) ==
  /\ Wait(w)
  /\ UNCHANGED <<running, queue, call, job, stopper, appended, started, finished>>

\* faulty variant: the job is forgotten before it is recorded
FinishForgotten(w) ==
  /\ Return(w)
  /\ job' = [job EXCEPT ![w] = NoTask]
  /\ finished' = finished \cup {job'[w]}
  /\ UNCHANGED <<running, queue, call, stopper, appended, started>>

FinishTask(w) ==
  /\ Return(w)
  /\ finished' = finished \cup {job[w]}
  /\ job' = [job EXCEPT ![w] = NoTask]
  /\ UNCHANGED <<running, queue, call, stopper, appended, started>>

WorkerStep(w) ==
  LockQueue(w) \/ Dequeue(w) \/ Exit(w) \/ FindEmpty(w) \/ Sleep(w) \/ FinishTask(w)

-----------------------------------------------------------------------------
(* Engine.Stop as this lane sees it. *)

StopRunning ==
  /\ stopper = "idle"
  /\ stopper' = "draining"
  /\ running' = FALSE
  /\ UNCHANGED <<loopVars, queue, call, job, appended, started, finished>>

StopClose ==
  /\ stopper = "draining"
  /\ stopper' = "closed"
  /\ CloseStop
  /\ UNCHANGED <<running, queue, call, job, appended, started, finished>>

\* faulty variant: Stop wakes one sleeper instead of all
StopSignal ==
  /\ stopper = "closed"
  /\ stopper' = "done"
  /\ Signal
  /\ UNCHANGED <<running, queue, call, job, appended, started, finished>>

StopBroadcast ==
  /\ stopper = "closed"
  /\ stopper' = "done"
  /\ Broadcast
  /\ UNCHANGED <<running, queue, call, job, appended, started, finished>>

-----------------------------------------------------------------------------
CallStep(t) == Validate(t) \/ Submit(t) \/ SignalSubmit(t)

Next ==
  \/ \E t \in Tasks : CallStep(t)
  \/ \E w \in Workers : WorkerStep(w)
  \/ StopRunning \/ StopClose \/ StopBroadcast

Spec == Init /\ [][Next]_vars

(***************************************************************************)
(* The Go scheduler runs every runnable goroutine eventually, and tasks    *)
(* return.  Nobody has to call Assign or Stop; a call once begun goes on.  *)
(***************************************************************************)
Fairness ==
  /\ \A w \in Workers : WF_vars(WorkerStep(w))
  /\ \A t \in Tasks : WF_vars(Submit(t) /\ call[t] = "validated")
  /\ \A t \in Tasks : WF_vars(SignalSubmit(t))
  /\ WF_vars(StopClose)
  /\ WF_vars(StopBroadcast)

FairSpec == Spec /\ Fairness

-----------------------------------------------------------------------------
(* Safety. *)

Running == {w \in Workers : wpc[w] = "run"}
Signalling == {t \in Tasks : call[t] = "appended"}

(***************************************************************************)
(* pool.go:122-146.  Between them the submitters and the workers neither   *)
(* lose, repeat nor overtake a task: what was appended is what was started *)
(* followed by what is still queued, in that order, each task once; and a  *)
(* started task is in the hands of exactly one worker or has finished.     *)
(***************************************************************************)
Ledger ==
  /\ appended = started \o queue
  /\ IsInjective(appended)
  /\ ToSet(appended) = {t \in Tasks : call[t] \in {"appended", "accepted"}}
  /\ ToSet(started) = finished \cup {job[w] : w \in Running}
  /\ \A w \in Running : job[w] \notin finished
  /\ \A v, w \in Running : job[v] = job[w] => v = w

(***************************************************************************)
(* pool.go:130-145.  p.mu belongs to the one worker between its test of    *)
(* the queue and cond.Wait; the queue that worker found empty stays empty  *)
(* until it is on the notify list; outside t.run() a worker owns no task.  *)
(***************************************************************************)
GuardedWait ==
  /\ MutexHeld
  /\ \A w \in Workers : wpc[w] = "park" => queue = <<>>
  /\ \A w \in Workers : wpc[w] = "run" <=> job[w] # NoTask

(***************************************************************************)
(* pool.go:122-141.  No wakeup of a submitter is lost, although submit     *)
(* signals after it unlocked and a woken worker can find its task taken:   *)
(* while a worker sleeps, every queued task is covered by a Signal still   *)
(* to come or by a worker on its way to the queue.                         *)
(***************************************************************************)
WakeupsCoverQueue ==
  At({"asleep"}) # {} =>
    Len(queue) <= Cardinality(Signalling) + Cardinality(At({"lock", "check"}))

-----------------------------------------------------------------------------
(* Liveness. *)

(***************************************************************************)
(* factory.go:21-26, pool.go:130-154.  A task that is in the queue while   *)
(* the pool is open runs to its end, whatever Stop does afterwards: the    *)
(* workers drain the queue before they look at stopCh.                     *)
(***************************************************************************)
QueuedBeforeStopRuns ==
  \A t \in Tasks :
    (t \in ToSet(queue) /\ ~stopped) ~> (t \in finished)

(***************************************************************************)
(* pool.go:130-154.  Once stopCh is closed every worker goroutine returns, *)
(* unless it was inside the window between its test of stopCh and its      *)
(* place on the notify list: awake ones see the closed channel, and those  *)
(* asleep when it closed are reached by the Broadcast.                     *)
(***************************************************************************)
OutsideWindowExits ==
  \A w \in Workers :
    (stopper = "closed" /\ wpc[w] # "park") ~> (wpc[w] = "exited")

(***************************************************************************)
(* invocation.go:164 goes on after a listener error because "pools must    *)
(* still stop".  Once Stop closed stopCh, every worker goroutine returns.  *)
(***************************************************************************)
PoolsStop == \A w \in Workers : stopped ~> (wpc[w] = "exited")

-----------------------------------------------------------------------------
(* Refinement. *)

\* the state of a task, told from its call and the workers
StateOf(t) ==
  IF call[t] = "idle" THEN "new"
  ELSE IF call[t] = "refused" THEN "refused"
  ELSE IF call[t] = "validated" THEN "admitted"
  ELSE IF t \in ToSet(queue) THEN "waiting"
  ELSE IF t \in finished THEN "done"
  ELSE "running"

TaskStates == [t \in Tasks |-> StateOf(t)]

OldestFirst(line, i) == i = 1

Promise == INSTANCE TaskPromise WITH
  Width <- Cardinality(Workers),
  MayStart <- OldestFirst,
  state <- TaskStates,
  line <- queue,
  open <- running

(***************************************************************************)
(* factory.go:21-45, pool.go:122-154.  Behind its locks the lane keeps the *)
(* promise of TaskPromise: refused calls never run, admitted tasks start   *)
(* once, oldest first, no more at a time than there are workers.           *)
(***************************************************************************)
KeepsPromise == Promise!Spec
=============================================================================
