-------------------------- MODULE WorkerPoolProofs --------------------------
(***************************************************************************)
(* Proofs about WorkerPool for any finite set of workers and of tasks.     *)
(* The safety invariants hold together: none of them is inductive alone.   *)
(* At the end, each of the two lanes of IPool is shown to be a WorkerPool. *)
(***************************************************************************)
EXTENDS WorkerPool, TLAPS, FiniteSetTheorems

-----------------------------------------------------------------------------
(* Sequences used as queues. *)

\* appending puts one more element in a sequence, at the end
LEMMA AppendSet ==
  ASSUME NEW S, NEW s \in Seq(S), NEW e \in S
  PROVE  ToSet(Append(s, e)) = ToSet(s) \cup {e}
<1>1. /\ Len(Append(s, e)) = Len(s) + 1
      /\ DOMAIN Append(s, e) = 1..(Len(s) + 1)
      /\ DOMAIN s = 1..Len(s)
      /\ Append(s, e)[Len(s) + 1] = e
      /\ \A i \in 1..Len(s) : Append(s, e)[i] = s[i]
  OBVIOUS
<1>2. ASSUME NEW x \in ToSet(Append(s, e)) PROVE x \in ToSet(s) \cup {e}
  BY <1>1, <1>2 DEF ToSet
<1>3. ASSUME NEW x \in ToSet(s) \cup {e} PROVE x \in ToSet(Append(s, e))
  <2>1. CASE x = e
    BY <1>1, <2>1 DEF ToSet
  <2>2. CASE x \in ToSet(s)
    <3>1. PICK i \in 1..Len(s) : x = s[i]
      BY <1>1, <2>2 DEF ToSet
    <3>. QED
      BY <1>1, <3>1 DEF ToSet
  <2>. QED
    BY <1>3, <2>1, <2>2
<1>. QED
  BY <1>2, <1>3

\* appending something new keeps a sequence free of repetitions
LEMMA AppendNew ==
  ASSUME NEW S, NEW s \in Seq(S), NEW e \in S, IsInjective(s), e \notin ToSet(s)
  PROVE  IsInjective(Append(s, e))
<1>1. /\ DOMAIN Append(s, e) = 1..(Len(s) + 1)
      /\ DOMAIN s = 1..Len(s)
      /\ Append(s, e)[Len(s) + 1] = e
      /\ \A i \in 1..Len(s) : Append(s, e)[i] = s[i]
  OBVIOUS
<1>2. \A i \in 1..Len(s) : s[i] # e
  BY <1>1 DEF ToSet
<1>3. \A i, j \in 1..Len(s) : s[i] = s[j] => i = j
  BY <1>1 DEF IsInjective
<1>4. \A i, j \in 1..(Len(s) + 1) : Append(s, e)[i] = Append(s, e)[j] => i = j
  BY <1>1, <1>2, <1>3
<1>. QED
  BY <1>1, <1>4 DEF IsInjective

\* the head of a queue without repetitions occurs in it once
LEMMA QueueHead ==
  ASSUME NEW S, NEW q \in Seq(S), q # <<>>, IsInjective(q)
  PROVE  /\ ToSet(q) = ToSet(Tail(q)) \cup {Head(q)}
         /\ Head(q) \notin ToSet(Tail(q))
         /\ RemoveAt(q, 1) = Tail(q)
         /\ 1 \in DOMAIN q /\ q[1] = Head(q)
<1>1. /\ DOMAIN q = 1..Len(q) /\ Len(q) \in Nat \ {0}
      /\ Head(q) = q[1]
      /\ DOMAIN Tail(q) = 1..(Len(q) - 1)
      /\ \A i \in 1..(Len(q) - 1) : Tail(q)[i] = q[i + 1]
  OBVIOUS
<1>2. ASSUME NEW t \in ToSet(q) PROVE t \in ToSet(Tail(q)) \cup {Head(q)}
  <2>1. PICK i \in 1..Len(q) : q[i] = t
    BY <1>1, <1>2 DEF ToSet
  <2>2. CASE i = 1
    BY <1>1, <2>1, <2>2
  <2>3. CASE i > 1
    <3>1. i - 1 \in 1..(Len(q) - 1) /\ Tail(q)[i - 1] = t
      BY <1>1, <2>1, <2>3
    <3>. QED
      BY <1>1, <3>1 DEF ToSet
  <2>. QED
    BY <1>1, <2>2, <2>3
<1>3. ASSUME NEW t \in ToSet(Tail(q)) PROVE t \in ToSet(q) /\ t # Head(q)
  <2>1. PICK i \in 1..(Len(q) - 1) : Tail(q)[i] = t
    BY <1>1, <1>3 DEF ToSet
  <2>2. i + 1 \in DOMAIN q /\ q[i + 1] = t /\ 1 \in DOMAIN q /\ i + 1 # 1
    BY <1>1, <2>1
  <2>. QED
    BY <1>1, <2>2 DEF ToSet, IsInjective
<1>4. Head(q) \in ToSet(q)
  BY <1>1 DEF ToSet
<1>5. RemoveAt(q, 1) = Tail(q)
  BY DEF RemoveAt
<1>. QED
  BY <1>1, <1>2, <1>3, <1>4, <1>5

-----------------------------------------------------------------------------
(* A ledger: what has been taken, followed by what is queued. *)

\* moving the head of the second part to the end of the first changes nothing
LEMMA ShiftHead ==
  ASSUME NEW S, NEW s \in Seq(S), NEW q \in Seq(S), q # <<>>
  PROVE  Append(s, Head(q)) \o Tail(q) = s \o q
OBVIOUS

\* appending to the second part appends to the whole
LEMMA AppendRight ==
  ASSUME NEW S, NEW s \in Seq(S), NEW q \in Seq(S), NEW e \in S
  PROVE  s \o Append(q, e) = Append(s \o q, e)
OBVIOUS

\* in a sequence without repetitions the second part starts with a newcomer
LEMMA HeadIsNew ==
  ASSUME NEW S, NEW s \in Seq(S), NEW q \in Seq(S), q # <<>>, IsInjective(s \o q)
  PROVE  Head(q) \notin ToSet(s)
<1>1. /\ DOMAIN (s \o q) = 1..(Len(s) + Len(q))
      /\ Len(q) > 0
      /\ (s \o q)[Len(s) + 1] = Head(q)
      /\ \A i \in 1..Len(s) : (s \o q)[i] = s[i]
      /\ DOMAIN s = 1..Len(s)
      /\ Len(s) \in Nat /\ Len(q) \in Nat
  OBVIOUS
<1>2. SUFFICES ASSUME NEW i \in 1..Len(s), s[i] = Head(q) PROVE FALSE
  BY <1>1 DEF ToSet
<1>. QED
  BY <1>1, <1>2 DEF IsInjective

-----------------------------------------------------------------------------
(* The inductive invariant: the three invariants the runs check, at once.   *)
(* TypeOK needs GuardedWait (a worker that finishes has a task), Ledger     *)
(* needs both, and WakeupsCoverQueue needs GuardedWait (nothing is queued   *)
(* when a worker falls asleep).                                             *)

IInv == TypeOK /\ GuardedWait /\ Ledger /\ WakeupsCoverQueue

\* the pool starts with nothing queued and no call made
LEMMA InitIInv == Init => IInv
<1>. SUFFICES ASSUME Init PROVE IInv
  OBVIOUS
<1>1. TypeOK
  <2>1. LoopTypeOK
    BY DEF Init, LoopInit, LoopTypeOK, WorkerPC
  <2>2. running \in BOOLEAN /\ stopper \in StopState
    BY DEF Init, StopState
  <2>3. queue \in Seq(Tasks) /\ appended \in Seq(Tasks) /\ started \in Seq(Tasks)
    BY DEF Init
  <2>4. call \in [Tasks -> CallState]
    BY DEF Init, CallState
  <2>5. job \in [Workers -> Tasks \cup {NoTask}] /\ finished \in SUBSET Tasks
    BY DEF Init
  <2>. QED
    BY <2>1, <2>2, <2>3, <2>4, <2>5 DEF TypeOK
<1>2. GuardedWait
  BY WorkersAssumption DEF Init, LoopInit, GuardedWait, MutexHeld
<1>3. Ledger
  <2>1. Running = {}
    BY DEF Init, LoopInit, Running
  <2>2. appended = started \o queue /\ IsInjective(appended)
    BY DEF Init, IsInjective
  <2>3. ToSet(appended) = {} /\ ToSet(started) = {}
    BY DEF Init, ToSet
  <2>4. {t \in Tasks : call[t] \in {"appended", "accepted"}} = {}
    BY DEF Init
  <2>5. finished = {}
    BY DEF Init
  <2>. QED
    BY <2>1, <2>2, <2>3, <2>4, <2>5 DEF Ledger
<1>4. WakeupsCoverQueue
  BY DEF Init, LoopInit, WakeupsCoverQueue, At
<1>. QED
  BY <1>1, <1>2, <1>3, <1>4 DEF IInv

-----------------------------------------------------------------------------
(* One lemma per conjunct of IInv. *)

\* every step keeps the types
LEMMA TypeStep ==
  ASSUME TypeOK, GuardedWait, [Next]_vars
  PROVE  TypeOK'
<1>. USE DEF TypeOK, LoopTypeOK, MoveTo
<1>1. ASSUME NEW t \in Tasks, Validate(t) PROVE TypeOK'
  BY <1>1 DEF Validate, Progress, CallState, loopVars
<1>2. ASSUME NEW t \in Tasks, Submit(t) PROVE TypeOK'
  BY <1>2 DEF Submit, Progress, CallState, loopVars
<1>3. ASSUME NEW t \in Tasks, SignalSubmit(t) PROVE TypeOK'
  <2>1. wpc' \in [Workers -> WorkerPC]
    BY <1>3 DEF SignalSubmit, Signal, WorkerPC
  <2>2. call' \in [Tasks -> CallState]
    BY <1>3 DEF SignalSubmit, Progress, CallState
  <2>. QED
    BY <1>3, <2>1, <2>2 DEF SignalSubmit, Signal
<1>4. ASSUME NEW w \in Workers, LockQueue(w) PROVE TypeOK'
  BY <1>4 DEF LockQueue, Acquire, WorkerPC
<1>5. ASSUME NEW w \in Workers, Dequeue(w) PROVE TypeOK'
  <2>1. Head(queue) \in Tasks /\ queue' \in Seq(Tasks) /\ started' \in Seq(Tasks)
    BY <1>5 DEF Dequeue
  <2>2. wpc' \in [Workers -> WorkerPC] /\ mutex' = NoWorker
    BY <1>5 DEF Dequeue, Take, WorkerPC
  <2>3. job' \in [Workers -> Tasks \cup {NoTask}]
    BY <1>5, <2>1 DEF Dequeue
  <2>. QED
    BY <1>5, <2>1, <2>2, <2>3 DEF Dequeue, Take
<1>6. ASSUME NEW w \in Workers, Exit(w) PROVE TypeOK'
  BY <1>6 DEF Exit, Leave, WorkerPC
<1>7. ASSUME NEW w \in Workers, FindEmpty(w) PROVE TypeOK'
  BY <1>7 DEF FindEmpty, SeeOpen, WorkerPC
<1>8. ASSUME NEW w \in Workers, Sleep(w) PROVE TypeOK'
  BY <1>8 DEF Sleep, Wait, WorkerPC
<1>9. ASSUME NEW w \in Workers, FinishTask(w) PROVE TypeOK'
  <2>1. job[w] \in Tasks
    BY <1>9 DEF FinishTask, Return, GuardedWait
  <2>. QED
    BY <1>9, <2>1 DEF FinishTask, Return, WorkerPC
<1>10. ASSUME StopRunning PROVE TypeOK'
  BY <1>10 DEF StopRunning, StopState, loopVars
<1>11. ASSUME StopClose PROVE TypeOK'
  BY <1>11 DEF StopClose, CloseStop, StopState
<1>12. ASSUME StopBroadcast PROVE TypeOK'
  <2>1. wpc' \in [Workers -> WorkerPC]
    BY <1>12 DEF StopBroadcast, Broadcast, WorkerPC
  <2>. QED
    BY <1>12, <2>1 DEF StopBroadcast, Broadcast, StopState
<1>13. ASSUME UNCHANGED vars PROVE TypeOK'
  BY <1>13 DEF vars, loopVars
<1>. QED
  BY <1>1, <1>2, <1>3, <1>4, <1>5, <1>6, <1>7, <1>8, <1>9, <1>10, <1>11, <1>12, <1>13
  DEF Next, CallStep, WorkerStep

\* no step lets a worker fall asleep with a task queued, or run without one
LEMMA GuardedWaitStep ==
  ASSUME TypeOK, GuardedWait, [Next]_vars
  PROVE  GuardedWait'
<1>. USE WorkersAssumption, TasksAssumption
     DEF TypeOK, LoopTypeOK, MoveTo, GuardedWait, MutexHeld
<1>1. ASSUME NEW t \in Tasks, Validate(t) PROVE GuardedWait'
  BY <1>1 DEF Validate, loopVars
<1>2. ASSUME NEW t \in Tasks, Submit(t) PROVE GuardedWait'
  BY <1>2 DEF Submit, loopVars
<1>3. ASSUME NEW t \in Tasks, SignalSubmit(t) PROVE GuardedWait'
  BY <1>3 DEF SignalSubmit, Signal
<1>4. ASSUME NEW w \in Workers, LockQueue(w) PROVE GuardedWait'
  BY <1>4 DEF LockQueue, Acquire
<1>5. ASSUME NEW w \in Workers, Dequeue(w) PROVE GuardedWait'
  <2>1. Head(queue) \in Tasks
    BY <1>5 DEF Dequeue
  <2>. QED
    BY <1>5, <2>1 DEF Dequeue, Take
<1>6. ASSUME NEW w \in Workers, Exit(w) PROVE GuardedWait'
  BY <1>6 DEF Exit, Leave
<1>7. ASSUME NEW w \in Workers, FindEmpty(w) PROVE GuardedWait'
  BY <1>7 DEF FindEmpty, SeeOpen
<1>8. ASSUME NEW w \in Workers, Sleep(w) PROVE GuardedWait'
  BY <1>8 DEF Sleep, Wait
<1>9. ASSUME NEW w \in Workers, FinishTask(w) PROVE GuardedWait'
  BY <1>9 DEF FinishTask, Return
<1>10. ASSUME StopRunning PROVE GuardedWait'
  BY <1>10 DEF StopRunning, loopVars
<1>11. ASSUME StopClose PROVE GuardedWait'
  BY <1>11 DEF StopClose, CloseStop
<1>12. ASSUME StopBroadcast PROVE GuardedWait'
  BY <1>12 DEF StopBroadcast, Broadcast
<1>13. ASSUME UNCHANGED vars PROVE GuardedWait'
  BY <1>13 DEF vars, loopVars
<1>. QED
  BY <1>1, <1>2, <1>3, <1>4, <1>5, <1>6, <1>7, <1>8, <1>9, <1>10, <1>11, <1>12, <1>13
  DEF Next, CallStep, WorkerStep

\* Ledger looks at nothing but these
LEMMA LedgerFrame ==
  ASSUME Ledger, TypeOK,
         UNCHANGED <<queue, appended, started, finished>>,
         Running' = Running, \A w \in Running : job'[w] = job[w],
         \A t \in Tasks : call'[t] \in {"appended", "accepted"}
                            <=> call[t] \in {"appended", "accepted"}
  PROVE  Ledger'
<1>1. {job'[w] : w \in Running'} = {job[w] : w \in Running}
  OBVIOUS
<1>2. {t \in Tasks : call'[t] \in {"appended", "accepted"}}
        = {t \in Tasks : call[t] \in {"appended", "accepted"}}
  OBVIOUS
<1>. QED
  BY <1>1, <1>2 DEF Ledger

\* a task is in one place, and counted as what it is
LEMMA LedgerStep ==
  ASSUME TypeOK, GuardedWait, Ledger, [Next]_vars
  PROVE  Ledger'
<1>1. ASSUME NEW t \in Tasks, Validate(t) PROVE Ledger'
  <2>1. Running' = Running /\ UNCHANGED <<queue, appended, started, finished, job>>
    BY <1>1 DEF Validate, loopVars, Running
  <2>2. \A u \in Tasks : call'[u] \in {"appended", "accepted"}
                           <=> call[u] \in {"appended", "accepted"}
    BY <1>1 DEF Validate, Progress, TypeOK
  <2>. QED
    BY <2>1, <2>2, LedgerFrame
<1>2. ASSUME NEW t \in Tasks, Submit(t) PROVE Ledger'
  <2>1. t \notin ToSet(appended)
    BY <1>2 DEF Submit, Progress, Ledger
  <2>2. /\ appended \in Seq(Tasks) /\ started \in Seq(Tasks) /\ queue \in Seq(Tasks)
        /\ appended' = Append(appended, t) /\ queue' = Append(queue, t) /\ started' = started
        /\ appended = started \o queue /\ IsInjective(appended)
    BY <1>2 DEF Submit, Ledger, TypeOK
  <2>3. appended' = started' \o queue'
    <3>1. started \o Append(queue, t) = Append(started \o queue, t)
      BY <2>2, AppendRight
    <3>. QED
      BY <2>2, <3>1, Zenon
  <2>4. IsInjective(appended') /\ ToSet(appended') = ToSet(appended) \cup {t}
    <3>1. appended \in Seq(Tasks) /\ IsInjective(appended)
      BY <2>2
    <3>2. ToSet(Append(appended, t)) = ToSet(appended) \cup {t}
      BY <3>1, AppendSet
    <3>3. IsInjective(Append(appended, t))
      BY <2>1, <3>1, AppendNew
    <3>4. appended' = Append(appended, t)
      BY <2>2
    <3>. QED
      BY <3>2, <3>3, <3>4, Zenon
  <2>5. {u \in Tasks : call'[u] \in {"appended", "accepted"}}
          = {u \in Tasks : call[u] \in {"appended", "accepted"}} \cup {t}
    BY <1>2 DEF Submit, Progress, TypeOK
  <2>6. Running' = Running /\ UNCHANGED <<started, finished, job>>
    BY <1>2 DEF Submit, loopVars, Running
  <2>. QED
    BY <2>3, <2>4, <2>5, <2>6 DEF Ledger
<1>3. ASSUME NEW t \in Tasks, SignalSubmit(t) PROVE Ledger'
  <2>1. Running' = Running
    BY <1>3 DEF SignalSubmit, Signal, MoveTo, Running, TypeOK, LoopTypeOK
  <2>2. UNCHANGED <<queue, appended, started, finished, job>>
    BY <1>3 DEF SignalSubmit
  <2>3. \A u \in Tasks : call'[u] \in {"appended", "accepted"}
                           <=> call[u] \in {"appended", "accepted"}
    BY <1>3 DEF SignalSubmit, Progress, TypeOK
  <2>. QED
    BY <2>1, <2>2, <2>3, LedgerFrame
<1>4. ASSUME NEW w \in Workers, LockQueue(w) \/ Exit(w) \/ FindEmpty(w) \/ Sleep(w)
      PROVE Ledger'
  <2>1. Running' = Running
    BY <1>4 DEF LockQueue, Exit, FindEmpty, Sleep, Acquire, Leave, SeeOpen, Wait,
                MoveTo, Running, TypeOK, LoopTypeOK
  <2>2. UNCHANGED <<queue, appended, started, finished, job, call>>
    BY <1>4 DEF LockQueue, Exit, FindEmpty, Sleep
  <2>. QED
    BY <2>1, <2>2, LedgerFrame
<1>5. ASSUME NEW w \in Workers, Dequeue(w) PROVE Ledger'
  <2>. DEFINE h == Head(queue)
  <2>1. h \in Tasks /\ queue \in Seq(Tasks) /\ queue # <<>> /\ started \in Seq(Tasks)
    BY <1>5 DEF Dequeue, TypeOK
  <2>2. h \notin ToSet(started)
    BY <2>1, HeadIsNew DEF Ledger
  <2>3. appended' = started' \o queue' /\ UNCHANGED <<appended, call, finished>>
    BY <1>5, <2>1, ShiftHead DEF Dequeue, Ledger
  <2>4. ToSet(started') = ToSet(started) \cup {h}
    BY <1>5, <2>1, AppendSet DEF Dequeue
  <2>5. w \notin Running /\ Running' = Running \cup {w}
    BY <1>5 DEF Dequeue, Take, MoveTo, Running, TypeOK, LoopTypeOK
  <2>6. job'[w] = h /\ \A v \in Running : job'[v] = job[v]
    BY <1>5, <2>5 DEF Dequeue, TypeOK, Running
  <2>7. {job'[v] : v \in Running'} = {job[v] : v \in Running} \cup {h}
    BY <2>5, <2>6
  <2>8. h \notin finished /\ \A v \in Running : job[v] # h
    BY <2>2 DEF Ledger
  <2>9. \A v \in Running' : job'[v] \notin finished'
    BY <2>3, <2>5, <2>6, <2>8 DEF Ledger
  <2>10. \A u, v \in Running' : job'[u] = job'[v] => u = v
    BY <2>5, <2>6, <2>8 DEF Ledger
  <2>. QED
    BY <2>3, <2>4, <2>7, <2>9, <2>10 DEF Ledger
<1>6. ASSUME NEW w \in Workers, FinishTask(w) PROVE Ledger'
  <2>1. w \in Running /\ Running' = Running \ {w}
    BY <1>6 DEF FinishTask, Return, MoveTo, Running, TypeOK, LoopTypeOK
  <2>2. \A v \in Running' : job'[v] = job[v]
    BY <1>6, <2>1 DEF FinishTask, TypeOK, Running
  <2>3. finished' = finished \cup {job[w]}
    BY <1>6 DEF FinishTask
  <2>4. finished' \cup {job'[v] : v \in Running'} = finished \cup {job[v] : v \in Running}
    BY <2>1, <2>2, <2>3
  <2>5. UNCHANGED <<queue, call, appended, started>>
    BY <1>6 DEF FinishTask
  <2>6. \A v \in Running' : job'[v] \notin finished'
    BY <2>1, <2>2, <2>3 DEF Ledger
  <2>. QED
    BY <2>1, <2>2, <2>4, <2>5, <2>6 DEF Ledger
<1>7. ASSUME StopRunning \/ StopClose \/ StopBroadcast PROVE Ledger'
  <2>1. Running' = Running
    BY <1>7 DEF StopRunning, StopClose, StopBroadcast, CloseStop, Broadcast, loopVars,
                Running, TypeOK, LoopTypeOK
  <2>2. UNCHANGED <<queue, appended, started, finished, job, call>>
    BY <1>7 DEF StopRunning, StopClose, StopBroadcast
  <2>. QED
    BY <2>1, <2>2, LedgerFrame
<1>8. ASSUME UNCHANGED vars PROVE Ledger'
  BY <1>8, LedgerFrame DEF vars, loopVars, Running
<1>. QED
  BY <1>1, <1>2, <1>3, <1>4, <1>5, <1>6, <1>7, <1>8 DEF Next, CallStep, WorkerStep

-----------------------------------------------------------------------------
\* workers on their way to the queue
Awake == At({"lock", "check"})

\* sets of workers and of tasks have a cardinality
LEMMA FiniteParts ==
  /\ \A S \in SUBSET Workers : IsFiniteSet(S) /\ Cardinality(S) \in Nat
  /\ \A S \in SUBSET Tasks : IsFiniteSet(S) /\ Cardinality(S) \in Nat
BY WorkersAssumption, TasksAssumption, FS_Subset, FS_CardinalityType

\* a step that queues nothing, covers no less and puts nobody to sleep
LEMMA WakeupsFrame ==
  ASSUME TypeOK, WakeupsCoverQueue,
         queue' = queue, At({"asleep"})' \subseteq At({"asleep"}),
         Signalling' = Signalling, Awake \subseteq Awake', Awake' \subseteq Workers
  PROVE  WakeupsCoverQueue'
<1>1. Cardinality(Awake) <= Cardinality(Awake')
  BY FiniteParts, FS_Subset
<1>2. Cardinality(Awake) \in Nat /\ Cardinality(Awake') \in Nat /\ Awake \subseteq Workers
  BY FiniteParts DEF Awake, At
<1>3. Cardinality(Signalling) \in Nat /\ Len(queue) \in Nat
  BY FiniteParts DEF Signalling, TypeOK
<1>. QED
  BY <1>1, <1>2, <1>3 DEF WakeupsCoverQueue, Awake

\* no step leaves a queued task without a wakeup while a worker sleeps
LEMMA WakeupsStep ==
  ASSUME TypeOK, GuardedWait, WakeupsCoverQueue, [Next]_vars
  PROVE  WakeupsCoverQueue'
<1>. USE DEF TypeOK, LoopTypeOK
<1>0. /\ Len(queue) \in Nat
      /\ Cardinality(Awake) \in Nat /\ Cardinality(Signalling) \in Nat
      /\ Awake \subseteq Workers /\ Signalling \subseteq Tasks
      /\ Awake' \subseteq Workers /\ Signalling' \subseteq Tasks
      /\ Cardinality(Awake') \in Nat /\ Cardinality(Signalling') \in Nat
  BY FiniteParts DEF Awake, At, Signalling
<1>1. ASSUME NEW t \in Tasks, Validate(t) PROVE WakeupsCoverQueue'
  <2>1. Signalling' = Signalling
    BY <1>1 DEF Validate, Progress, Signalling
  <2>. QED
    BY <1>0, <1>1, <2>1, WakeupsFrame DEF Validate, loopVars, At, Awake
<1>2. ASSUME NEW t \in Tasks, Submit(t) PROVE WakeupsCoverQueue'
  <2>1. Signalling' = Signalling \cup {t} /\ t \notin Signalling
    BY <1>2 DEF Submit, Progress, Signalling
  <2>2. Cardinality(Signalling') = Cardinality(Signalling) + 1
    BY <1>0, <2>1, FiniteParts, FS_AddElement
  <2>3. Len(queue') = Len(queue) + 1
    BY <1>2 DEF Submit
  <2>4. Awake' = Awake /\ At({"asleep"})' = At({"asleep"})
    BY <1>2 DEF Submit, loopVars, At, Awake
  <2>. QED
    BY <1>0, <2>2, <2>3, <2>4 DEF WakeupsCoverQueue, Awake
<1>3. ASSUME NEW t \in Tasks, SignalSubmit(t) PROVE WakeupsCoverQueue'
  <2>1. Signalling' = Signalling \ {t} /\ t \in Signalling
    BY <1>3 DEF SignalSubmit, Progress, Signalling
  <2>2. Cardinality(Signalling') = Cardinality(Signalling) - 1
    BY <1>0, <2>1, FiniteParts, FS_RemoveElement
  <2>3. queue' = queue
    BY <1>3 DEF SignalSubmit
  <2>4. CASE At({"asleep"}) = {} /\ UNCHANGED wpc
    BY <2>4 DEF WakeupsCoverQueue, At
  <2>5. ASSUME NEW w \in Workers, MoveTo(w, "asleep", "lock") PROVE WakeupsCoverQueue'
    <3>1. w \in At({"asleep"})
      BY <2>5 DEF MoveTo, At
    <3>2. Awake' = Awake \cup {w} /\ w \notin Awake
      BY <2>5 DEF MoveTo, At, Awake
    <3>3. Cardinality(Awake') = Cardinality(Awake) + 1
      BY <1>0, <3>2, FiniteParts, FS_AddElement
    <3>. QED
      BY <1>0, <2>2, <2>3, <3>1, <3>3 DEF WakeupsCoverQueue, Awake
  <2>. QED
    BY <1>3, <2>4, <2>5 DEF SignalSubmit, Signal
<1>4. ASSUME NEW w \in Workers, LockQueue(w) PROVE WakeupsCoverQueue'
  <2>1. Awake' = Awake /\ At({"asleep"})' = At({"asleep"})
    BY <1>4 DEF LockQueue, Acquire, MoveTo, At, Awake
  <2>. QED
    BY <1>0, <1>4, <2>1, WakeupsFrame DEF LockQueue, Signalling
<1>5. ASSUME NEW w \in Workers, Dequeue(w) PROVE WakeupsCoverQueue'
  <2>1. Awake' = Awake \ {w} /\ w \in Awake /\ At({"asleep"})' = At({"asleep"})
    BY <1>5 DEF Dequeue, Take, MoveTo, At, Awake
  <2>2. Cardinality(Awake') = Cardinality(Awake) - 1
    BY <1>0, <2>1, FiniteParts, FS_RemoveElement
  <2>3. Len(queue') = Len(queue) - 1
    BY <1>5 DEF Dequeue
  <2>4. Signalling' = Signalling
    BY <1>5 DEF Dequeue, Signalling
  <2>. QED
    BY <1>0, <2>1, <2>2, <2>3, <2>4 DEF WakeupsCoverQueue, Awake
<1>6. ASSUME NEW w \in Workers, Exit(w) \/ FindEmpty(w) \/ Sleep(w) PROVE WakeupsCoverQueue'
  <2>1. queue' = <<>>
    BY <1>6 DEF Exit, FindEmpty, Sleep, Wait, MoveTo, GuardedWait
  <2>2. Len(queue') = 0
    BY <2>1
  <2>. QED
    BY <1>0, <2>2 DEF WakeupsCoverQueue, Awake
<1>7. ASSUME NEW w \in Workers, FinishTask(w) PROVE WakeupsCoverQueue'
  <2>1. Awake \subseteq Awake' /\ At({"asleep"})' = At({"asleep"})
    BY <1>7 DEF FinishTask, Return, MoveTo, At, Awake
  <2>. QED
    BY <1>0, <1>7, <2>1, WakeupsFrame DEF FinishTask, Signalling
<1>8. ASSUME StopRunning \/ StopClose PROVE WakeupsCoverQueue'
  <2>1. UNCHANGED <<wpc, queue, call>>
    BY <1>8 DEF StopRunning, StopClose, CloseStop, loopVars
  <2>. QED
    BY <1>0, <2>1, WakeupsFrame DEF At, Awake, Signalling
<1>9. ASSUME StopBroadcast PROVE WakeupsCoverQueue'
  <2>1. At({"asleep"})' = {}
    BY <1>9 DEF StopBroadcast, Broadcast, At
  <2>. QED
    BY <2>1 DEF WakeupsCoverQueue
<1>10. ASSUME UNCHANGED vars PROVE WakeupsCoverQueue'
  BY <1>0, <1>10, WakeupsFrame DEF vars, loopVars, At, Awake, Signalling
<1>. QED
  BY <1>1, <1>2, <1>3, <1>4, <1>5, <1>6, <1>7, <1>8, <1>9, <1>10
  DEF Next, CallStep, WorkerStep

-----------------------------------------------------------------------------
(***************************************************************************)
(* The safety invariants of pool.go:122-154 hold together in every state   *)
(* that the calls, the workers and Stop can bring a lane to.               *)
(***************************************************************************)
THEOREM Inductive == Spec => []IInv
<1>1. Init => IInv
  BY InitIInv
<1>2. IInv /\ [Next]_vars => IInv'
  BY TypeStep, GuardedWaitStep, LedgerStep, WakeupsStep DEF IInv
<1>. QED
  BY <1>1, <1>2, PTL DEF Spec

(***************************************************************************)
(* Every variable keeps its type.                                          *)
(***************************************************************************)
THEOREM TypeCorrect == Spec => []TypeOK
BY Inductive, PTL DEF IInv

(***************************************************************************)
(* pool.go:130-145, for any number of workers and calls: p.mu has one      *)
(* holder, and the queue found empty is empty still when its finder waits. *)
(***************************************************************************)
THEOREM GuardedWaitHolds == Spec => []GuardedWait
BY Inductive, PTL DEF IInv

(***************************************************************************)
(* pool.go:122-146, for any number of workers and calls: no task is lost,  *)
(* run twice, run by two workers or started out of the order of its append.*)
(***************************************************************************)
THEOREM LedgerHolds == Spec => []Ledger
BY Inductive, PTL DEF IInv

(***************************************************************************)
(* pool.go:122-141, for any number of workers and calls: a worker never    *)
(* sleeps on a task that no signal and no awake worker will reach.         *)
(***************************************************************************)
THEOREM NoLostWakeup == Spec => []WakeupsCoverQueue
BY Inductive, PTL DEF IInv

-----------------------------------------------------------------------------
(* The refinement: the lane implements TaskPromise. *)

\* the six states of a task, each told from the lane
LEMMA StateFacts ==
  ASSUME NEW t \in Tasks, TypeOK
  PROVE  /\ StateOf(t) = "new" <=> call[t] = "idle"
         /\ StateOf(t) = "refused" <=> call[t] = "refused"
         /\ StateOf(t) = "admitted" <=> call[t] = "validated"
         /\ call[t] \in {"appended", "accepted"} =>
              /\ t \in ToSet(queue) => StateOf(t) = "waiting"
              /\ t \notin ToSet(queue) /\ t \in finished => StateOf(t) = "done"
              /\ t \notin ToSet(queue) /\ t \notin finished => StateOf(t) = "running"
         /\ StateOf(t) = "running" =>
              call[t] \in {"appended", "accepted"} /\ t \notin ToSet(queue) /\ t \notin finished
BY DEF StateOf, TypeOK, CallState

\* the pool starts as promised, with no task
LEMMA PromiseInit == Init => Promise!Init
<1>. SUFFICES ASSUME Init PROVE Promise!Init
  OBVIOUS
<1>1. \A t \in Tasks : StateOf(t) = "new"
  BY DEF Init, StateOf
<1>2. TaskStates = [t \in Tasks |-> "new"]
  BY <1>1 DEF TaskStates
<1>. QED
  BY <1>2 DEF Init, Promise!Init

\* no task changes its state
LEMMA StateKept ==
  ASSUME UNCHANGED <<queue, finished>>,
         \A t \in Tasks : call'[t] = call[t] \/ {call[t], call'[t]} \subseteq {"appended", "accepted"}
  PROVE  TaskStates' = TaskStates
<1>1. ASSUME NEW t \in Tasks PROVE StateOf(t)' = StateOf(t)
  BY DEF StateOf
<1>. QED
  BY <1>1 DEF TaskStates

\* exactly one task changes its state
LEMMA StateMoved ==
  ASSUME NEW t \in Tasks, NEW from, NEW to, StateOf(t) = from, StateOf(t)' = to,
         \A u \in Tasks \ {t} : StateOf(u)' = StateOf(u)
  PROVE  Promise!Become(t, from, to)
<1>1. TaskStates[t] = from
  BY DEF TaskStates
<1>2. TaskStates' = [TaskStates EXCEPT ![t] = to]
  BY DEF TaskStates
<1>. QED
  BY <1>1, <1>2 DEF Promise!Become

\* a task is in the queue or was started, never both, once it was appended
LEMMA Partition ==
  ASSUME TypeOK, Ledger
  PROVE  /\ ToSet(started) \cap ToSet(queue) = {}
         /\ ToSet(started) \cup ToSet(queue)
              = {t \in Tasks : call[t] \in {"appended", "accepted"}}
<1>1. /\ started \in Seq(Tasks) /\ queue \in Seq(Tasks) /\ appended = started \o queue
      /\ IsInjective(appended)
  BY DEF TypeOK, Ledger
<1>2. /\ DOMAIN appended = 1..(Len(started) + Len(queue))
      /\ DOMAIN started = 1..Len(started) /\ DOMAIN queue = 1..Len(queue)
      /\ Len(started) \in Nat /\ Len(queue) \in Nat
      /\ \A i \in 1..Len(started) : appended[i] = started[i]
      /\ \A i \in 1..Len(queue) : appended[Len(started) + i] = queue[i]
  BY <1>1
<1>3. ASSUME NEW t \in ToSet(started), t \in ToSet(queue) PROVE FALSE
  <2>1. PICK i \in 1..Len(started) : started[i] = t
    BY <1>2, <1>3 DEF ToSet
  <2>2. PICK j \in 1..Len(queue) : queue[j] = t
    BY <1>2, <1>3 DEF ToSet
  <2>3. i \in DOMAIN appended /\ Len(started) + j \in DOMAIN appended /\ i # Len(started) + j
    BY <1>2
  <2>4. appended[i] = t /\ appended[Len(started) + j] = t
    BY <1>2, <2>1, <2>2
  <2>. QED
    BY <1>1, <2>3, <2>4 DEF IsInjective
<1>4. ToSet(appended) = ToSet(started) \cup ToSet(queue)
  <2>1. ASSUME NEW t \in ToSet(appended) PROVE t \in ToSet(started) \cup ToSet(queue)
    <3>1. PICK i \in 1..(Len(started) + Len(queue)) : appended[i] = t
      BY <1>2, <2>1 DEF ToSet
    <3>2. CASE i <= Len(started)
      BY <1>2, <3>1, <3>2 DEF ToSet
    <3>3. CASE i > Len(started)
      <4>1. i - Len(started) \in 1..Len(queue) /\ Len(started) + (i - Len(started)) = i
        BY <1>2, <3>3
      <4>. QED
        BY <1>2, <3>1, <4>1 DEF ToSet
    <3>. QED
      BY <1>2, <3>2, <3>3
  <2>2. ASSUME NEW t \in ToSet(started) PROVE t \in ToSet(appended)
    BY <1>2, <2>2 DEF ToSet
  <2>3. ASSUME NEW t \in ToSet(queue) PROVE t \in ToSet(appended)
    <3>1. PICK j \in 1..Len(queue) : queue[j] = t
      BY <1>2, <2>3 DEF ToSet
    <3>2. Len(started) + j \in DOMAIN appended /\ appended[Len(started) + j] = t
      BY <1>2, <3>1
    <3>. QED
      BY <3>2 DEF ToSet
  <2>. QED
    BY <2>1, <2>2, <2>3
<1>. QED
  BY <1>3, <1>4 DEF Ledger

\* a worker about to take a task leaves room in the pool for it
LEMMA Room ==
  ASSUME TypeOK, Ledger, NEW w \in Workers, w \notin Running
  PROVE  Cardinality(Promise!In("running")) < Cardinality(Workers)
<1>. DEFINE jobs == {job[v] : v \in Running}
            held == [v \in Running |-> job[v]]
<1>1. Promise!In("running") \subseteq jobs
  <2>. SUFFICES ASSUME NEW t \in Tasks, StateOf(t) = "running" PROVE t \in jobs
    BY DEF Promise!In, TaskStates
  <2>. QED
    BY StateFacts, Partition DEF Ledger
<1>2. /\ IsFiniteSet(Running) /\ Cardinality(Running) \in Nat
      /\ Cardinality(Running) <= Cardinality(Workers \ {w})
      /\ IsFiniteSet(Workers \ {w})
  <2>1. Running \subseteq Workers \ {w}
    BY DEF Running
  <2>2. IsFiniteSet(Workers \ {w})
    BY WorkersAssumption, FS_RemoveElement
  <2>. QED
    BY <2>1, <2>2, FS_Subset, FS_CardinalityType
<1>3. Cardinality(Workers \ {w}) = Cardinality(Workers) - 1 /\ Cardinality(Workers) \in Nat
  BY WorkersAssumption, FS_RemoveElement, FS_CardinalityType
<1>4. held \in Surjection(Running, jobs)
  BY DEF Surjection
<1>5. IsFiniteSet(jobs) /\ Cardinality(jobs) <= Cardinality(Running)
  BY <1>2, <1>4, FS_Surjection
<1>6. /\ Cardinality(Promise!In("running")) <= Cardinality(jobs)
      /\ Cardinality(Promise!In("running")) \in Nat /\ Cardinality(jobs) \in Nat
  BY <1>1, <1>5, FS_Subset, FS_CardinalityType
<1>. QED
  BY <1>2, <1>3, <1>5, <1>6

\* the instance counts as this module does
LEMMA SameCount == ASSUME NEW S PROVE Promise!Cardinality(S) = Cardinality(S)
BY Zenon DEF Promise!Cardinality, Cardinality

\* every step is a step of the promise, or none
LEMMA PromiseStep ==
  ASSUME IInv, [Next]_vars
  PROVE  [Promise!Next]_Promise!vars
<1>0. TypeOK /\ GuardedWait /\ Ledger
  BY DEF IInv
<1>1. ASSUME NEW t \in Tasks, Validate(t) PROVE Promise!Next
  <2>1. UNCHANGED <<queue, finished, running>> /\ t \notin Direct
    BY <1>1 DEF Validate
  <2>2. \A u \in Tasks \ {t} : call'[u] = call[u]
    BY <1>0, <1>1 DEF Validate, Progress, TypeOK
  <2>3. \A u \in Tasks \ {t} : StateOf(u)' = StateOf(u)
    BY <2>1, <2>2 DEF StateOf
  <2>4. call[t] = "idle" /\ call'[t] = IF Refused(t) THEN "refused" ELSE "validated"
    BY <1>0, <1>1 DEF Validate, Progress, TypeOK
  <2>5. StateOf(t) = "new"
    BY <2>4 DEF StateOf
  <2>6. CASE Refused(t)
    <3>1. StateOf(t)' = "refused"
      BY <2>4, <2>6 DEF StateOf
    <3>2. Promise!Become(t, "new", "refused")
      BY <2>3, <2>5, <3>1, StateMoved
    <3>. QED
      BY <2>1, <3>2 DEF Promise!Next, Promise!Refuse
  <2>7. CASE ~Refused(t)
    <3>1. StateOf(t)' = "admitted" /\ running
      BY <2>4, <2>7 DEF StateOf, Refused
    <3>2. Promise!Become(t, "new", "admitted")
      BY <2>3, <2>5, <3>1, StateMoved
    <3>. QED
      BY <2>1, <3>1, <3>2 DEF Promise!Next, Promise!Admit
  <2>. QED
    BY <2>6, <2>7
<1>2. ASSUME NEW t \in Tasks, Submit(t) PROVE Promise!Next
  <2>. DEFINE from == IF t \in Direct THEN "new" ELSE "admitted"
  <2>1. UNCHANGED <<finished, running>> /\ queue' = Append(queue, t)
    BY <1>2 DEF Submit
  <2>2. ToSet(queue') = ToSet(queue) \cup {t}
    BY <1>0, <2>1, AppendSet DEF TypeOK
  <2>3. \A u \in Tasks \ {t} : call'[u] = call[u]
    BY <1>0, <1>2 DEF Submit, Progress, TypeOK
  <2>4. \A u \in Tasks \ {t} : StateOf(u)' = StateOf(u)
    BY <2>1, <2>2, <2>3 DEF StateOf
  <2>5. call[t] = (IF t \in Direct THEN "idle" ELSE "validated") /\ call'[t] = "appended"
    BY <1>0, <1>2 DEF Submit, Progress, TypeOK
  <2>6. StateOf(t) = from /\ StateOf(t)' = "waiting"
    BY <2>2, <2>5 DEF StateOf
  <2>7. Promise!Become(t, from, "waiting")
    BY <2>4, <2>6, StateMoved
  <2>. QED
    BY <2>1, <2>7 DEF Promise!Next, Promise!Join
<1>3. ASSUME NEW t \in Tasks, SignalSubmit(t) PROVE UNCHANGED Promise!vars
  <2>1. UNCHANGED <<queue, finished, running>>
    BY <1>3 DEF SignalSubmit
  <2>2. \A u \in Tasks : call'[u] = call[u] \/ {call[u], call'[u]} \subseteq {"appended", "accepted"}
    BY <1>0, <1>3 DEF SignalSubmit, Progress, TypeOK
  <2>. QED
    BY <2>1, <2>2, StateKept DEF Promise!vars
<1>4. ASSUME NEW w \in Workers, LockQueue(w) \/ Exit(w) \/ FindEmpty(w) \/ Sleep(w)
      PROVE UNCHANGED Promise!vars
  <2>1. UNCHANGED <<queue, finished, running, call>>
    BY <1>4 DEF LockQueue, Exit, FindEmpty, Sleep
  <2>. QED
    BY <2>1, StateKept DEF Promise!vars
<1>5. ASSUME NEW w \in Workers, Dequeue(w) PROVE Promise!Next
  <2>0. PICK h \in Tasks : h = Head(queue)
    BY <1>0, <1>5 DEF Dequeue, TypeOK
  <2>1. /\ h = Head(queue) /\ queue \in Seq(Tasks) /\ queue # <<>> /\ started \in Seq(Tasks)
        /\ queue' = Tail(queue) /\ UNCHANGED <<call, finished, running>>
    BY <1>0, <1>5, <2>0 DEF Dequeue, TypeOK
  <2>2. IsInjective(queue)
    <3>1. /\ DOMAIN appended = 1..(Len(started) + Len(queue)) /\ DOMAIN queue = 1..Len(queue)
          /\ Len(started) \in Nat /\ Len(queue) \in Nat
          /\ \A i \in 1..Len(queue) : appended[Len(started) + i] = queue[i]
      BY <1>0, <2>1 DEF Ledger
    <3>2. ASSUME NEW i \in DOMAIN queue, NEW j \in DOMAIN queue, queue[i] = queue[j]
          PROVE i = j
      <4>1. Len(started) + i \in DOMAIN appended /\ Len(started) + j \in DOMAIN appended
        BY <3>1
      <4>2. appended[Len(started) + i] = appended[Len(started) + j]
        BY <3>1, <3>2
      <4>3. Len(started) + i = Len(started) + j
        BY <1>0, <4>1, <4>2 DEF Ledger, IsInjective
      <4>. QED
        BY <3>1, <4>3
    <3>. QED
      BY <3>2 DEF IsInjective
  <2>3. /\ ToSet(queue) = ToSet(queue') \cup {h} /\ h \notin ToSet(queue')
        /\ RemoveAt(queue, 1) = queue' /\ 1 \in DOMAIN queue /\ queue[1] = h
    BY <2>1, <2>2, QueueHead
  <2>4. \A u \in Tasks \ {h} : StateOf(u)' = StateOf(u)
    BY <2>1, <2>3 DEF StateOf
  <2>5. call[h] \in {"appended", "accepted"} /\ h \notin finished
    BY <1>0, <2>1, <2>3, Partition DEF Ledger
  <2>6. StateOf(h) = "waiting" /\ StateOf(h)' = "running"
    BY <2>1, <2>3, <2>5 DEF StateOf
  <2>7. Promise!Become(queue[1], "waiting", "running")
    BY <2>1, <2>3, <2>4, <2>6, StateMoved
  <2>8. w \notin Running
    BY <1>5 DEF Dequeue, Take, MoveTo, Running
  <2>9. Cardinality(Promise!In("running")) < Cardinality(Workers)
    BY <1>0, <2>8, Room
  <2>10. queue' = Promise!RemoveAt(queue, 1)
    BY <2>3 DEF RemoveAt, Promise!RemoveAt
  <2>11. Promise!Start(1)
    BY <2>1, <2>7, <2>9, <2>10, SameCount DEF Promise!Start, OldestFirst
  <2>. QED
    BY <2>3, <2>11 DEF Promise!Next
<1>6. ASSUME NEW w \in Workers, FinishTask(w) PROVE Promise!Next
  <2>0. PICK t \in Tasks : t = job[w]
    BY <1>0, <1>6 DEF FinishTask, Return, MoveTo, GuardedWait, TypeOK
  <2>1. w \in Running /\ t = job[w]
    BY <1>6, <2>0 DEF FinishTask, Return, MoveTo, Running
  <2>2. t \in ToSet(started) /\ t \notin finished
    BY <1>0, <2>1 DEF Ledger
  <2>3. call[t] \in {"appended", "accepted"} /\ t \notin ToSet(queue)
    BY <1>0, <2>2, Partition
  <2>4. UNCHANGED <<queue, call, running>> /\ finished' = finished \cup {t}
    BY <1>6, <2>1 DEF FinishTask
  <2>5. \A u \in Tasks \ {t} : StateOf(u)' = StateOf(u)
    BY <2>4 DEF StateOf
  <2>6. StateOf(t) = "running" /\ StateOf(t)' = "done"
    BY <2>2, <2>3, <2>4 DEF StateOf
  <2>7. Promise!Become(t, "running", "done")
    BY <2>3, <2>5, <2>6, StateMoved
  <2>. QED
    BY <2>4, <2>7 DEF Promise!Next, Promise!Finish
<1>7. ASSUME StopRunning PROVE Promise!Next
  <2>1. UNCHANGED <<queue, finished, call>> /\ running' = FALSE
    BY <1>7 DEF StopRunning
  <2>2. TaskStates' = TaskStates
    BY <2>1, StateKept
  <2>. QED
    BY <2>1, <2>2 DEF Promise!Next, Promise!Close
<1>8. ASSUME StopClose \/ StopBroadcast PROVE UNCHANGED Promise!vars
  <2>1. UNCHANGED <<queue, finished, running, call>>
    BY <1>8 DEF StopClose, StopBroadcast
  <2>. QED
    BY <2>1, StateKept DEF Promise!vars
<1>9. ASSUME UNCHANGED vars PROVE UNCHANGED Promise!vars
  <2>1. UNCHANGED <<queue, finished, running, call>>
    BY <1>9 DEF vars
  <2>. QED
    BY <2>1, StateKept DEF Promise!vars
<1>. QED
  BY <1>1, <1>2, <1>3, <1>4, <1>5, <1>6, <1>7, <1>8, <1>9 DEF Next, CallStep, WorkerStep

(***************************************************************************)
(* factory.go:21-45, pool.go:122-154, for any number of workers and calls: *)
(* the lane implements TaskPromise.                                        *)
(***************************************************************************)
THEOREM Implements == Spec => KeepsPromise
<1>1. Init => Promise!Init
  BY PromiseInit
<1>2. IInv /\ [Next]_vars => [Promise!Next]_Promise!vars
  BY PromiseStep
<1>. QED
  BY <1>1, <1>2, Inductive, PTL DEF Spec, KeepsPromise, Promise!Spec

-----------------------------------------------------------------------------
(***************************************************************************)
(* iPool: this lane, and beside it another one with its own lock, queue,   *)
(* workers and calls.  IPool is read twice, with this lane as the standard *)
(* lane and with this lane as iCore.                                       *)
(***************************************************************************)
CONSTANTS OtherWorkers, OtherTasks, OtherDirect

VARIABLES oMutex, owpc, oQueue, ocall, ojob, oappended, ostarted, ofinished, ostopper

AsStandard == INSTANCE IPool WITH
  IWorkers <- Workers, ITasks <- Tasks,
  RWorkers <- OtherWorkers, RTasks <- OtherTasks, RDirect <- OtherDirect,
  stopCh <- stopped, istop <- stopper, rstop <- ostopper,
  mu <- mutex, iwpc <- wpc, icall <- call, ijob <- job,
  iappended <- appended, istarted <- started, ifinished <- finished,
  rMu <- oMutex, rwpc <- owpc, rQueue <- oQueue, rcall <- ocall, rjob <- ojob,
  rappended <- oappended, rstarted <- ostarted, rfinished <- ofinished

AsCore == INSTANCE IPool WITH
  IWorkers <- OtherWorkers, ITasks <- OtherTasks,
  RWorkers <- Workers, RTasks <- Tasks, RDirect <- Direct,
  stopCh <- stopped, istop <- ostopper, rstop <- stopper,
  mu <- oMutex, iwpc <- owpc, queue <- oQueue, icall <- ocall, ijob <- ojob,
  iappended <- oappended, istarted <- ostarted, ifinished <- ofinished,
  rMu <- mutex, rwpc <- wpc, rQueue <- queue, rcall <- call, rjob <- job,
  rappended <- appended, rstarted <- started, rfinished <- finished

\* what a call does in the standard lane is what a call does here
LEMMA StandardCall ==
  ASSUME NilTasks = {}, Direct = {}, NEW t \in Tasks, AsStandard!Std!CallStep(t)
  PROVE  CallStep(t)
BY DEF
  CallStep, Validate, Submit, SignalSubmit, Progress, Refused, Signal, MoveTo, At,
  loopVars, AsStandard!Std!CallStep, AsStandard!Std!Validate, AsStandard!Std!Submit,
  AsStandard!Std!SignalSubmit, AsStandard!Std!Progress, AsStandard!Std!Refused,
  AsStandard!Std!Signal, AsStandard!Std!MoveTo, AsStandard!Std!At,
  AsStandard!Std!loopVars

\* and so with what a worker does
LEMMA StandardWorker ==
  ASSUME NEW w \in Workers, AsStandard!Std!WorkerStep(w)
  PROVE  WorkerStep(w)
<1>1. CASE AsStandard!Std!LockQueue(w)
  BY <1>1 DEF LockQueue, Acquire, MoveTo, WorkerStep, AsStandard!Std!LockQueue,
    AsStandard!Std!Acquire, AsStandard!Std!MoveTo
<1>2. CASE AsStandard!Std!Dequeue(w)
  BY <1>2 DEF Dequeue, Take, MoveTo, WorkerStep, AsStandard!Std!Dequeue,
    AsStandard!Std!Take, AsStandard!Std!MoveTo
<1>3. CASE AsStandard!Std!Exit(w)
  BY <1>3 DEF Exit, Leave, MoveTo, WorkerStep, AsStandard!Std!Exit, AsStandard!Std!Leave,
    AsStandard!Std!MoveTo
<1>4. CASE AsStandard!Std!FindEmpty(w)
  BY <1>4 DEF FindEmpty, SeeOpen, MoveTo, WorkerStep, AsStandard!Std!FindEmpty,
    AsStandard!Std!SeeOpen, AsStandard!Std!MoveTo
<1>5. CASE AsStandard!Std!Sleep(w)
  BY <1>5 DEF Sleep, Wait, MoveTo, WorkerStep, AsStandard!Std!Sleep, AsStandard!Std!Wait,
    AsStandard!Std!MoveTo
<1>6. CASE AsStandard!Std!FinishTask(w)
  BY <1>6 DEF FinishTask, Return, MoveTo, WorkerStep, AsStandard!Std!FinishTask,
    AsStandard!Std!Return, AsStandard!Std!MoveTo
<1>. QED
  BY <1>1, <1>2, <1>3, <1>4, <1>5, <1>6 DEF AsStandard!Std!WorkerStep

\* and with what Stop does
LEMMA StandardStop ==
  /\ AsStandard!Std!StopRunning => StopRunning
  /\ AsStandard!Std!StopClose => StopClose
  /\ AsStandard!Std!StopBroadcast => StopBroadcast
BY DEF
  StopRunning, StopClose, StopBroadcast, CloseStop, Broadcast, loopVars,
  AsStandard!Std!StopRunning, AsStandard!Std!StopClose, AsStandard!Std!StopBroadcast,
  AsStandard!Std!CloseStop, AsStandard!Std!Broadcast, AsStandard!Std!loopVars

\* the other lane's steps leave this one alone; running and stopCh are Stop's
LEMMA StandardStep ==
  ASSUME NilTasks = {}, Direct = {}, [AsStandard!Next]_(AsStandard!vars)
  PROVE  [Next]_vars
<1>1. ASSUME NEW t \in Tasks, AsStandard!ICall(t) PROVE Next
  BY <1>1, StandardCall DEF AsStandard!ICall, Next
<1>2. ASSUME NEW w \in Workers, AsStandard!IWork(w) PROVE Next
  BY <1>2, StandardWorker DEF AsStandard!IWork, Next
<1>3. ASSUME NEW t \in OtherTasks,
             AsStandard!ValidateR(t) \/ AsStandard!SubmitR(t) \/ AsStandard!SignalR(t)
      PROVE  UNCHANGED vars
  BY <1>3 DEF AsStandard!ValidateR, AsStandard!SubmitR, AsStandard!SignalR,
    AsStandard!ivars, AsStandard!Core!Validate, AsStandard!Core!Submit,
    AsStandard!Core!SignalSubmit, AsStandard!Core!Signal, AsStandard!Core!loopVars, vars,
    loopVars
<1>4. ASSUME NEW w \in OtherWorkers, AsStandard!RWork(w) PROVE UNCHANGED vars
  BY <1>4 DEF AsStandard!RWork, AsStandard!ivars, AsStandard!Core!WorkerStep,
    AsStandard!Core!LockQueue, AsStandard!Core!Acquire, AsStandard!Core!Dequeue,
    AsStandard!Core!Take, AsStandard!Core!Exit, AsStandard!Core!Leave,
    AsStandard!Core!FindEmpty, AsStandard!Core!SeeOpen, AsStandard!Core!Sleep,
    AsStandard!Core!Wait, AsStandard!Core!FinishTask, AsStandard!Core!Return, vars, loopVars
<1>5. ASSUME AsStandard!StopRunning PROVE Next
  BY <1>5, StandardStop DEF AsStandard!StopRunning, Next
<1>6. ASSUME AsStandard!StopClose PROVE Next
  BY <1>6, StandardStop DEF AsStandard!StopClose, Next
<1>7. ASSUME AsStandard!WakeStd PROVE Next
  BY <1>7, StandardStop DEF AsStandard!WakeStd, Next
<1>8. ASSUME AsStandard!WakeCore PROVE UNCHANGED vars
  BY <1>8 DEF AsStandard!WakeCore, AsStandard!ivars, AsStandard!Core!StopBroadcast,
    AsStandard!Core!Broadcast, AsStandard!Core!loopVars, vars, loopVars
<1>9. ASSUME UNCHANGED AsStandard!vars PROVE UNCHANGED vars
  BY <1>9 DEF AsStandard!vars, AsStandard!ivars, AsStandard!rvars, AsStandard!shared, vars,
    loopVars
<1>. QED
  BY <1>1, <1>2, <1>3, <1>4, <1>5, <1>6, <1>7, <1>8, <1>9 DEF AsStandard!Next

(***************************************************************************)
(* pool.go:88-154, invocation.go:158-177. The standard lane of iPool,      *)
(* whatever iCore, its readers and its workers do beside it, behaves as    *)
(* the lane of this module: no step of the other lane changes its state,   *)
(* and the Stop they share is the Stop it knows.  The hypotheses are what  *)
(* IPool gives this lane: no nil call and no calibration sample.           *)
(***************************************************************************)
THEOREM StandardIsALane ==
  ASSUME NilTasks = {}, Direct = {}
  PROVE  AsStandard!Spec => Spec
<1>1. AsStandard!Init => Init
  BY DEF AsStandard!Init, AsStandard!Std!Init, AsStandard!Std!LoopInit, Init, LoopInit
<1>2. [AsStandard!Next]_(AsStandard!vars) => [Next]_vars
  BY StandardStep
<1>. QED
  BY <1>1, <1>2, PTL DEF AsStandard!Spec, Spec

\* the same of iCore, whose readers submit without a Factory call
LEMMA CoreCall ==
  ASSUME NilTasks = {}, NEW t \in Tasks, AsCore!Core!CallStep(t)
  PROVE  CallStep(t)
BY DEF
  CallStep, Validate, Submit, SignalSubmit, Progress, Refused, Signal, MoveTo, At,
  loopVars, AsCore!Core!CallStep, AsCore!Core!Validate, AsCore!Core!Submit,
  AsCore!Core!SignalSubmit, AsCore!Core!Progress, AsCore!Core!Refused,
  AsCore!Core!Signal, AsCore!Core!MoveTo, AsCore!Core!At, AsCore!Core!loopVars

\* its workers
LEMMA CoreWorker ==
  ASSUME NEW w \in Workers, AsCore!Core!WorkerStep(w)
  PROVE  WorkerStep(w)
<1>1. CASE AsCore!Core!LockQueue(w)
  BY <1>1 DEF LockQueue, Acquire, MoveTo, WorkerStep, AsCore!Core!LockQueue,
    AsCore!Core!Acquire, AsCore!Core!MoveTo
<1>2. CASE AsCore!Core!Dequeue(w)
  BY <1>2 DEF Dequeue, Take, MoveTo, WorkerStep, AsCore!Core!Dequeue, AsCore!Core!Take,
    AsCore!Core!MoveTo
<1>3. CASE AsCore!Core!Exit(w)
  BY <1>3 DEF Exit, Leave, MoveTo, WorkerStep, AsCore!Core!Exit, AsCore!Core!Leave,
    AsCore!Core!MoveTo
<1>4. CASE AsCore!Core!FindEmpty(w)
  BY <1>4 DEF FindEmpty, SeeOpen, MoveTo, WorkerStep, AsCore!Core!FindEmpty,
    AsCore!Core!SeeOpen, AsCore!Core!MoveTo
<1>5. CASE AsCore!Core!Sleep(w)
  BY <1>5 DEF Sleep, Wait, MoveTo, WorkerStep, AsCore!Core!Sleep, AsCore!Core!Wait,
    AsCore!Core!MoveTo
<1>6. CASE AsCore!Core!FinishTask(w)
  BY <1>6 DEF FinishTask, Return, MoveTo, WorkerStep, AsCore!Core!FinishTask,
    AsCore!Core!Return, AsCore!Core!MoveTo
<1>. QED
  BY <1>1, <1>2, <1>3, <1>4, <1>5, <1>6 DEF AsCore!Core!WorkerStep

\* Stop, which reaches it second
LEMMA CoreStop ==
  /\ AsCore!Core!StopRunning => StopRunning
  /\ AsCore!Core!StopClose => StopClose
  /\ AsCore!Core!StopBroadcast => StopBroadcast
BY DEF
  StopRunning, StopClose, StopBroadcast, CloseStop, Broadcast, loopVars,
  AsCore!Core!StopRunning, AsCore!Core!StopClose, AsCore!Core!StopBroadcast,
  AsCore!Core!CloseStop, AsCore!Core!Broadcast, AsCore!Core!loopVars

\* and what the standard lane leaves alone
LEMMA CoreStep ==
  ASSUME NilTasks = {}, [AsCore!Next]_(AsCore!vars)
  PROVE  [Next]_vars
<1>1. ASSUME NEW t \in OtherTasks, AsCore!ICall(t) PROVE UNCHANGED vars
  BY <1>1 DEF AsCore!ICall, AsCore!rvars, AsCore!Std!CallStep, AsCore!Std!Validate,
    AsCore!Std!Submit, AsCore!Std!SignalSubmit, AsCore!Std!Signal, AsCore!Std!loopVars,
    vars, loopVars
<1>2. ASSUME NEW w \in OtherWorkers, AsCore!IWork(w) PROVE UNCHANGED vars
  BY <1>2 DEF AsCore!IWork, AsCore!rvars, AsCore!Std!WorkerStep, AsCore!Std!LockQueue,
    AsCore!Std!Acquire, AsCore!Std!Dequeue, AsCore!Std!Take, AsCore!Std!Exit,
    AsCore!Std!Leave, AsCore!Std!FindEmpty, AsCore!Std!SeeOpen, AsCore!Std!Sleep,
    AsCore!Std!Wait, AsCore!Std!FinishTask, AsCore!Std!Return, vars, loopVars
<1>3. ASSUME NEW t \in Tasks, AsCore!ValidateR(t) \/ AsCore!SubmitR(t) \/ AsCore!SignalR(t)
      PROVE  Next
  BY <1>3, CoreCall DEF AsCore!ValidateR, AsCore!SubmitR, AsCore!SignalR,
    AsCore!Core!CallStep, Next
<1>4. ASSUME NEW w \in Workers, AsCore!RWork(w) PROVE Next
  BY <1>4, CoreWorker DEF AsCore!RWork, Next
<1>5. ASSUME AsCore!StopRunning PROVE Next
  BY <1>5, CoreStop DEF AsCore!StopRunning, Next
<1>6. ASSUME AsCore!StopClose PROVE Next
  BY <1>6, CoreStop DEF AsCore!StopClose, Next
<1>7. ASSUME AsCore!WakeStd PROVE UNCHANGED vars
  BY <1>7 DEF AsCore!WakeStd, AsCore!rvars, AsCore!Std!StopBroadcast, AsCore!Std!Broadcast,
    AsCore!Std!loopVars, vars, loopVars
<1>8. ASSUME AsCore!WakeCore PROVE Next
  BY <1>8, CoreStop DEF AsCore!WakeCore, Next
<1>9. ASSUME UNCHANGED AsCore!vars PROVE UNCHANGED vars
  BY <1>9 DEF AsCore!vars, AsCore!ivars, AsCore!rvars, AsCore!shared, vars, loopVars
<1>. QED
  BY <1>1, <1>2, <1>3, <1>4, <1>5, <1>6, <1>7, <1>8, <1>9 DEF AsCore!Next

(***************************************************************************)
(* pool.go:88-120, factory.go:28-36, README.md:63. So does iCore, which    *)
(* takes receipts from AssignR and straight from the readers, and which    *)
(* Stop wakes only after the standard lane: whatever the standard lane     *)
(* does, or fails to do, does not show in it.                              *)
(***************************************************************************)
THEOREM CoreIsALane ==
  ASSUME NilTasks = {}
  PROVE  AsCore!Spec => Spec
<1>1. AsCore!Init => Init
  BY DEF AsCore!Init, AsCore!Core!Init, AsCore!Core!LoopInit, Init, LoopInit
<1>2. [AsCore!Next]_(AsCore!vars) => [Next]_vars
  BY CoreStep
<1>. QED
  BY <1>1, <1>2, PTL DEF AsCore!Spec, Spec

(***************************************************************************)
(* pool.go:88-154. With both lanes in place, the standard lane loses,      *)
(* repeats and reorders no task, sleeps on none, and keeps its promise.    *)
(***************************************************************************)
THEOREM StandardSafe ==
  ASSUME NilTasks = {}, Direct = {}
  PROVE  AsStandard!Spec => [](GuardedWait /\ Ledger /\ WakeupsCoverQueue) /\ KeepsPromise
BY StandardIsALane, GuardedWaitHolds, LedgerHolds, NoLostWakeup, Implements, PTL

(***************************************************************************)
(* pool.go:88-154.  And so does iCore: a receipt is lost, repeated or slept *)
(* on by nothing the standard lane does.                                   *)
(***************************************************************************)
THEOREM CoreSafe ==
  ASSUME NilTasks = {}
  PROVE  AsCore!Spec => [](GuardedWait /\ Ledger /\ WakeupsCoverQueue) /\ KeepsPromise
BY CoreIsALane, GuardedWaitHolds, LedgerHolds, NoLostWakeup, Implements, PTL
=============================================================================
