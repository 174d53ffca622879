------------------------------ MODULE Harness ------------------------------
(***************************************************************************)
(* Clients of the engine that hand a batch of tasks to a pool and wait for *)
(* all of them, as the test harness does: runParityTest and runDropsTest   *)
(* (a WaitGroup and a buffered channel closed after Wait), runOrderingTest *)
(* (a buffered channel and a count), runBatch and the sections of main.go  *)
(* (a WaitGroup alone).  The pool starts tasks by rank, lowest first; a    *)
(* rank stands for a Priority, and equal ranks for a FIFO lane.  Results   *)
(* are stamped by FracTimer, which a client that stamps resets when it     *)
(* begins, whatever other clients are doing.                               *)
(***************************************************************************)
EXTENDS Integers, FiniteSets, Sequences

CONSTANTS
  Clients,      \* concurrent calls, by HTTP requests or main
  Scenarios,    \* what the clients do: functions to records joins, stamps, sends, quits, plan
  MaxTasks,     \* bound on the length of a plan
  Bad,          \* in a plan: a submission the Factory refuses
  Width,        \* workers of the pool
  TickUs, Scale, MaxNow, MaxSeq   \* as in FracTimer

Tasks == Clients \X (1..MaxTasks)

\* a client waits for a WaitGroup or counts results; a stamp is part of a result, and
\* the tests that stamp submit Group 1 before Group 3, by Order within a Group
ASSUME HarnessAssumption ==
  /\ IsFiniteSet(Clients)
  /\ Width \in Nat \ {0} /\ Bad \in Int /\ MaxTasks \in Nat /\ MaxTasks <= MaxSeq
  /\ TickUs \in Nat \ {0} /\ Scale \in Nat \ {0} /\ MaxNow \in Nat /\ MaxSeq \in Nat
  /\ Scenarios \subseteq [Clients -> [joins : BOOLEAN, stamps : BOOLEAN, sends : BOOLEAN,
                                      quits : BOOLEAN, plan : Seq(Int)]]
  /\ \A s \in Scenarios, c \in Clients :
       /\ Len(s[c].plan) <= MaxTasks
       /\ s[c].joins \/ s[c].sends
       /\ s[c].stamps => /\ s[c].sends
                         /\ \A i, j \in DOMAIN s[c].plan :
                              i < j /\ Bad \notin {s[c].plan[i], s[c].plan[j]} =>
                                s[c].plan[i] <= s[c].plan[j]

VARIABLES
  now, start, seq, resetting, pc, realUs, taken, top, floor,   \* as in FracTimer
  does,       \* the scenario
  phase,      \* where each client is
  next,       \* the submission it makes next
  pending,    \* its WaitGroup
  chan,       \* results in its channel
  closed,     \* its channel is closed
  dropped,    \* its count of refusals
  got,        \* results it received, or else tasks that completed
  stage,      \* where each task is
  running,    \* engine.running
  late,       \* observer: queued tasks that joined after the pool had closed
  stamp       \* observer: Ts of each result, Unstamped if a Reset came between

clock == <<now, start, seq, resetting, pc, realUs, taken, top, floor>>
clients == <<phase, next, pending, chan, closed, dropped, got>>
vars == <<clock, does, clients, stage, running, late, stamp>>

Timer == INSTANCE FracTimer WITH Readers <- Tasks

Unstamped == -1

Plan(c) == does[c].plan

Valid(c) == {i \in DOMAIN Plan(c) : Plan(c)[i] # Bad}

Rank(t) == Plan(t[1])[t[2]]

\* faulty variant: room for all results but one
CapOneShort(c) == Cardinality(Valid(c)) - 1

\* the channels of the harness hold as many results as there are tasks
Cap(c) == Cardinality(Valid(c))

At(stages) == {t \in Tasks : stage[t] \in stages}

OnWorker == {"work", "send", "sent"}

Init ==
  /\ Timer!Init
  /\ does \in Scenarios
  /\ phase = [c \in Clients |-> "begin"]
  /\ next = [c \in Clients |-> 1]
  /\ pending = [c \in Clients |-> 0]
  /\ chan = [c \in Clients |-> 0]
  /\ closed = [c \in Clients |-> FALSE]
  /\ dropped = [c \in Clients |-> 0]
  /\ got = [c \in Clients |-> 0]
  /\ stage = [t \in Tasks |-> "none"]
  /\ running = TRUE
  /\ late = {}
  /\ stamp = [t \in Tasks |-> Unstamped]

-----------------------------------------------------------------------------
(* A client. *)

Turn(c, here, there) == phase[c] = here /\ phase' = [phase EXCEPT ![c] = there]

Add(counter, key, n) == [counter EXCEPT ![key] = @ + n]

\* engine.Timer().Reset, in the clients that stamp; its two steps
ResetSeq(c) ==
  /\ does[c].stamps
  /\ Turn(c, "begin", "reset")
  /\ Timer!ResetSeq
  /\ stamp' = [t \in Tasks |-> Unstamped]
  /\ UNCHANGED <<does, next, pending, chan, closed, dropped, got, stage, running, late>>

ResetStart(c) ==
  /\ Turn(c, "reset", "submit")
  /\ Timer!ResetStart
  /\ stamp' = [t \in Tasks |-> Unstamped]
  /\ UNCHANGED <<does, next, pending, chan, closed, dropped, got, stage, running, late>>

NoReset(c) ==
  /\ ~does[c].stamps
  /\ Turn(c, "begin", "submit")
  /\ UNCHANGED <<clock, does, next, pending, chan, closed, dropped, got, stage, running, late, stamp>>

More(c) == next[c] \in DOMAIN Plan(c)

\* faulty variant: wg.Add(1) stands before the loop
AssignAddsOnce(c) ==
  /\ More(c) /\ next[c] \in Valid(c) /\ running
  /\ Turn(c, "submit", "queueing")
  /\ pending' = Add(pending, c, IF does[c].joins /\ next[c] = 1 THEN 1 ELSE 0)
  /\ UNCHANGED <<clock, does, next, chan, closed, dropped, got, stage, running, late, stamp>>

\* wg.Add(1), where there is a WaitGroup, and the Factory's validation
Assign(c) ==
  /\ More(c) /\ next[c] \in Valid(c) /\ running
  /\ Turn(c, "submit", "queueing")
  /\ pending' = Add(pending, c, IF does[c].joins THEN 1 ELSE 0)
  /\ UNCHANGED <<clock, does, next, chan, closed, dropped, got, stage, running, late, stamp>>

\* the pool's submit
Queue(c) ==
  /\ Turn(c, "queueing", "submit")
  /\ stage' = [stage EXCEPT ![<<c, next[c]>>] = "queued"]
  /\ late' = IF running THEN late ELSE late \cup {<<c, next[c]>>}
  /\ next' = Add(next, c, 1)
  /\ UNCHANGED <<clock, does, pending, chan, closed, dropped, got, running, stamp>>

\* a refusal counted: of a submission meant to fail, or any in runBatch, which
\* takes its wg.Add back
CountRefusal(c) ==
  /\ More(c)
  /\ next[c] \notin Valid(c) \/ (~running /\ ~does[c].quits)
  /\ Turn(c, "submit", "submit")
  /\ dropped' = Add(dropped, c, 1)
  /\ next' = Add(next, c, 1)
  /\ UNCHANGED <<clock, does, pending, chan, closed, got, stage, running, late, stamp>>

\* faulty variant: break where the code has return
BreakOff(c) ==
  /\ More(c) /\ next[c] \in Valid(c) /\ ~running /\ does[c].quits
  /\ Turn(c, "submit", "wait")
  /\ UNCHANGED <<clock, does, next, pending, chan, closed, dropped, got, stage, running, late, stamp>>

\* a refusal met with return; what was queued before goes on without the client
Quit(c) ==
  /\ More(c) /\ next[c] \in Valid(c) /\ ~running /\ does[c].quits
  /\ Turn(c, "submit", "quit")
  /\ UNCHANGED <<clock, does, next, pending, chan, closed, dropped, got, stage, running, late, stamp>>

Submitted(c) ==
  /\ ~More(c)
  /\ Turn(c, "submit", "wait")
  /\ UNCHANGED <<clock, does, next, pending, chan, closed, dropped, got, stage, running, late, stamp>>

\* wg.Wait and close
Joined(c) ==
  /\ does[c].joins /\ pending[c] = 0
  /\ Turn(c, "wait", "drain")
  /\ closed' = [closed EXCEPT ![c] = does[c].sends]
  /\ UNCHANGED <<clock, does, next, pending, chan, dropped, got, stage, running, late, stamp>>

\* one result: after the close, or one of those counted on
Receive(c) ==
  /\ phase[c] = IF does[c].joins THEN "drain" ELSE "wait"
  /\ chan[c] > 0
  /\ chan' = Add(chan, c, -1)
  /\ got' = Add(got, c, 1)
  /\ UNCHANGED <<clock, does, phase, next, pending, closed, dropped, stage, running, late, stamp>>

\* the channel is drained, or all of the count received
Return(c) ==
  /\ \/ chan[c] = 0 /\ Turn(c, "drain", "returned")
     \/ ~does[c].joins /\ got[c] = Cap(c) /\ Turn(c, "wait", "returned")
  /\ UNCHANGED <<clock, does, next, pending, chan, closed, dropped, got, stage, running, late, stamp>>

ClientStep(c) ==
  \/ ResetSeq(c) \/ ResetStart(c) \/ NoReset(c)
  \/ Assign(c) \/ Queue(c) \/ CountRefusal(c) \/ Quit(c) \/ Submitted(c)
  \/ Joined(c) \/ Receive(c) \/ Return(c)

-----------------------------------------------------------------------------
(* A task t of client t[1], on a worker. *)

Become(t, here, there) == stage[t] = here /\ stage' = [stage EXCEPT ![t] = there]

\* faulty variant: any queued task
StartAny(t) ==
  /\ Cardinality(At(OnWorker)) < Width
  /\ Become(t, "queued", "work")
  /\ late' = late \ {t}
  /\ UNCHANGED <<clock, does, clients, running, stamp>>

\* none queued has a lower rank
StartTask(t) ==
  /\ Cardinality(At(OnWorker)) < Width
  /\ Become(t, "queued", "work")
  /\ \A u \in At({"queued"}) : Rank(t) <= Rank(u)
  /\ late' = late \ {t}
  /\ UNCHANGED <<clock, does, clients, running, stamp>>

ReadClock(t) ==
  /\ stage[t] = "work" /\ does[t[1]].stamps
  /\ Timer!ReadClock(t)
  /\ UNCHANGED <<does, clients, stage, running, late, stamp>>

TakeSeq(t) == Timer!TakeSeq(t) /\ UNCHANGED <<does, clients, stage, running, late, stamp>>

ReturnUs(t) ==
  /\ Become(t, "work", "send")
  /\ Timer!ReturnUs(t)
  /\ stamp' = [stamp EXCEPT ![t] = IF floor[t] = -1 THEN Unstamped ELSE Timer!Value(t)]
  /\ UNCHANGED <<does, clients, running, late>>

\* no stamp: a result to send, or completed.Add(1)
Work(t) ==
  LET c == t[1] IN
  /\ ~does[c].stamps
  /\ Become(t, "work", IF does[c].sends THEN "send" ELSE "sent")
  /\ got' = Add(got, c, IF does[c].sends THEN 0 ELSE 1)
  /\ UNCHANGED <<clock, does, phase, next, pending, chan, closed, dropped, running, late, stamp>>

Send(t) ==
  LET c == t[1] IN
  /\ chan[c] < Cap(c)
  /\ Become(t, "send", IF does[c].joins THEN "sent" ELSE "done")
  /\ chan' = Add(chan, c, 1)
  /\ UNCHANGED <<clock, does, phase, next, pending, closed, dropped, got, running, late, stamp>>

\* the deferred wg.Done
Done(t) ==
  /\ Become(t, "sent", "done")
  /\ pending' = Add(pending, t[1], -1)
  /\ UNCHANGED <<clock, does, phase, next, chan, closed, dropped, got, running, late, stamp>>

TaskStep(t) == ReadClock(t) \/ TakeSeq(t) \/ ReturnUs(t) \/ Work(t) \/ Send(t) \/ Done(t)

-----------------------------------------------------------------------------
Advance == Timer!Advance /\ UNCHANGED <<does, clients, stage, running, late, stamp>>

\* Engine.Stop at any moment; later joins are late, though the pool may still be open
Stop ==
  /\ running /\ running' = FALSE
  /\ UNCHANGED <<clock, does, clients, stage, late, stamp>>

Next ==
  \/ \E c \in Clients : ClientStep(c)
  \/ \E t \in Tasks : StartTask(t) \/ TaskStep(t)
  \/ Advance \/ Stop

Spec == Init /\ [][Next]_vars

(***************************************************************************)
(* Clients and tasks on workers go on; a pool with a task queued before    *)
(* its close starts the next one (HarmonicPool, WorkerPool).               *)
(***************************************************************************)
Fairness ==
  /\ \A c \in Clients : WF_vars(ClientStep(c))
  /\ \A t \in Tasks : WF_vars(TaskStep(t))
  /\ WF_vars(At({"queued"}) \ late # {} /\ \E t \in Tasks : StartTask(t))

FairSpec == Spec /\ Fairness

-----------------------------------------------------------------------------
(***************************************************************************)
(* timer.go:35, for the readers of the harness, each of which reads once.  *)
(***************************************************************************)
RealOrder == Timer!RealOrder

(***************************************************************************)
(* demo_drops.go:318-319 "Group 1 (squared) drains completely before       *)
(* Group 3 (transposed) begins", 492, serve.go:179.  It is so of the       *)
(* starts only: of the tasks that rank below a task of the same client,    *)
(* fewer than there are workers complete with a later Ts - provided no     *)
(* client resets the timer in between.                                     *)
(***************************************************************************)
GroupsInOrder ==
  \A t \in Tasks : stamp[t] # Unstamped =>
    Cardinality({u \in Tasks : /\ u[1] = t[1] /\ stamp[u] # Unstamped
                               /\ Rank(u) < Rank(t) /\ stamp[u] > stamp[t]}) < Width

(***************************************************************************)
(* demo_drops.go:398-399, 515-516.  The channel is closed after the        *)
(* WaitGroup reached zero, when no task is left that would send on it.     *)
(***************************************************************************)
NoSendOnClosed ==
  \A c \in Clients : closed[c] => \A t \in At({"queued", "work", "send"}) : t[1] # c

(***************************************************************************)
(* demo.go:155-163, demo_drops.go:398-427, serve.go:216-219.  A client     *)
(* that returns has every submission accounted for: its results and its    *)
(* refusals are as many as it made, also if the engine stopped meanwhile.  *)
(***************************************************************************)
CountsAddUp ==
  \A c \in Clients : phase[c] = "returned" => got[c] + dropped[c] = Len(Plan(c))

(***************************************************************************)
(* The same lines.  A client comes back: its channel holds all the results *)
(* although nobody receives before the join, and Stop does not keep a task *)
(* from running that was queued before - but one queued after the pool     *)
(* closed leaves the client waiting for good.                              *)
(***************************************************************************)
JoinReturns == <>[](\A c \in Clients : phase[c] \in {"returned", "quit"} \/ \E t \in late : t[1] = c)
=============================================================================
