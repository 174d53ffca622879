# A verification development for invoke-golang

`invoke` is a task routing engine: callers hand it functions, it queues them on
one of four kinds of workers, and it takes commands off TCP, UDP and HTTP and
sends their results back. This directory holds TLA+ modules translated from the
Go source, the TLC configurations that check them on small instances, and
TLAPS proofs of their safety properties for instances of any size.

Line numbers refer to the files under `src/`; `PROJECT.json` maps each
definition to the lines it stands for.

## The system

| Component | State | Operations | Where |
|---|---|---|---|
| iPool, standard lane | FIFO `queue`, `mu`, `cond`, `stopCh` | `submit`, `run`, `stop` | pool.go:56-154 |
| iPool, iCore lane | `rQueue`, `rMu`, `rCond`, the same `stopCh` | `submitR`, `runCore`, `stop` | pool.go:88-154 |
| pPool | as the standard lane | as the standard lane | pool.go:156-216 |
| hPool | heap by (Group, Order), `mu`, `cond`, `stopCh` | `submit`, `run`, `stop` | pool.go:29-54, 218-273 |
| Factory | none of its own | `AssignI/R/P/H`, `validate`, `Push`, `send` | factory.go |
| Connection registry | `connection`: address to entry | `register`, `unregister` | invocation.go:225-247 |
| Push acknowledgement | per client `mu`, `ackCh` of one byte | `send`, ack branch of `readLoop` | factory.go:81-125, tcp.go:54-66 |
| Listeners | `tcpLn`, `udpConn`, read by `Stop` | `serveTCP`, `serveUDP`, `PushUDP` | tcp.go, udp.go |
| CommandTable | `commands`, `mu`, `sealed` | `Register`, `Seal`, `Call`, `Dispatch`, HTTP | registry.go |
| Drop log | `logCh`, batch, timer, files | `emit`, `runLogger`, `add`, `flush`, `flushNow` | invocation.go:249-286, drops.go |
| FracTimer | origin, counter, tick | `ReadUs`, `Reset` | timer.go |
| Worker counts | `Config`, advice | `resolveWorkers`, `CalibrateIdempotent` | invocation.go:152-206, calibrate.go |
| Engine lifecycle | `running`, `stopCh` | `Start`, `Stop` | invocation.go:118-184 |
| HTML pages | `pages`, `httpSrv` | `RegisterPage`, `ServeHTML` | http.go |
| Test harness | WaitGroups, channels and counts of its own | clients that hand over a batch and wait; `scatter`; `testProtocol` | testharness/ |

How they interact. `Assign*` reads `engine.running` and then appends to a pool's
queue under the pool's lock. A TCP reader or the UDP listener submits a receipt
straight to iCore; the receipt calls `Dispatch`, which looks the command up and
submits its handler to hPool; the handler's result goes through `Push` to a
client's entry in the registry, and `Push` submits `send` to pPool. The reader
goroutine of that client hands the client's ack to `send` through `ackCh`. `Call`
(and HTTP through it) waits for its handler on two channels. `Stop` clears
`running`, closes the sockets, closes and wakes the pools one after another,
closes `engine.stopCh`, and flushes the drop log while the logger drains its
channel.

What is hard here: everything runs on goroutines of its own; `running`,
`sealed`, `tcpLn` and the batcher's timer are tested in one step and acted on in
another; condition variables are signalled outside the lock; a late ack races a
timeout; remote addresses come back; and everything has to end after a `Stop`
that waits for nobody. `PROJECT.json` lists each hazard at its line, with the
properties that would catch it.

What makes each component correct:

- *lanes and pools*: no task lost, repeated or overtaken; no wakeup lost; what
  was queued before a stop runs; workers go home; iCore independent of the
  standard lane;
- *hPool*: starts in priority order, for any history of pushes and pops;
- *push*: a frame and its resend adjacent, an ack credited to the frame it
  answers, a refused frame resent, no close under a send;
- *registry*: each connection closed once, and none leaked;
- *the way of a command*: an answer goes to its sender while that one is there, frames
  leave in the order of `Ts`, every packet is answered or given up, and no pool is
  asked for what it does not promise;
- *command table*: nothing of the wrong type leaves, nothing of the right type
  is destroyed, no registration begun after the seal is stored, and a `Call` returns unless the process
  dies, or it is kept by a task that joined its pool after the close or by workers that are all kept so;
- *drop log*: every message in exactly one place, no batch stranded, what is pending at `Stop`
  written (though another flush of the same second may replace its file);
- *timer*: order of values follows order of calls; *listeners*: they end;
  *worker counts*: hPool and iCore get workers, and advice is a range that loses
  none; *lifecycle*: whoever finds `running` set finds open pools;
- *harness*: a client that waits comes back, with all that it submitted accounted for.

## The modules

| Module | Models | Uses |
|---|---|---|
| `WorkerLoop` | mutex, condition variable, stop channel and worker goroutines that every pool repeats | |
| `TaskPromise` | what a pool promises its callers (abstract) | |
| `WorkerPool` | one FIFO lane: the loop, `Assign` and `Stop` | `WorkerLoop`, refines `TaskPromise` |
| `IPool` | two lanes with one stop | `WorkerPool` twice |
| `HeapQueue`, `HeapOps` | `hTaskHeap` under container/heap, as operators and as a state machine | |
| `HarmonicPool` | the loop over the heap, with `AssignH` | `WorkerLoop`, `HeapQueue`, refines `TaskPromise` |
| `PushAck` | one client: pPool's sends, begun first in first out, the wire, `ackCh`, the reader | |
| `ConnRegistry` | the registry under clients that come, leave and come back | |
| `CommandFlow` | a packet from the wire through iCore, `Dispatch`, hPool, `Push` and pPool back to the wire | `ConnRegistry`, refines `TaskPromise` three times |
| `CommandTable` | registration, seal, `Call`, `Dispatch`, the type gate, handlers that call or scatter | |
| `DropLog` | from `emit` to the file | |
| `FracTimer` | `ReadUs` and `Reset` | |
| `Harness` | clients that submit a batch and wait for it | `FracTimer` |
| `Lifecycle` | `Start`, `ServeHTML`, `Stop` and calibration in any order: worker counts, listeners, panics | |
| `WorkerPoolProofs` | theorems about a lane, and about each lane of iPool | `WorkerPool`, `IPool` twice |
| `PushAckProofs`, `CommandFlowProofs`, `CommandTableProofs`, `DropLogProofs`, `HarnessProofs`, `LifecycleProofs` | theorems about the module each is named after | that module |
| `HarmonicPoolProofs` | theorems about the heap and about hPool | `HarmonicPool`, `HeapOps` |

`MC*` modules hold only definitions of constants; a
configuration without an `MC` module needs none. Operators described as *faulty
variant* in a comment are never part of a next-state relation: each stands
before the definition it is a wrong version of, and replacing one by the other
must break the property `PROJECT.json` pairs with it.

### Correspondence

**WorkerLoop, WorkerPool.** A worker's program counter is its place in
`run()`: `lock` (before `p.mu.Lock`), `check` (holding it, before the test of
the queue), `park` (having seen an empty queue and an open `stopCh`, holding the
lock, not yet on the notify list), `asleep` (in `cond.Wait`), `run` (in
`t.run()`), `exited`. `park` is a state of its own because `stop()` takes no lock:
that is where a worker can miss both the close and the broadcast. A `Signal` on
nobody is a no-op, as in Go; which sleeper it wakes is left open, which includes
Go's choice. `Assign` is three steps - `Validate`, `Submit`, `SignalSubmit` - and
calls in `Direct` (receipts from the readers) skip the first. `Stop` is
`StopRunning`, `StopClose`, `StopBroadcast`. The history variables `appended`,
`started` and `finished` serve the properties only.

**HeapQueue, HarmonicPool.** `SiftUp` and `SiftDown` are the loops of
container/heap, which the repository uses and does not contain, written as
recursive functions of the slice and of where the moving item is in it (`Sifting`).
An Order is an integer, which stands for a number, or `NaN`; `Less` is false whenever a NaN is compared,
as in Go. A task carries its priority. `HeapOps` keeps beside the heap (`slice`) how often each
item was pushed and not popped (`held`), `HarmonicPool` the line of those tasks in the order in which they came
(`arrived`); both serve the properties only. The promise of `HarmonicPool` (`LeastFirst`) orders starts by
Group whatever the Orders are, and within a Group while all of them are numbers (`Numbered`).

**PushAck.** One client. Packets are numbered by the pushes, a frame on the wire is its
packet, `wire` the frames the client has not read and `Window` how many fit before
`Write` blocks. `ackCh` holds at most one byte; the byte in the model also knows
which copy it answers, which the code does not, and only properties look at that.
The 50 ms timer may fire whenever a worker waits. The client reads and answers,
answers nothing, or leaves; the reader also ends on a frame it rejects.

**ConnRegistry.** An entry of `table` is a connection; an address can be
taken again as soon as its client has gone, before the engine has closed its end.
`LoadAndDelete` and the close are two steps. Its runs are those of `CommandFlow`.

**CommandFlow.** A packet's `stage` is where it is: waiting in iCore's queue
(`receipt`), in `handleCommand` (`dispatch`, `admitted`), in hPool's queue
(`command`), in its handler (`handler`, and `pushing` once it is past `AssignP`'s
validation), in pPool's queue (`frame`), on a pPool worker (`popped`, and `sending`
with the entry's mutex). `from` is what the closures captured, `entry` the entry
that `Push` found. What is decided elsewhere is a choice here: priorities
(`HarmonicPool`), acks and the resend, which counts with its frame (`PushAck`),
outcomes of handlers (`CommandTable`); a handler pushes at most once. A handler
may answer, `Route` to another client, or `PushUDP`. `Ts` is the rank of the stamp,
which `RealOrder` justifies. `Stop` clears `running` and closes the pools in one
step: a task that joins a queue later is `late`, which is more tasks than in the code,
and may run or not. A datagram that was read before `Stop` may be submitted after it.

**CommandTable.** `Regs` are the registrations that goroutines attempt; the test of
`sealed` and the store are two steps, `Seal` one. A request looks up, is refused or
passes `validate` (`Validate`), joins hPool's heap in a later step (`Admit`), runs, and feeds a
channel; a value is its dynamic type. `Stop` clears `running` and closes iPool, pPool and hPool
one after another, between any two of these steps: what is validated before and joins after is
`late`, its caller is told nil, and it may run or not. A
handler may return any value its declared type allows, nil, an error, or panic;
under `Dispatch` a panic ends the process (`alive`). What a handler does meanwhile is
the `work` of its registration: nothing that waits; a `Call` of another command, which is a
request of its own with the path `nested` (if the instance has none for it, the handler
waits for nothing); or `scatter`'s two tasks, whose `part` says how far each is, with the same two steps
and the same window. A refusal of either ends the handler, whatever the other task is doing.

**DropLog.** Steps under `b.mu` are single actions; the look at `b.timer` in
`flushNow` is outside it. A timer counts down with `Tick`, and the same tick lets
the second in the file's name pass: `file` is what the file of this second
holds. A flush that writes again in that second replaces it, and a write may fail, before the
file is truncated or after. `filed`, `failed` and `replaced` say what became of the messages that a flush took.
`os.WriteFile` is one step: two flushes of one second write one after the other, and the tail that a
longer batch leaves if they overlap is not looked at. `Exit` is `main` returning after `Stop`.

**FracTimer, Harness.** `ReadUs` is three steps (clock, counter, result), `Reset` two.
Two `Reset`s do not overlap, which in the code they may; the properties compare only readings
between which no step of any `Reset` falls (`Forget`), so that a second one under way cannot break them.
A client of the harness is described by what it does: `joins` (a WaitGroup), `stamps`
(it resets the timer and its tasks read it), `sends` (results over a channel), `quits`
(returns on a refusal instead of counting it) and its `plan`, the ranks of the tasks it
submits in order, `Bad` for those meant to be refused. `MCHarness` names the
functions that these stand for. One pool that starts tasks by rank stands for whichever
pool a client uses: a rank is a Priority, equal ranks are a FIFO lane. Each task reads
the timer at most once. A task queued after `running` was cleared is `late` and may run
or not.

**Lifecycle.** `call` is how far the caller is with `Start` or `Stop`: each line of `Stop`
that closes something is one step. `Begun` counts the `Start`s, `owner` says of which
engine each was, and `pc`, `socket` hold its listener goroutines. `field` is what
`tcpLn`, `udpConn` and `httpSrv` hold. A goroutine binds, stores its socket in the
engine, and loops over accepting; the HTTP server is stored before its goroutine
begins. The caller may `Start` a running engine again, `Stop` one twice or before it
started - the process then panics where the code does and takes no further
step - or build the next engine (`Renew`) with an advised count. A negative count in a `Config` starts no worker. A calibration
measures any of `Throughputs`, negative ones included (a division by an elapsed time
of zero), may be out while `Stop` runs, and need never come back. Calls to `Start` and `Stop`
do not overlap; `ServeHTML` may come at any time.

## What the runs check

Runs that pass, with their bounds:

| Run | Instance | Shows |
|---|---|---|
| `worker_pool` | 2 workers; 4 calls, one with nil, one unvalidated | ledger, guarded wait, wakeups; drain before stop; exit outside the window; refinement of `TaskPromise` |
| `heap` | heap of up to 7 items, NaN among the Orders, every push and pop | the lowest Group is popped; the least item is, while no NaN was pushed since the heap was last empty |
| `harmonic_pool` | 2 workers, up to 3 of the tasks of `MCTasks` | wakeups, drain, refinement in priority order |
| `push_ack` | 3 pushes, 2 protocol workers, window of 2 | adjacent copies, strays only late, no close under a send; a worker comes back; a refused frame is resent |
| `command_flow` | 2 packets, one perhaps a datagram; 2 connections on 1 address; 1 iCore, 2 hPool and 2 pPool workers; `Stop` | answers go home, wire in `Ts` order, all accounted for, closed once, no leak, three pools used as promised |
| `command_table` | 2 registrations of 1 name; a `Call`, a `Dispatch` and the nested `Call` of each; 2 hPool workers; `Stop` | the gate in both directions and without it under `Dispatch`, the seal, `Call` returns unless kept by a late task or by workers that are all kept |
| `drop_log` | 3 messages, channel of 1, two timer flushes | exactly one place each, no stranded batch, pending is written |
| `harness` | 4 scenarios of one or two clients with up to 3 tasks each; 2 workers; clock to 1, counter to 4; `Stop` | order of calls is order of stamps, groups overlap by less than the workers, no send on a closed channel, counts add up, clients come back |
| `ipool` | standard lane 1 worker and 1 call; iCore 2 and 2 | receipts independent of the standard lane, one stop for both |
| `lifecycle` | hosts of 2 and 8 cores; 6 Configs; 2 `Start`s of one engine or of two, any number of `Stop`s; TCP, UDP and HTTP | advice a range that loses no workers, running means open pools with workers, which `Stop` panics, a listener or server `Stop` found ends |

The bounds. Two workers are the least with which a wakeup can go to the wrong one
or a task be taken under another's nose, and three calls the least that leave one
queued behind both; nil and unvalidated calls are one each because they differ
only in where they enter. A heap of seven has three full levels, so a sift goes
through a node with two children more than once. Two pushes make an ack stray and
a third shows strays following one another. Two connections on one address are two
generations of it, with a packet of each in flight or both of one; two frames are what it
takes to overtake. Two hPool workers with a `Call` and a `Dispatch`, whose handlers both
call, can be saturated, and need not be; one registration has a plain type and nests, the other an
interface and scatters, and either may replace the other while it is in use. A type that does not encode and an invalid
Priority, which `CheckSeal` and `Refuse` provide for, are not in the instance: the one ends like a
sealed table, the other like a stopped engine. Two flushes, `Stop` and the
logger are all who ever flush at once. The divisor of the timer is scaled from 1000
to 2 and the tick to 3, which keeps the rounding uneven. The harness's channels, of 10 to 30
results, keep the relation of their size to the number of tasks; two clients are what a
`Reset` in somebody else's measurement takes, and three tasks what makes a
worker of two fall behind.
The six Configs leave hPool some cores, exactly none, and fewer than none, under each
strategy, and one of them has negative counts; two `Start`s are what it takes for a count to come from an advice, or for a
pool or a server to be replaced. `CHECK_DEADLOCK FALSE` stands where the system
may really come to rest: all workers asleep or gone, all clients gone, a stopped
engine, a bound reached. No run uses symmetry,
as nearly all check liveness.

Fairness. A goroutine that can make a step eventually makes one: Go's scheduler
is preemptive and its mutexes do not starve, so each worker, reader,
flush, listener and client has weak fairness of its own, and so has a call or a `Stop` once
begun. Where a pool is only its promise (`CommandFlow`, `CommandTable`, `Harness`), a task queued before the
close is started, which `WorkerPool` and `HarmonicPool` show, and a late one need not be.
Nobody has to call anything. Tasks are assumed to return in `WorkerPool` and `HarmonicPool`;
in `IPool` only receipts are, because the question is whether standard tasks that
never return hold them up. Handlers return, or wait for what they asked for, in `CommandTable`. Clients owe nothing: in `PushAck` they may stop reading or
answering for good.

### Where the code does not do what is said of it

Two runs check a claim and find it violated; the findings in `PROJECT.json` quote it.

| Run | Claim | What happens |
|---|---|---|
| `worker_pool_stop` | invocation.go:164 pools must still stop | a worker on its way into `cond.Wait` misses the close and sleeps for ever |
| `push_ack_late` | tcp.go:65 a late ack is dropped | it waits in `ackCh`, and the next push takes it for its own |

`OutsideWindowExits` and `StrayAcksAreLate` are the parts of these claims that hold.

More such places were met while modelling. The models allow what the code does
there, and the properties are worded for what is true of it:

| Claim | What the code does | Where the model has it |
|---|---|---|
| README.md:105 tasks that enter the queue will run | validated before `Stop`, appended after the workers left, a task never runs | `Submit`; `QueuedBeforeStopRuns` asks it of tasks queued before the close |
| README.md:105 tasks that enter the queue will run | the same window on hPool: `Call` waits at registry.go:117 for a handler that never runs, `scatter` for a task | `late` and `HeldUp` in `CallReturns` |
| README.md:145 any float64 is a legal Order | a NaN in the heap lets a later pop pass over a lesser item | `spoilt` in `HeapOps` |
| testharness/demo_drops.go:318, 492 group 1 completes before group 3 begins | with several workers groups overlap | `TaskPromise` orders starts; `GroupsInOrder` bounds the overlap |
| tcp.go:40 one goroutine owns one connection | the old reader of an address closes its new connection | exception in `NoneLeaks` |
| registry.go:174 the result goes to the client of the command | the next client with its address gets it, if the first has left | exception in `AnswersGoHome` |
| testharness/demo.go:160 `wg.Wait` after refusals are counted | a task queued after the close is neither refused nor run, and the wait does not end | exception in `JoinReturns` |
| README.md:213 no registration possible after `Seal` | one past its test of `sealed` still stores | `vault.pending` in `SealBoundsTable` |
| README.md:198 `R` is the type the system expects back | with an interface type every result is destroyed | exception in `GateIsExact` |
| README.md:217 `finalize` runs on every result | `Dispatch` never calls it, and sends what `Call` would destroy if an interface is declared | `FinishDispatch`; exception in `GateIsExact` |
| README.md:277 rejections get to a file | not after the logger has gone | `~closed` in `PendingIsFlushed` |
| README.md:277 flushed to a timestamped file | a second flush within one second replaces the first, and a write may fail | `replaced`, `failed` in `OnePlace` and `PendingIsFlushed` |
| README.md:277 every two seconds | each drop puts the flush off | `Add` |
| timer.go:35 a unique slice for each call | slices round to the same microsecond | `FracUs` |
| tcp.go:32 clean shutdown | a socket stored after `Stop` looked stays open | `field` in `PublishedReturns` |
| README.md:299 bounds for the host | the advice can exceed the cores | `Recommend`; `AdviceIsRange` has no upper bound |
| invocation.go:56 `Workers`: harmonic pool size | ignored under both named strategies | `resolveWorkers` |

## What is proved

For every value of the constants within the named assumptions. Each proof module has an
inductive invariant (`HarnessProofs` three, `HarmonicPoolProofs` one for the heap alone and one for the pool), a lemma
for the initial state, lemmas for the steps of each part of it, a theorem that it always holds (`Inductive` in the
proofs about the pools, `HeapInvariant` for the heap, `Invariant` elsewhere),
and one theorem for each property of a run that it implies.

| Module | Inductive invariant | Theorems, and the properties they state |
|---|---|---|
| `WorkerPoolProofs` | `IInv` | `TypeCorrect`; `GuardedWaitHolds`: `GuardedWait`; `LedgerHolds`: `Ledger`; `NoLostWakeup`: `WakeupsCoverQueue`; `Implements`: `KeepsPromise`; `StandardIsALane`, `CoreIsALane`: the lanes of `IPool` implement `WorkerPool`, so (`StandardSafe`, `CoreSafe`) all of this holds of them |
| `HarmonicPoolProofs` | `OInv`, `IInv` | `PopsInOrder`: `PopsLeast` of `HeapOps`; `NoLostWakeup`: `WakeupsCoverHeap`; `Implements`: `KeepsPromise` |
| `PushAckProofs` | `PInv` | `ResendsFollow`: `CopiesAdjacent`; `StraysExplained`: `StrayAcksAreLate`; `CloseWaits`: `NotClosedUnderSend` |
| `CommandFlowProofs` | `CFInv` | `TypeCorrect`; `ClosedOnceHolds`: `ClosedOnce`; `AnswersGoHomeHolds`: `AnswersGoHome`; `WireOrderHolds`: `WireInTsOrder`; `PoolsImplemented`: `PoolsAsPromised` |
| `CommandTableProofs` | `CInv` | `TypeCorrect`; `GateHolds`: `GateIsExact`; `SealHolds`: `SealBoundsTable` |
| `DropLogProofs` | `DInv` | `TypeCorrect`; `CoverHolds`: `BatchCovered`; `OnePlaceHolds`: `OnePlace` |
| `HarnessProofs` | `HInv`, `TimerInv`, `GroupInv` | `NoSendHolds`: `NoSendOnClosed`; `AccountsHold`: `CountsAddUp`; `RealOrderHolds`: `RealOrder`; `GroupsHold`: `GroupsInOrder` |
| `LifecycleProofs` | `LInv` | `AdviceHolds`: `AdviceIsRange`; `RunningMeansOpen`: `OpenWhileRunning` |

### Why these invariants

**WorkerPool.** `IInv` is `TypeOK`, `GuardedWait`, `Ledger` and `WakeupsCoverQueue`, none of the
last three inductive alone: a wakeup can only be shown covered if the
worker in `park` is known to have an empty queue behind it, which needs the mutex
(`GuardedWait`); and that a worker takes the head of the queue and nobody else's task needs
the queue without repetitions (`Ledger`). `WakeupsCoverQueue` compares cardinalities, so its
step uses that the set of sleepers loses or gains one element. `Implements`: a task's abstract
state is read off its call and the workers; submit, dequeue and finish map to the steps of the
promise and everything else stutters.

**IPool.** The proofs read `IPool` twice over the variables of `WorkerPool` and those of another lane: once with
`WorkerPool`'s lane as the standard one (`AsStandard`), once as iCore (`AsCore`). Every step of the lane is
the step of that name in `WorkerPool`, and every step of the other lane a stutter, since `running` and the stop channel, all they share, are written by
`Stop` alone. The hypotheses, no nil call and for the standard lane no direct one, are what `IPool` gives its lanes.

**The heap.** What a sift returns, for a heap of any length, is proved without an induction over data. A loop
that counts down has a function (`LoopFunction`: a least counterexample has a predecessor), and what each of its turns
keeps holds of what it returns (`LoopRule`); `SiftUpRule` and `SiftDownRule` say so of `heap.up` and `heap.down`.
The loops keep a rearrangement of the items they began with (`Rearranged`: a permutation of the places and its inverse),
and the order everywhere but around the moving item (`OrderedButAbove`, `OrderedButBelow`; one turn is `UpTurn`,
`DownTurn`). The order is a parameter: any relation that contains `Less`, is transitive on the
items, and relates `a` to `b` wherever `b` is not less than `a` (`Respects`). By Group is such an order always; by
priority only while no item is a `NaN`, as `Less` fails to be one just there. `PushKeepsHeap`,
`PopKeepsHeap` and `RootIsLeast` follow for both at once. `OInv` says that the heap holds each item as often as
`held` counts it, and that the heap is one in both senses as far as it goes. `PopsLeast` follows,
since what a pop leaves was in the heap.

**HarmonicPool.** `IInv` is `TypeOK`, `GuardedWait` and `Ledger`, as in `WorkerPool` (here the ledger is a set: heap, workers
and finished tasks partition what was pushed, and heap and line hold the same tasks, each once), with
`Priority` (the heap is one by Group, and by priority if `Numbered`), `FiniteCalls` (the signals to come can be
counted) and `WakeupsCoverHeap` itself. `Implements`: a worker takes the root of the heap; `Priority` and
`RootIsLeast` make that a task the promise lets start, and `Room` finds a worker for it.

**PushAck.** All three properties hang on `entry.mu`: `Mutex` says who is inside, `OneSender` that
a packet is sent by one worker only, and first written by it, which needs the queue to be younger than all
that was begun (`YoungInLine`); `Copies` says that while a worker waits the last frame written is its own. An ack is
followed from the wire to `answers`, `ackCh` and `credited`: it is of a packet written
(`AcksOfWritten`), and of one that was written once it is in one place once (`OneAckEach`). A send that is
over wrote again or took an ack (`EndedSends`), so that a stray leads back to a packet written twice.

**CommandFlow.** `RegInv` is the registry's part: connections are registered in the order in which they
connected (`InOrder`), an address has one client at a time, the last (`OneClient`), and the table
has the last registered of each address (`TableIsLatest`). `FlowInv` is the packets': each is in the queue of its stage
once and in no other (`LineInv`), one send holds an entry (`OneSend`), and what `Push` looked up for a
packet is no older than the connection that sent it (`Addressed`); a younger one has the same address only
if the older client has left, which makes `AnswersGoHome`. For `WireInTsOrder`, a
packet stamped earlier is ahead on the way from `Push` to the wire of every later one it was not once
near (`Stamped`, `Overtaken`).
`PoolsImplemented` is three refinements at once: under `CFInv` each step of the flow is, for each of the three pools, a step of
`TaskPromise` or a stutter.

**CommandTable.** A request keeps the registration that it looked up (`HoldsItsCommand`), and the
table holds registrations under their own names (`TableIsKeyed`); so `GateIsExact` does not depend on
what the name is registered as by the time of the answer. What the handler produced is one of the outcomes of
that registration (`ProducedByItsCommand`), what is returned is what the gate makes of it
(`AnsweredByTheGate`), and what `Dispatch` hands to `Push` is what its handler produced (`PushedAsProduced`). `SealBoundsTable` needs that the seal knew of everyone past the test
(`SealKnowsThePending`).

**DropLog.** `OnePlace` says that a message is somewhere and nowhere twice, and is not inductive: a message about
to be emitted must be nowhere, and the batch of a flush disjoint from every other place while the flush has it
(`Places`); the four ways to end exclude each other and the present file is among what is filed (`EndsApart`);
and no step drops a message (`Somewhere`). What a write does to all of them, whether it fails or not, is `WriteMoves`.
`BatchCovered` is inductive with the types.

**Harness.** `HInv` has an `Account` for each client: what it submitted is refused or is a task
(`Submissions`), what was sent is on the channel or received (`Results`), and the WaitGroup counts the
tasks that are awaited (`Group`). `TimerInv` bounds the largest value handed out by what the clock and the counter
give now, and a reader's floor by its value to be (`Rising`); every step of the harness is one of `FracTimer` or
leaves its variables alone (`TimerUsed`). `GroupInv` is the argument for `GroupsInOrder`: beside a
started task there is a set of fewer than `Width` tasks, those that were on the workers when it started,
and every other task that had to start before it is off its worker, with a stamp no higher than the one it
gets (`Beside`, `Left`). The set is a witness that only the proof has; no variable keeps it.

**Lifecycle.** `LInv` adds how far a `Start` or `Stop` has come: pools are open with workers from before
`running` is set (`OpenFromStart`), `running` is cleared before they close (`StopCounted`), and
what a `Stop` finds stopped was stopped by an earlier one of the same engine (`StoppedBefore`), so only a second one panics.
`AdviceIsRange` is arithmetic on `Recommend`, for negative throughputs too.

### From which assumptions

| Assumption | Says | Why the code justifies it |
|---|---|---|
| `WorkersAssumption`, `TasksAssumption` | workers and calls are finite sets; nil and direct calls are calls; `NoWorker` and `NoTask` are none | the goroutines started and the calls made are finite in number |
| `HTasksAssumption`, `ItemsAssumption` | a Group is an integer, an Order an integer or `NaN`, which is no integer; `MaxCalls` is a number, `NoTask` no task | Group is an `int`, Order a `float64` (pool.go:28-31); of an Order the code asks only how it compares |
| `PushAssumption` | `Window` is positive, `Nobody` is nobody | a socket takes a frame when its buffer is empty |
| `FlowAssumption` | each pool has a worker; packets are finitely many and, like connections, numbered | hPool and iCore always do (`OpenWhileRunning`), pPool unless `PWorkers` asks for none; numbers are the order of arrival |
| `TableAssumption` | an interface type may be nil and is no value's dynamic type; a handler of another declared type returns values of that type only | Go's types: `Register[T]` takes a `func(map[string]string) (T, error)` (registry.go:60); `Register` declares nothing |
| `DropAssumption` | channel and timeout are positive; the goroutines are distinct | constants of invocation.go and drops.go |
| `HarnessAssumption` | finitely many clients; each waits, for a WaitGroup or a channel; one that stamps collects its results over a channel and submits lower ranks first | the functions `MCHarness` names; the two demos that stamp submit Group 1 before Group 3 |
| `LifecycleAssumption` | `Configs` are of the type `Config`, whose counts may be negative; a host has a core | invocation.go:55-70 |

TLC evaluates all of them on the runs.

### Only model-checked

- Liveness, all of it: fairness and `ENABLED` are outside the prover's reach. That is
  `QueuedBeforeStopRuns`, `OutsideWindowExits`, `PushedBeforeStopRuns`, `WorkerComesBack`, `RefusedIsResent`, `NoneLeaks`,
  `Accounted`, `CallReturns`, `PendingIsFlushed`, `JoinReturns`, `LanesApart` and `PublishedReturns`.

## Not modelled, and why

- The table of HTML pages: a concurrent map written before the server starts. `/commands`: a read-only listing.
- `testProtocol` (main.go:85-149): two tasks of a client that wait for each other over a
  port; a failed `Listen` leaves the client waiting for `ready`, a refused second task for its WaitGroup.
- Parsing, encoding and packet sizes; a rejected or malformed packet is a choice.
- The drop counters: nothing increments them (pool.go:61-62, drops.go:120-138), so
  `runDropFlusher` has no effect.
- `Start` and `Stop` called from several goroutines at once.
- What a calibration that never returns keeps busy (calibrate.go:33).
- Undefined outcomes of the race on `b.timer` in a build that loads the field twice.

## Plan

Done, in order: the lanes with their promise and proofs; the heap and hPool; push
and acknowledgement; the registry; the command table; the drop log; iPool's lanes;
the timer; the lifecycle; the way of a command over the promises of the pools;
handlers that call and scatter; the harness's clients.

Then the proofs: every safety invariant and every action property of the runs, the heap's among them, and the
refinements of `TaskPromise`. What is left to the runs is liveness.
