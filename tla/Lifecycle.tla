---------------------------- MODULE Lifecycle ----------------------------
(***************************************************************************)
(* The life of an Engine, and of the one its caller starts after it with   *)
(* the IWorkers a calibration advised (README.md:299).  Start resolves the *)
(* worker counts, makes the pools, sets running, and starts serveTCP and   *)
(* serveUDP, which open a socket and then store it in the engine (e.tcpLn, *)
(* e.udpConn); ServeHTML stores its server (e.httpSrv) first.  Stop reads  *)
(* those fields without any synchronisation, skips those that are nil, and *)
(* closes e.stopCh at its very end; an error of Accept or ReadFromUDP ends *)
(* a listener only once that channel is closed.  Nothing keeps the caller  *)
(* from Start and Stop in any order.  What comes in at the sockets is the  *)
(* subject of CommandFlow.  A throughput counts in units of which Enough   *)
(* per worker are 500,000 tasks a second; an elapsed time of zero gives a  *)
(* negative one on amd64.                                                  *)
(***************************************************************************)
EXTENDS Integers, Sequences, FiniteSets

CONSTANTS
  CoreCounts,   \* numbers of cores of the hosts looked at
  Configs,      \* Configs of the first engine
  Throughputs,  \* what a calibration may measure
  Enough,       \* throughput per worker below which one more is advised
  Order,        \* the listeners, in the order Stop closes them: tcp, udp, http
  MaxStarts     \* bound on the calls of Start, on one engine or one after another

Names == {Order[i] : i \in DOMAIN Order}
Starts == 1..MaxStarts

Config ==
  [IWorkers : Int, PWorkers : Int, Workers : Int, ICoreWorkers : Int, HeadroomN : Int,
   Allocate : {"all", "some", "other"},
   Listen : SUBSET Names]     \* the listeners whose address is set

ASSUME LifecycleAssumption ==
  /\ Order \in Seq({"tcp", "udp", "http"})
  /\ CoreCounts \subseteq Nat \ {0}
  /\ Configs \subseteq Config
  /\ Throughputs \subseteq Int /\ Enough \in Nat \ {0}
  /\ MaxStarts \in Nat

VARIABLES
  cores,    \* runtime.NumCPU()
  cfg,      \* the Config of the current engine
  pools,    \* workers of each of the pools that Start made last
  sample,   \* the engine's calibration: no, out (spinning) or back
  advice,   \* the last recommendation
  engine,   \* the current engine; the ones before it are stopped
  owner,    \* the engine of each Start, 0 if it is yet to come
  call,     \* the caller: Idle, Starting, or about to close Order[call], the pools, stopCh
  stops,    \* calls of Stop on the engine
  running,  \* e.running
  pool,     \* e.iPool, e.pPool and e.hPool: none, open or stopped
  stopCh,   \* e.stopCh is open
  panicked, \* a Stop panicked, and with it the process
  pc,       \* where the listener goroutines of each Start are
  socket,   \* their sockets: none yet, open or closed
  field     \* e.tcpLn, e.udpConn, e.httpSrv: whose it is, 0 if nil

sizes == <<cores, cfg, pools, advice>>
flags == <<stops, running, pool, stopCh, panicked>>
listeners == <<pc, socket, field>>
vars == <<sizes, sample, engine, owner, call, flags, listeners>>

Idle == 0
Starting == -1
Pools == Len(Order) + 1
Channel == Len(Order) + 2

\* the Start that a goroutine started now belongs to
Begun == Cardinality({g \in Starts : owner[g] # 0})

Current(g) == owner[g] = engine

StopChClosed(g) == ~Current(g) \/ ~stopCh

AtLeast(n, low) == IF n < low THEN low ELSE n
AtMost(n, high) == IF n > high THEN high ELSE n

-----------------------------------------------------------------------------
\* cores a Config sets aside for the host
Headroom(c) == IF c.Allocate = "some" THEN c.HeadroomN ELSE 0

\* what AllocateAll and AllocateSome leave for hPool on n cores
Remaining(c, n) == n - c.IWorkers - c.PWorkers - Headroom(c)

resolveWorkers(c, n) ==
  AtLeast(IF c.Allocate \in {"all", "some"} THEN Remaining(c, n) ELSE c.Workers, 1)

resolveICoreWorkers(c, n) == IF c.ICoreWorkers > 0 THEN c.ICoreWorkers ELSE n

\* faulty variant: the maximum is not raised to the minimum at the end
RecommendUnordered(workers, n, throughput) ==
  LET slow == throughput < Enough * AtLeast(workers, 1)
      low  == IF slow THEN workers + 1 ELSE workers
  IN  [min |-> AtLeast(low, 1), max |-> AtMost(low * 2, n)]

\* CalibrateIdempotent, from the measured throughput on
Recommend(workers, n, throughput) ==
  LET slow == throughput < Enough * AtLeast(workers, 1)
      low  == IF slow THEN workers + 1 ELSE workers
      min  == AtLeast(low, 1)
  IN  [min |-> min, max |-> AtLeast(AtMost(low * 2, n), min)]

Init ==
  /\ cores \in CoreCounts /\ cfg \in Configs
  /\ pools = [i |-> 0, r |-> 0, p |-> 0, h |-> 0]
  /\ sample = "no" /\ advice = [min |-> 0, max |-> 0]
  /\ engine = 1
  /\ owner = [g \in Starts |-> 0]
  /\ call = Idle /\ stops = 0
  /\ running = FALSE /\ pool = "none" /\ stopCh = TRUE /\ panicked = FALSE
  /\ pc = [g \in Starts |-> [l \in Names |-> "absent"]]
  /\ socket = [g \in Starts |-> [l \in Names |-> "none"]]
  /\ field = [l \in Names |-> 0]

-----------------------------------------------------------------------------
(* The caller: Start, CalibrateIdempotent, a new engine. *)

Goes(here, there) == call = here /\ call' = there

\* the pools of an earlier Start are replaced and nothing stops them any more;
\* a count below zero starts no worker
MakePools(icore) ==
  /\ Begun < MaxStarts
  /\ Goes(Idle, Starting)
  /\ owner' = [owner EXCEPT ![Begun + 1] = engine]
  /\ pools' = [i |-> AtLeast(cfg.IWorkers, 0), p |-> AtLeast(cfg.PWorkers, 0),
               h |-> resolveWorkers(cfg, cores), r |-> icore]
  /\ pool' = "open"
  /\ UNCHANGED <<cores, cfg, advice, sample, engine, stops, running, stopCh, panicked, listeners>>

\* Start, up to running.Store(true)
Start == MakePools(resolveICoreWorkers(cfg, cores))

\* running.Store(true), and the goroutines serveTCP and serveUDP
Started ==
  /\ Goes(Starting, Idle)
  /\ running' = TRUE
  /\ pc' = [pc EXCEPT ![Begun] =
              [l \in Names |-> IF l \in cfg.Listen \ {"http"} THEN "started" ELSE @[l]]]
  /\ UNCHANGED <<sizes, sample, engine, owner, stops, pool, stopCh, panicked, socket, field>>

\* not running: an empty recommendation at once, and nothing changes
Calibrate ==
  /\ running /\ sample # "out"
  /\ sample' = "out"
  /\ UNCHANGED <<sizes, engine, owner, call, flags, listeners>>

\* the sample has run on iPool; around a Stop it may not, and without workers it never does
CalibrateReturns ==
  /\ sample = "out" /\ pools.i > 0
  /\ sample' = "back"
  /\ \E throughput \in Throughputs : advice' = Recommend(cfg.IWorkers, cores, throughput)
  /\ UNCHANGED <<cores, cfg, pools, engine, owner, call, flags, listeners>>

\* the caller takes one of the advised bounds, or the same Config again
Renew ==
  /\ call = Idle /\ pool = "stopped" /\ sample # "out" /\ Begun < MaxStarts
  /\ engine' = engine + 1 /\ sample' = "no"
  /\ stops' = 0 /\ pool' = "none" /\ stopCh' = TRUE
  /\ field' = [l \in Names |-> 0]
  /\ \E n \in IF sample = "back" THEN {advice.min, advice.max} ELSE {cfg.IWorkers} :
       cfg' = [cfg EXCEPT !.IWorkers = n]
  /\ UNCHANGED <<cores, pools, advice, owner, call, running, panicked, pc, socket>>

-----------------------------------------------------------------------------
(* A listener goroutine, of Start g. *)

Goto(g, l, from, to) == pc[g][l] = from /\ pc' = [pc EXCEPT ![g][l] = to]

Rest == <<sizes, sample, engine, owner, call, flags>>

\* no socket of this process holds the address
Free(l) == \A g \in Starts : socket[g][l] # "open"

\* ServeHTML, from anywhere: the server is stored before its goroutine starts
ServeHTML(g) ==
  /\ "http" \in cfg.Listen /\ Begun = g
  /\ Goto(g, "http", "absent", "started")
  /\ field' = [field EXCEPT !["http"] = IF Current(g) THEN g ELSE @]
  /\ UNCHANGED <<Rest, socket>>

\* http.Server.ListenAndServe, on the socket it opens or after a Close
Serve(g) ==
  /\ IF socket[g]["http"] = "closed"
     THEN Goto(g, "http", "started", "gone") /\ UNCHANGED socket
     ELSE /\ Free("http")
          /\ Goto(g, "http", "started", "serving")
          /\ socket' = [socket EXCEPT ![g]["http"] = "open"]
  /\ UNCHANGED <<Rest, field>>

\* http.Server.Serve once its socket is closed
ServerClosed(g) ==
  /\ socket[g]["http"] = "closed"
  /\ Goto(g, "http", "serving", "gone")
  /\ UNCHANGED <<Rest, socket, field>>

\* net.Listen, net.ListenUDP
Bind(g, l) ==
  /\ l # "http" /\ Free(l)
  /\ Goto(g, l, "started", "bound")
  /\ socket' = [socket EXCEPT ![g][l] = "open"]
  /\ UNCHANGED <<Rest, field>>

\* the address is taken, here or elsewhere, or malformed: log and return
BindFails(g, l) ==
  /\ Goto(g, l, "started", "gone")
  /\ UNCHANGED <<Rest, socket, field>>

\* e.tcpLn = ln, e.udpConn = conn; of an engine that is no more nobody reads them
Publish(g, l) ==
  /\ Goto(g, l, "bound", "serving")
  /\ field' = [field EXCEPT ![l] = IF Current(g) THEN g ELSE @]
  /\ UNCHANGED <<Rest, socket>>

\* an error once stopCh is closed; while it is open the loop goes round again
Return(g, l) ==
  /\ l # "http"
  /\ Goto(g, l, "serving", "gone")
  /\ socket[g][l] = "closed" /\ StopChClosed(g)
  /\ UNCHANGED <<Rest, socket, field>>

ListenerStep(g, l) ==
  \/ l = "http" /\ (Serve(g) \/ ServerClosed(g))
  \/ Bind(g, l) \/ BindFails(g, l) \/ Publish(g, l) \/ Return(g, l)

-----------------------------------------------------------------------------
(* Engine.Stop. *)

\* faulty variant: running is not cleared before the pools are stopped
CallStopRunning ==
  /\ Goes(Idle, 1)
  /\ stops' = stops + 1
  /\ UNCHANGED <<sizes, sample, engine, owner, running, pool, stopCh, panicked, listeners>>

CallStop ==
  /\ Goes(Idle, 1)
  /\ running' = FALSE
  /\ stops' = stops + 1
  /\ UNCHANGED <<sizes, sample, engine, owner, pool, stopCh, panicked, listeners>>

Closing == call \in DOMAIN Order

\* faulty variant: the listeners are left to the closed stopCh
CloseNothing ==
  /\ Closing /\ call' = call + 1
  /\ UNCHANGED <<sizes, sample, engine, owner, flags, listeners>>

\* the field is nil, or what it holds is closed
CloseSocket ==
  /\ Closing /\ call' = call + 1
  /\ LET l == Order[call] IN
       socket' = IF field[l] = 0 THEN socket ELSE [socket EXCEPT ![field[l]][l] = "closed"]
  /\ UNCHANGED <<sizes, sample, engine, owner, flags, pc, field>>

\* a pool that is not there, or whose stopCh is closed, panics
StopPools ==
  /\ Goes(Pools, Channel)
  /\ panicked' = (pool # "open")
  /\ pool' = IF pool = "open" THEN "stopped" ELSE pool
  /\ UNCHANGED <<sizes, sample, engine, owner, stops, running, stopCh, listeners>>

\* close(e.stopCh) panics if it is closed, after the pools have stopped
CloseStopCh ==
  /\ Goes(Channel, Idle)
  /\ panicked' = ~stopCh
  /\ stopCh' = FALSE
  /\ UNCHANGED <<sizes, sample, engine, owner, stops, running, pool, listeners>>

StopStep == CloseSocket \/ StopPools \/ CloseStopCh

Next ==
  /\ ~panicked
  /\ \/ Start \/ Started \/ Calibrate \/ CalibrateReturns \/ Renew
     \/ CallStop \/ StopStep
     \/ \E g \in Starts : ServeHTML(g)
     \/ \E g \in Starts, l \in Names : ListenerStep(g, l)

Spec == Init /\ [][Next]_vars

\* goroutines run and calls go on; which calls, the caller decides
FairSpec ==
  /\ Spec /\ WF_vars(~panicked /\ (Started \/ StopStep))
  /\ \A g \in Starts, l \in Names : WF_vars(~panicked /\ ListenerStep(g, l))

-----------------------------------------------------------------------------
(***************************************************************************)
(* calibrate.go:40-57.  The advice is a range that does not begin below    *)
(* the workers of the engine that was calibrated, so that no sequence of   *)
(* calibrations and new engines loses workers.                             *)
(***************************************************************************)
AdviceIsRange ==
  sample = "back" => 1 <= advice.min /\ advice.min <= advice.max /\ cfg.IWorkers <= advice.min

(***************************************************************************)
(* invocation.go:118-206, factory.go:62-72.  Whoever finds running set     *)
(* finds pools that are there and not stopped, hPool and iCore with at     *)
(* least one worker whatever the Config asks for, in whatever order Start  *)
(* and Stop are called; and no Stop panics but the second one of an engine *)
(* and one that comes before Start.                                        *)
(***************************************************************************)
OpenWhileRunning ==
  /\ running => pool = "open" /\ pools.h > 0 /\ pools.r > 0
  /\ panicked => stops > 1 \/ pool = "none"

(***************************************************************************)
(* tcp.go:27-37, udp.go:26-36, http.go:53-61.  Stop closes the sockets     *)
(* before stopCh, so a listener's Accept fails while stopCh is still open; *)
(* the goroutine goes round its loop and still ends, if Stop found its     *)
(* socket, or its server, which may not have opened its own yet - unless a *)
(* second ServeHTML put another server in its place before Stop closed it. *)
(***************************************************************************)
PublishedReturns ==
  \A g \in Starts, l \in Names :
    (call \in DOMAIN Order /\ Order[call] = l /\ field[l] = g)
      ~> (pc[g][l] = "gone" \/ panicked \/ (l = "http" /\ field[l] > g))
=============================================================================
