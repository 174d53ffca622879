--------------------------- MODULE LifecycleProofs ---------------------------
(***************************************************************************)
(* Proofs about Lifecycle for any hosts, Configs, throughputs, listeners   *)
(* and any sequence of Start, Stop and CalibrateIdempotent.                *)
(***************************************************************************)
EXTENDS Lifecycle, TLAPS

LTypeOK ==
  /\ cores \in Nat \ {0} /\ cfg \in Config
  /\ pools \in [i : Nat, r : Nat, p : Nat, h : Nat]
  /\ sample \in {"no", "out", "back"}
  /\ advice \in [min : Int, max : Int]
  /\ call \in {Idle, Starting} \cup 1..Channel
  /\ stops \in Nat /\ running \in BOOLEAN
  /\ pool \in {"none", "open", "stopped"}
  /\ stopCh \in BOOLEAN /\ panicked \in BOOLEAN

\* between MakePools and the end of Start, too
OpenFromStart ==
  running \/ call = Starting => pool = "open" /\ pools.h > 0 /\ pools.r > 0

\* Stop clears running first, and counts
StopCounted == call \in 1..Channel => ~running /\ stops >= 1

\* what is stopped was stopped by a Stop of this engine, and not by the one under way
StoppedBefore ==
  /\ pool = "stopped" => stops >= 1 /\ (call \in 1..Pools => stops >= 2)
  /\ ~stopCh => stops >= 1 /\ (call \in 1..Channel => stops >= 2)

LInv ==
  /\ LTypeOK /\ OpenFromStart /\ StopCounted /\ StoppedBefore
  /\ AdviceIsRange /\ OpenWhileRunning

-----------------------------------------------------------------------------
(* The numbers: what Start resolves and what a calibration advises. *)

\* Start and iCore get at least one worker, whatever the configuration
LEMMA Resolved ==
  ASSUME NEW c \in Config, NEW n \in Nat \ {0}
  PROVE  /\ resolveWorkers(c, n) \in Nat \ {0}
         /\ resolveICoreWorkers(c, n) \in Nat \ {0}
<1>1. Remaining(c, n) \in Int
  BY DEF Remaining, Headroom, Config
<1>2. \A k \in Int : AtLeast(k, 1) \in Nat \ {0}
  BY DEF AtLeast
<1>. QED
  BY <1>1, <1>2 DEF resolveWorkers, resolveICoreWorkers, Config

\* a recommendation is a range that starts at the workers there are, or above
LEMMA Advised ==
  ASSUME NEW workers \in Int, NEW n \in Nat \ {0}, NEW throughput \in Int
  PROVE  LET a == Recommend(workers, n, throughput)
         IN  /\ a \in [min : Int, max : Int]
             /\ 1 <= a.min /\ a.min <= a.max /\ workers <= a.min
<1>. DEFINE low == IF throughput < Enough * AtLeast(workers, 1) THEN workers + 1 ELSE workers
            min == AtLeast(low, 1)
            max == AtLeast(AtMost(low * 2, n), min)
<1>1. low \in Int /\ workers <= low
  OBVIOUS
<1>2. min \in Nat /\ 1 <= min /\ workers <= min
  BY <1>1 DEF AtLeast
<1>3. max \in Nat /\ min <= max
  BY <1>1, <1>2 DEF AtLeast, AtMost
<1>4. Recommend(workers, n, throughput) = [min |-> min, max |-> max]
  BY DEF Recommend
<1>. HIDE DEF low, min, max
<1>. QED
  BY <1>2, <1>3, <1>4

-----------------------------------------------------------------------------
\* the engine starts stopped, with no pool and no listener
LEMMA InitLInv == Init => LInv
<1>. SUFFICES ASSUME Init PROVE LInv
  OBVIOUS
<1>. USE LifecycleAssumption DEF Init, Idle
<1>1. LTypeOK
  <2>1. cores \in Nat \ {0} /\ cfg \in Config
    OBVIOUS
  <2>2. call \in {Idle, Starting} \cup 1..Channel
    OBVIOUS
  <2>3. pools \in [i : Nat, r : Nat, p : Nat, h : Nat] /\ advice \in [min : Int, max : Int]
    OBVIOUS
  <2>4. /\ sample \in {"no", "out", "back"} /\ stops \in Nat /\ running \in BOOLEAN
        /\ pool \in {"none", "open", "stopped"} /\ stopCh \in BOOLEAN /\ panicked \in BOOLEAN
    OBVIOUS
  <2>. QED
    BY <2>1, <2>2, <2>3, <2>4 DEF LTypeOK
<1>2. OpenFromStart /\ StopCounted /\ StoppedBefore
  BY DEF OpenFromStart, StopCounted, StoppedBefore, Starting
<1>3. AdviceIsRange /\ OpenWhileRunning
  BY DEF AdviceIsRange, OpenWhileRunning
<1>. QED
  BY <1>1, <1>2, <1>3 DEF LInv

\* the places of the caller in Stop: the listeners, the pools, stopCh
LEMMA Places ==
  /\ Len(Order) \in Nat /\ DOMAIN Order = 1..Len(Order)
  /\ Pools = Len(Order) + 1 /\ Channel = Len(Order) + 2
BY LifecycleAssumption DEF Pools, Channel

\* every step keeps the invariant
LEMMA Inductive == LInv /\ [Next]_vars => LInv'
<1>. SUFFICES ASSUME LInv, [Next]_vars PROVE LInv'
  OBVIOUS
<1>. USE DEF LInv, LTypeOK, Idle, Starting, Goes
<1>1. ASSUME Start, ~panicked PROVE LInv'
  <2>1. /\ call = 0 /\ call' = -1 /\ pool' = "open"
        /\ pools' = [i |-> AtLeast(cfg.IWorkers, 0), p |-> AtLeast(cfg.PWorkers, 0),
                     h |-> resolveWorkers(cfg, cores), r |-> resolveICoreWorkers(cfg, cores)]
        /\ UNCHANGED <<cores, cfg, advice, sample, stops, running, stopCh, panicked>>
    BY <1>1 DEF Start, MakePools
  <2>2. \A k \in Int : AtLeast(k, 0) \in Nat
    BY DEF AtLeast
  <2>3. LTypeOK'
    BY <2>1, <2>2, Resolved DEF Config
  <2>4. OpenFromStart' /\ OpenWhileRunning'
    BY <1>1, <2>1, Resolved DEF OpenFromStart, OpenWhileRunning
  <2>5. StopCounted' /\ StoppedBefore' /\ AdviceIsRange'
    BY <2>1, Places DEF StopCounted, StoppedBefore, AdviceIsRange
  <2>. QED
    BY <2>3, <2>4, <2>5
<1>2. ASSUME Started PROVE LInv'
  <2>1. /\ call = -1 /\ call' = 0 /\ running' = TRUE
        /\ UNCHANGED <<cores, cfg, pools, advice, sample, stops, pool, stopCh, panicked>>
    BY <1>2 DEF Started, sizes
  <2>. QED
    BY <2>1, Places
    DEF OpenFromStart, OpenWhileRunning, StopCounted, StoppedBefore, AdviceIsRange
<1>3. ASSUME Calibrate PROVE LInv'
  BY <1>3 DEF Calibrate, sizes, flags, OpenFromStart, OpenWhileRunning, StopCounted,
              StoppedBefore, AdviceIsRange
<1>4. ASSUME CalibrateReturns PROVE LInv'
  <2>1. PICK throughput \in Throughputs : advice' = Recommend(cfg.IWorkers, cores, throughput)
    BY <1>4 DEF CalibrateReturns
  <2>2. /\ advice' \in [min : Int, max : Int]
        /\ 1 <= advice'.min /\ advice'.min <= advice'.max /\ cfg.IWorkers <= advice'.min
    BY <2>1, Advised, LifecycleAssumption DEF Config
  <2>3. sample' = "back" /\ UNCHANGED <<cores, cfg, pools, call, stops, running, pool, stopCh, panicked>>
    BY <1>4 DEF CalibrateReturns, flags
  <2>. QED
    BY <2>2, <2>3 DEF OpenFromStart, OpenWhileRunning, StopCounted, StoppedBefore, AdviceIsRange
<1>5. ASSUME Renew, ~panicked PROVE LInv'
  <2>1. /\ call = 0 /\ pool = "stopped" /\ sample' = "no" /\ stops' = 0 /\ pool' = "none"
        /\ stopCh' = TRUE
        /\ UNCHANGED <<cores, pools, advice, call, running, panicked>>
    BY <1>5 DEF Renew
  <2>2. cfg' \in Config
    <3>1. PICK n \in IF sample = "back" THEN {advice.min, advice.max} ELSE {cfg.IWorkers} :
            cfg' = [cfg EXCEPT !.IWorkers = n]
      BY <1>5 DEF Renew
    <3>2. n \in Int
      BY <3>1 DEF AdviceIsRange, Config
    <3>. QED
      BY <3>1, <3>2 DEF Config
  <2>3. ~running
    BY <2>1 DEF OpenFromStart
  <2>. QED
    BY <1>5, <2>1, <2>2, <2>3, Places
    DEF OpenFromStart, OpenWhileRunning, StopCounted, StoppedBefore, AdviceIsRange
<1>6. ASSUME CallStop, ~panicked PROVE LInv'
  <2>1. /\ call = 0 /\ call' = 1 /\ stops' = stops + 1
        /\ ~running' /\ running' \in BOOLEAN
        /\ UNCHANGED <<cores, cfg, pools, advice, sample, pool, stopCh, panicked>>
    BY <1>6 DEF CallStop, sizes
  <2>2. call' \in 1..Channel /\ call' # 0 /\ call' # -1
    BY <2>1, Places
  <2>3. LTypeOK'
    BY <2>1, <2>2
  <2>4. OpenFromStart' /\ StopCounted'
    BY <1>6, <2>1, <2>2, Places DEF OpenFromStart, StopCounted
  <2>5. StoppedBefore'
    BY <1>6, <2>1, <2>2, Places DEF StoppedBefore, StopCounted
  <2>6. AdviceIsRange' /\ OpenWhileRunning'
    BY <1>6, <2>1, <2>2, Places DEF AdviceIsRange, OpenWhileRunning, StoppedBefore, OpenFromStart,
                                  StopCounted
  <2>. QED
    BY <2>3, <2>4, <2>5, <2>6
<1>7. ASSUME CloseSocket, ~panicked PROVE LInv'
  <2>1. /\ call \in 1..Len(Order) /\ call' = call + 1
        /\ UNCHANGED <<cores, cfg, pools, advice, sample, stops, running, pool, stopCh, panicked>>
    BY <1>7, Places DEF CloseSocket, Closing, sizes, flags
  <2>2. call \in 1..Pools /\ call' \in 1..Pools /\ call' # 0 /\ call' # -1
    BY <2>1, Places
  <2>. QED
    BY <1>7, <2>1, <2>2, Places
    DEF OpenFromStart, OpenWhileRunning, StopCounted, StoppedBefore, AdviceIsRange
<1>8. ASSUME StopPools PROVE LInv'
  <2>1. /\ call = Pools /\ call' = Channel /\ panicked' = (pool # "open")
        /\ pool' = IF pool = "open" THEN "stopped" ELSE pool
        /\ UNCHANGED <<cores, cfg, pools, advice, sample, stops, running, stopCh>>
    BY <1>8 DEF StopPools, sizes
  <2>2. call \in 1..Pools /\ call \in 1..Channel /\ call' \in 1..Channel /\ call' \notin 1..Pools /\ call' # -1
    BY <2>1, Places
  <2>3. LTypeOK'
    BY <2>1, <2>2, Places
  <2>4. OpenFromStart' /\ StopCounted'
    BY <2>1, <2>2, Places DEF OpenFromStart, StopCounted
  <2>5. StoppedBefore'
    BY <2>1, <2>2, Places DEF StoppedBefore, StopCounted
  <2>6. AdviceIsRange' /\ OpenWhileRunning'
    BY <2>1, <2>2, Places DEF AdviceIsRange, OpenWhileRunning, StoppedBefore, OpenFromStart,
                                  StopCounted
  <2>. QED
    BY <2>3, <2>4, <2>5, <2>6
<1>9. ASSUME CloseStopCh, ~panicked PROVE LInv'
  <2>1. /\ call = Channel /\ call' = 0 /\ (panicked' => ~stopCh) /\ panicked' \in BOOLEAN
        /\ ~stopCh' /\ stopCh' \in BOOLEAN
        /\ UNCHANGED <<cores, cfg, pools, advice, sample, stops, running, pool>>
    BY <1>9 DEF CloseStopCh, sizes
  <2>2. call \in 1..Channel /\ call' \notin 1..Channel /\ call' \notin 1..Pools
    BY <2>1, Places
  <2>. QED
    BY <2>1, <2>2, Places
    DEF OpenFromStart, OpenWhileRunning, StopCounted, StoppedBefore, AdviceIsRange
<1>10. ASSUME UNCHANGED <<sizes, sample, call, flags>> PROVE LInv'
  BY <1>10 DEF sizes, flags, OpenFromStart, OpenWhileRunning, StopCounted, StoppedBefore,
               AdviceIsRange
<1>11. ASSUME NEW g \in Starts, ServeHTML(g) \/ (\E l \in Names : ListenerStep(g, l))
       PROVE  UNCHANGED <<sizes, sample, call, flags>>
  BY <1>11 DEF ServeHTML, ListenerStep, Serve, ServerClosed, Bind, BindFails, Publish, Return, Rest
<1>. QED
  BY <1>1, <1>2, <1>3, <1>4, <1>5, <1>6, <1>7, <1>8, <1>9, <1>10, <1>11
  DEF Next, StopStep, vars

\* the engine is in every reachable state as LInv has it
THEOREM Invariant == Spec => []LInv
BY InitLInv, Inductive, PTL DEF Spec

(***************************************************************************)
(* calibrate.go:40-57: on any host and for any measured throughput, also a *)
(* negative one, the advice is a range that does not begin below what the  *)
(* calibrated engine had - for the first engine and for every later one.   *)
(***************************************************************************)
THEOREM AdviceHolds == Spec => []AdviceIsRange
<1>1. LInv => AdviceIsRange
  BY DEF LInv
<1>. QED
  BY <1>1, Invariant, PTL

(***************************************************************************)
(* invocation.go:118-206, factory.go:62-72: in whatever order Start and    *)
(* Stop are called, running is never set over pools that are missing or    *)
(* stopped, or over an hPool or iCore without workers; and Stop panics     *)
(* only if it came before Start or for the second time.                    *)
(***************************************************************************)
THEOREM RunningMeansOpen == Spec => []OpenWhileRunning
<1>1. LInv => OpenWhileRunning
  BY DEF LInv
<1>. QED
  BY <1>1, Invariant, PTL
=============================================================================
