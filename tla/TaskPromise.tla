----------------------------- MODULE TaskPromise -----------------------------
(***************************************************************************)
(* What a pool promises the callers of the Factory, with its goroutines,   *)
(* locks and condition variable left out.  A call is refused or admitted;  *)
(* an admitted task joins the line once; a task of the line starts once,   *)
(* at the point the pool's discipline allows; it finishes once; no more    *)
(* tasks run at a time than there are workers; nothing is admitted after   *)
(* the engine stopped running, except what its own listeners hand over.    *)
(***************************************************************************)
EXTENDS Naturals, FiniteSets, SequencesExt

CONSTANTS Tasks,            \* the tasks handed to the pool
          Direct,           \* those the engine hands over without a Factory call
          Width,            \* number of workers of the pool
          MayStart(_, _)    \* MayStart(line, i): may line[i] be the next to run

VARIABLES state, line, open

vars == <<state, line, open>>

TaskState == {"new", "refused", "admitted", "waiting", "running", "done"}

In(s) == {t \in Tasks : state[t] = s}

Init ==
  /\ state = [t \in Tasks |-> "new"]
  /\ line = <<>>
  /\ open = TRUE

Become(t, from, to) == state[t] = from /\ state' = [state EXCEPT ![t] = to]

Refuse(t) ==
  /\ t \notin Direct
  /\ Become(t, "new", "refused")
  /\ UNCHANGED <<line, open>>

Admit(t) ==
  /\ open
  /\ t \notin Direct
  /\ Become(t, "new", "admitted")
  /\ UNCHANGED <<line, open>>

Join(t) ==
  /\ Become(t, IF t \in Direct THEN "new" ELSE "admitted", "waiting")
  /\ line' = Append(line, t)
  /\ UNCHANGED open

Start(i) ==
  /\ MayStart(line, i)
  /\ Cardinality(In("running")) < Width
  /\ Become(line[i], "waiting", "running")
  /\ line' = RemoveAt(line, i)
  /\ UNCHANGED open

Finish(t) == Become(t, "running", "done") /\ UNCHANGED <<line, open>>

Close == open' = FALSE /\ UNCHANGED <<state, line>>

Next ==
  \/ \E t \in Tasks : Refuse(t) \/ Admit(t) \/ Join(t) \/ Finish(t)
  \/ \E i \in DOMAIN line : Start(i)
  \/ Close

Spec == Init /\ [][Next]_vars
=============================================================================
