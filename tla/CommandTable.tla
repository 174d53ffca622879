---------------------------- MODULE CommandTable ----------------------------
(***************************************************************************)
(* The command registry: goroutines that register commands while one seals *)
(* the table, Call with its two result channels and its type gate, and     *)
(* Dispatch for packets off the network.  A value is known by its dynamic  *)
(* type only.  hPool is a bag of admitted handlers of which Width run at a *)
(* time; its order is HarmonicPool's subject.  A handler may Call another  *)
(* command and wait for it, or wait for a task on iPool and one on pPool   *)
(* as scatter does.  Engine.Stop may come at any moment: the Factory looks *)
(* at running first and the pool takes the task later, perhaps after its   *)
(* workers have left; such a task is late, and nobody owes it a run.       *)
(***************************************************************************)
EXTENDS Naturals, FiniteSets, Sequences

CONSTANTS
  Names,         \* command names
  Regs,          \* registrations: records name, declared, encodable, valid, work, outcomes
  Requests,      \* requests: records id, name, path, by
  Types,         \* dynamic types of values
  Nilable,       \* declared types whose kind has a nil value
  Interfaces,    \* those of them that are interfaces: no value has one as its type
  Untyped,       \* declared type of a command registered by the method Register
  Nil, Error, Panic,   \* outcomes of a handler that are not values
  None,          \* nothing there
  Width          \* number of hPool workers

Outcomes == Types \cup {Nil, Error, Panic}

ASSUME TableAssumption ==
  /\ \A r \in Regs : r.name \in Names /\ r.outcomes \subseteq Outcomes
  /\ \A r \in Regs : r.work \in {"inline", "nest", "scatter"}
  /\ \A q \in Requests : q.name \in Names /\ q.path \in {"call", "dispatch", "nested"}
  /\ Interfaces \subseteq Nilable \ Types
  /\ {Nil, Error, Panic, None} \cap Types = {}
  /\ Nil \notin {Error, Panic} /\ None \notin {Nil, Error, Panic} \cup Regs
  \* Register[T] takes a function that returns a T (registry.go:58)
  /\ \A r \in Regs : r.declared \notin Interfaces \cup {Untyped} =>
                      r.outcomes \cap Types \subseteq {r.declared}
  /\ Width \in Nat \ {0}

\* in the order in which Stop closes them
Pools == <<"iPool", "pPool", "hPool">>

PoolNames == {"iPool", "pPool", "hPool"}

Parts == {"iPool", "pPool"}

VARIABLES
  commands,   \* ct.commands
  sealed,     \* ct.sealed
  reg,        \* how far each registration has got
  req,        \* how far each request has got
  cmd,        \* the command a request found
  outcome,    \* what its handler produced
  reply,      \* what a Call returned, or a Dispatch handed to Push
  part,       \* how far each of scatter's two tasks has got
  alive,      \* the process is up: no worker died of a panic
  running,    \* engine.running
  shut,       \* how many of the Pools Stop has closed
  late,       \* observer: pools that took a task of the request after their close
  vault       \* observer: the table and the registrations in progress at Seal

rvars == <<commands, sealed, reg, vault>>
svars == <<running, shut>>
qvars == <<req, cmd, outcome, reply, part, alive, late>>
vars == <<rvars, svars, qvars>>

TypeOK ==
  /\ commands \in [Names -> Regs \cup {None}]
  /\ sealed \in BOOLEAN
  /\ reg \in [Regs -> {"idle", "checked", "stored", "rejected"}]
  /\ req \in [Requests -> {"idle", "found", "validated", "admitted", "running", "sent", "over"}]
  /\ cmd \in [Requests -> Regs \cup {None}]
  /\ outcome \in [Requests -> Outcomes \cup {None}]
  /\ reply \in [Requests -> Types \cup {Nil, Error, None}]
  /\ part \in [Requests -> [Parts -> {"none", "validated", "queued", "done"}]]
  /\ alive \in BOOLEAN
  /\ running \in BOOLEAN
  /\ shut \in 0..3
  /\ late \in [Requests -> SUBSET PoolNames]
  /\ vault \in [table : [Names -> Regs \cup {None}], pending : SUBSET Regs]
  /\ \A q \in Requests : req[q] \notin {"idle", "over"} => cmd[q] # None /\ cmd[q].name = q.name

Init ==
  /\ commands = [n \in Names |-> None]
  /\ sealed = FALSE
  /\ reg = [r \in Regs |-> "idle"]
  /\ req = [q \in Requests |-> "idle"]
  /\ cmd = [q \in Requests |-> None]
  /\ outcome = [q \in Requests |-> None]
  /\ reply = [q \in Requests |-> None]
  /\ part = [q \in Requests |-> [p \in Parts |-> "none"]]
  /\ alive = TRUE
  /\ running = TRUE
  /\ shut = 0
  /\ late = [q \in Requests |-> {}]
  /\ vault = [table |-> commands, pending |-> {}]

-----------------------------------------------------------------------------
(* Registration: the test of sealed and the store are two steps. *)

Advance(r, from, to) == reg[r] = from /\ reg' = [reg EXCEPT ![r] = to]

\* faulty variant: the seal is not looked at
CheckEncodable(r) ==
  /\ Advance(r, "idle", IF r.encodable THEN "checked" ELSE "rejected")
  /\ UNCHANGED <<commands, sealed, vault, svars, qvars>>

CheckSeal(r) ==
  /\ Advance(r, "idle", IF sealed \/ ~r.encodable THEN "rejected" ELSE "checked")
  /\ UNCHANGED <<commands, sealed, vault, svars, qvars>>

Store(r) ==
  /\ Advance(r, "checked", "stored")
  /\ commands' = [commands EXCEPT ![r.name] = r]
  /\ UNCHANGED <<sealed, vault, svars, qvars>>

Seal ==
  /\ sealed' = TRUE
  /\ vault' = IF sealed THEN vault
              ELSE [table |-> commands, pending |-> {r \in Regs : reg[r] = "checked"}]
  /\ UNCHANGED <<commands, reg, svars, qvars>>

-----------------------------------------------------------------------------
(* The type gate. *)

finalize(declared, result) ==
  IF \/ result = Nil /\ declared \in Nilable
     \/ result # Nil /\ result = declared
  THEN result
  ELSE Error

\* what Call makes of what came over result or errCh
Answer(r, result) ==
  IF result \in {Error, Panic} THEN Error
  ELSE IF r.declared = Untyped THEN result
  ELSE finalize(r.declared, result)

-----------------------------------------------------------------------------
(* A request: Call waits for its handler, Dispatch does not. *)

Move(q, from, to) == req[q] = from /\ req' = [req EXCEPT ![q] = to]

Calls == {q \in Requests : q.path # "dispatch"}

Busy == {q \in Requests : req[q] = "running"}

\* the request that q's handler makes, if the instance has one
Nested(q) == {n \in Requests : n.by = q.id /\ cmd[q] # None /\ cmd[q].work = "nest"}

\* the handler of a nested request has come to its Call
Made(q) == q.path = "nested" => \E p \in Busy : q \in Nested(p)

\* faulty variant: the second result of the map lookup is not looked at
LookupUnchecked(q) ==
  /\ Made(q)
  /\ Move(q, "idle", "found")
  /\ cmd' = [cmd EXCEPT ![q] = commands[q.name]]
  /\ UNCHANGED <<rvars, svars, outcome, reply, part, alive, late>>

\* under ct.mu.RLock: an unknown name ends the request
Lookup(q) ==
  /\ Made(q)
  /\ Move(q, "idle", IF commands[q.name] = None THEN "over" ELSE "found")
  /\ cmd' = [cmd EXCEPT ![q] = commands[q.name]]
  /\ reply' = [reply EXCEPT ![q] =
                 IF commands[q.name] = None /\ q \in Calls THEN Error ELSE None]
  /\ UNCHANGED <<rvars, svars, outcome, part, alive, late>>

\* AssignH validates the handler and its Priority
Validate(q) ==
  /\ running
  /\ Move(q, "found", "validated") /\ cmd[q].valid
  /\ UNCHANGED <<rvars, svars, cmd, outcome, reply, part, alive, late>>

Refuse(q) ==
  /\ Move(q, "found", "over") /\ ~(running /\ cmd[q].valid)
  /\ reply' = [reply EXCEPT ![q] = IF q \in Calls THEN Error ELSE None]
  /\ UNCHANGED <<rvars, svars, cmd, outcome, part, alive, late>>

Closed(pool) == \E i \in 1..shut : Pools[i] = pool

\* a pool takes a task of q, open or closed: the caller is told nil
Enqueue(q, pool) ==
  late' = [late EXCEPT ![q] = IF Closed(pool) THEN @ \cup {pool} ELSE @]

\* a worker that is still there takes it up
Dequeue(q, pool) == late' = [late EXCEPT ![q] = @ \ {pool}]

\* hPool.submit
Admit(q) ==
  /\ Move(q, "validated", "admitted")
  /\ Enqueue(q, "hPool")
  /\ UNCHANGED <<rvars, svars, cmd, outcome, reply, part, alive>>

Run(q) ==
  /\ Cardinality(Busy) < Width
  /\ Move(q, "admitted", "running")
  /\ Dequeue(q, "hPool")
  /\ UNCHANGED <<rvars, svars, cmd, outcome, reply, part, alive>>

-----------------------------------------------------------------------------
(* The handler of scatter: a task on iPool, then one on pPool. *)

PartMove(q, p, from, to) == part[q][p] = from /\ part' = [part EXCEPT ![q][p] = to]

\* it has come to the task on p
PartsTurn(q, p) ==
  /\ q \in Busy /\ cmd[q].work = "scatter"
  /\ p = "pPool" => part[q]["iPool"] \in {"queued", "done"}

\* wg.Add(1), and AssignI or AssignP validates
ValidatePart(q, p) ==
  /\ running
  /\ PartsTurn(q, p)
  /\ PartMove(q, p, "none", "validated")
  /\ UNCHANGED <<rvars, svars, req, cmd, outcome, reply, alive, late>>

\* and submits
SubmitPart(q, p) ==
  /\ PartMove(q, p, "validated", "queued")
  /\ Enqueue(q, p)
  /\ UNCHANGED <<rvars, svars, req, cmd, outcome, reply, alive>>

\* or refuses it: the handler returns at once, whatever the other task is doing
PartRefused(q, p) ==
  /\ ~running
  /\ PartsTurn(q, p) /\ part[q][p] = "none"
  /\ Move(q, "running", IF q \in Calls THEN "sent" ELSE "over")
  /\ outcome' = [outcome EXCEPT ![q] = Error]
  /\ UNCHANGED <<rvars, svars, cmd, reply, part, alive, late>>

\* the task has run: its deferred wg.Done
PartDone(q, p) ==
  /\ PartMove(q, p, "queued", "done")
  /\ Dequeue(q, p)
  /\ UNCHANGED <<rvars, svars, req, cmd, outcome, reply, alive>>

PartStep(q, p) == ValidatePart(q, p) \/ SubmitPart(q, p) \/ PartRefused(q, p) \/ PartDone(q, p)

-----------------------------------------------------------------------------
(* The end of a handler. *)

\* a handler has nothing to wait for any more: its Call returned, or wg.Wait
Unblocked(q) ==
  /\ \A n \in Nested(q) : req[n] = "over"
  /\ cmd[q].work = "scatter" => \A p \in Parts : part[q][p] = "done"

\* a running handler ends with one of the outcomes its command can have
Produce(q, result, to) ==
  /\ Move(q, "running", to)
  /\ outcome' = [outcome EXCEPT ![q] = result]

\* faulty variant: a panic is recovered and nothing is sent to errCh
FinishQuietly(q) ==
  /\ q \in Calls \cap Busy /\ Unblocked(q)
  /\ \E result \in cmd[q].outcomes :
       Produce(q, result, IF result = Panic THEN "over" ELSE "sent")
  /\ UNCHANGED <<rvars, svars, cmd, reply, part, alive, late>>

\* Call's handler: a value, an error or a recovered panic goes into a channel
FinishCall(q) ==
  /\ q \in Calls \cap Busy /\ Unblocked(q)
  /\ \E result \in cmd[q].outcomes : Produce(q, result, "sent")
  /\ UNCHANGED <<rvars, svars, cmd, reply, part, alive, late>>

\* faulty variant: the declared type is looked up again
ReturnLookingAgain(q) ==
  /\ Move(q, "sent", "over")
  /\ reply' = [reply EXCEPT ![q] = Answer(commands[q.name], outcome[q])]
  /\ UNCHANGED <<rvars, svars, cmd, outcome, part, alive, late>>

\* Call receives from one of the channels
Return(q) ==
  /\ Move(q, "sent", "over")
  /\ reply' = [reply EXCEPT ![q] = Answer(cmd[q], outcome[q])]
  /\ UNCHANGED <<rvars, svars, cmd, outcome, part, alive, late>>

\* Dispatch's handler: a value that encodes goes to Push, nil and errors go
\* nowhere, a panic takes the process down
FinishDispatch(q) ==
  /\ q \in Busy \ Calls /\ Unblocked(q)
  /\ \E result \in cmd[q].outcomes :
       /\ Produce(q, result, "over")
       /\ \E pushed \in {None} \cup ({result} \cap Types) : reply' = [reply EXCEPT ![q] = pushed]
       /\ alive' = (result # Panic)
  /\ UNCHANGED <<rvars, svars, cmd, part, late>>

RequestStep(q) ==
  /\ alive
  /\ \/ Lookup(q) \/ Validate(q) \/ Refuse(q) \/ Admit(q) \/ Run(q)
     \/ \E p \in Parts : PartStep(q, p)
     \/ FinishCall(q) \/ Return(q) \/ FinishDispatch(q)

-----------------------------------------------------------------------------
(* Engine.Stop, as far as the pools see it. *)

StopRunning ==
  /\ running /\ running' = FALSE
  /\ UNCHANGED <<rvars, shut, qvars>>

ClosePool ==
  /\ ~running /\ shut < Len(Pools)
  /\ shut' = shut + 1
  /\ UNCHANGED <<rvars, running, qvars>>

-----------------------------------------------------------------------------
Next ==
  \/ alive /\ \E r \in Regs : CheckSeal(r) \/ Store(r)
  \/ alive /\ (Seal \/ StopRunning \/ ClosePool)
  \/ \E q \in Requests : RequestStep(q)

Spec == Init /\ [][Next]_vars

(***************************************************************************)
(* A request once begun goes on, and handlers return or make their Call.   *)
(* A pool runs what it took before its close (QueuedBeforeStopRuns,        *)
(* PushedBeforeStopRuns); a late task may run and need not.  Nothing makes *)
(* anybody register, seal, stop or call.                                   *)
(***************************************************************************)
Fairness ==
  \A q \in Requests :
    WF_vars(/\ req[q] # "idle" \/ q.path = "nested"
            /\ RequestStep(q) /\ late[q] \subseteq late'[q])

FairSpec == Spec /\ Fairness

-----------------------------------------------------------------------------
(***************************************************************************)
(* registry.go:88-177, README.md:217 "Nothing unnarrowed escapes".  A Call *)
(* returns a value of the type declared by the registration that it ran,   *)
(* or a nil where that type has one, though the name may be registered     *)
(* anew meanwhile; a value of a declared type is not destroyed, unless     *)
(* that is an interface, which no value has as its dynamic type.  Dispatch *)
(* has no gate: what it sends has the declared type all the same, but with *)
(* an interface declared it sends what a Call of the command destroys.     *)
(***************************************************************************)
GateIsExact ==
  /\ \A q \in Calls : cmd[q] # None =>
       /\ cmd[q].declared # Untyped =>
            /\ reply[q] \in Types => reply[q] = cmd[q].declared
            /\ reply[q] = Nil => cmd[q].declared \in Nilable
       /\ req[q] = "over" /\ outcome[q] \in Types /\ cmd[q].declared \notin Interfaces =>
            reply[q] = outcome[q]
  /\ \A q \in Requests \ Calls :
       reply[q] # None /\ cmd[q].declared \notin Interfaces \cup {Untyped} =>
         reply[q] = cmd[q].declared

(***************************************************************************)
(* registry.go:37-50, 61-84.  After the seal the table holds what it held  *)
(* then, or a registration that was between its test of sealed and its     *)
(* store at that moment; none that began later.                            *)
(***************************************************************************)
SealBoundsTable ==
  sealed => \A n \in Names : commands[n] \in {vault.table[n]} \cup vault.pending

\* a begun request that may rest where it is: behind a task that its pool took
\* after the close, behind other requests in all the hPool workers, or behind a
\* nested Call, which is then held up itself
HeldUp(q) ==
  \/ req[q] = "admitted" /\ ("hPool" \in late[q] \/ Cardinality(Busy) = Width)
  \/ req[q] = "running" /\ \E p \in Parts : p \in late[q]
  \/ req[q] = "running" /\ \E n \in Nested(q) : req[n] \notin {"idle", "over"}

Answered(q) == req[q] = "over" /\ (q \in Calls => reply[q] # None)

(***************************************************************************)
(* registry.go:97-126, README.md:190 "no child can be scheduled".  A Call  *)
(* once made returns: the handler's value, error or panic, or the refusal, *)
(* reaches it, also if Stop comes anywhere on the way and if the handler   *)
(* waits for tasks on other pools or for one refused half-way; and a       *)
(* dispatched handler ends.  What keeps one for good, unless the process   *)
(* goes down with the handler of a packet, is a task of its own that a     *)
(* pool took after its close (the caller was told nil), a nested Call that *)
(* is kept itself, or hPool workers that are all in handlers kept so.      *)
(***************************************************************************)
CallReturns ==
  <>[](~alive \/ \A q \in Requests : req[q] = "idle" \/ Answered(q) \/ HeldUp(q))
=============================================================================
