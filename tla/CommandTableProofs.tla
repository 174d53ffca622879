------------------------- MODULE CommandTableProofs -------------------------
(***************************************************************************)
(* Proofs about CommandTable for any registrations, requests and types.    *)
(***************************************************************************)
EXTENDS CommandTable, TLAPS

\* between its lookup and its answer a request has a command of its name
HoldsItsCommand ==
  \A q \in Requests :
    /\ req[q] \notin {"idle", "over"} =>
         cmd[q] # None /\ cmd[q].name = q.name
    /\ req[q] = "idle" => cmd[q] = None

\* the table holds every command under its own name
TableIsKeyed == \A n \in Names : commands[n] # None => commands[n].name = n

\* nothing is returned before the end, nothing produced before the handler ran
NothingEarly ==
  \A q \in Requests :
    /\ req[q] # "over" => reply[q] = None
    /\ req[q] \notin {"sent", "over"} => outcome[q] = None

\* only a Call is answered in its channels, and has an outcome then
SentHasOutcome ==
  \A q \in Requests : req[q] = "sent" => outcome[q] # None /\ q \in Calls

\* what a handler produced is one of the outcomes of the command it ran for
ProducedByItsCommand ==
  \A q \in Requests : outcome[q] # None => outcome[q] \in cmd[q].outcomes \cup {Error}

\* a finished Call has been refused, or answers what its handler produced
AnsweredByTheGate ==
  \A q \in Calls : req[q] = "over" /\ cmd[q] # None =>
    \/ outcome[q] = None /\ reply[q] = Error
    \/ outcome[q] # None /\ reply[q] = Answer(cmd[q], outcome[q])

\* what Dispatch handed to Push is the value that its handler produced
PushedAsProduced ==
  \A q \in Requests \ Calls : reply[q] # None =>
    reply[q] \in Types /\ reply[q] = outcome[q] /\ cmd[q] # None

\* the registrations between their test and their store were there at Seal
SealKnowsThePending == sealed => \A r \in Regs : reg[r] = "checked" => r \in vault.pending

\* TypeOK and the invariants, in two halves: the table's and the requests'

TableInv ==
  /\ commands \in [Names -> Regs \cup {None}]
  /\ sealed \in BOOLEAN
  /\ reg \in [Regs -> {"idle", "checked", "stored", "rejected"}]
  /\ vault \in [table : [Names -> Regs \cup {None}], pending : SUBSET Regs]
  /\ TableIsKeyed
  /\ SealBoundsTable
  /\ SealKnowsThePending

RequestTypes ==
  /\ req \in [Requests -> {"idle", "found", "validated", "admitted", "running", "sent", "over"}]
  /\ cmd \in [Requests -> Regs \cup {None}]
  /\ outcome \in [Requests -> Outcomes \cup {None}]
  /\ reply \in [Requests -> Types \cup {Nil, Error, None}]
  /\ part \in [Requests -> [Parts -> {"none", "validated", "queued", "done"}]]
  /\ alive \in BOOLEAN
  /\ late \in [Requests -> SUBSET PoolNames]

RequestInv ==
  RequestTypes /\ HoldsItsCommand /\ NothingEarly /\ SentHasOutcome
    /\ ProducedByItsCommand /\ AnsweredByTheGate /\ PushedAsProduced

\* how far Stop has got
StopInv == running \in BOOLEAN /\ shut \in 0..3

CInv == TableInv /\ RequestInv /\ StopInv

-----------------------------------------------------------------------------
(* The registrations and the seal. *)

\* a registration or the seal keeps the table's half
LEMMA TableStep ==
  ASSUME TableInv, (\E r \in Regs : CheckSeal(r) \/ Store(r)) \/ Seal
  PROVE  TableInv'
<1>. USE TableAssumption DEF TableInv, Advance
<1>1. ASSUME NEW r \in Regs, CheckSeal(r) PROVE TableInv'
  BY <1>1 DEF CheckSeal, TableIsKeyed, SealBoundsTable, SealKnowsThePending
<1>2. ASSUME NEW r \in Regs, Store(r) PROVE TableInv'
  <2>1. r.name \in Names /\ r # None
    OBVIOUS
  <2>2. /\ commands' = [commands EXCEPT ![r.name] = r]
        /\ reg' = [reg EXCEPT ![r] = "stored"]
        /\ reg[r] = "checked"
        /\ UNCHANGED <<sealed, vault>>
    BY <1>2 DEF Store
  <2>3. TableIsKeyed'
    BY <2>1, <2>2 DEF TableIsKeyed
  <2>4. SealBoundsTable'
    BY <2>1, <2>2 DEF SealBoundsTable, SealKnowsThePending
  <2>5. SealKnowsThePending'
    BY <2>2 DEF SealKnowsThePending
  <2>. QED
    BY <2>1, <2>2, <2>3, <2>4, <2>5
<1>3. ASSUME Seal PROVE TableInv'
  BY <1>3 DEF Seal, TableIsKeyed, SealBoundsTable, SealKnowsThePending
<1>. QED
  BY <1>1, <1>2, <1>3

\* what a request finds in the table goes by its name
LEMMA Found ==
  ASSUME TableInv, NEW q \in Requests
  PROVE  /\ commands[q.name] \in Regs \cup {None}
         /\ commands[q.name] # None => commands[q.name].name = q.name
BY TableAssumption DEF TableInv, TableIsKeyed

\* the gate answers with a value, a nil or an error
LEMMA AnswerType ==
  ASSUME NEW r, NEW result \in Outcomes
  PROVE  Answer(r, result) \in Types \cup {Nil, Error}
BY DEF Answer, finalize, Outcomes

-----------------------------------------------------------------------------
(* The requests. *)

\* a request that moves, and whose command, outcome and reply stay, keeps it
LEMMA Moving ==
  ASSUME RequestInv, RequestTypes', NEW q \in Requests,
         NEW from \in {"found", "validated", "admitted"},
         NEW to \in {"validated", "admitted", "running"},
         req[q] = from, req' = [req EXCEPT ![q] = to], UNCHANGED <<cmd, outcome, reply>>
  PROVE  RequestInv'
<1>. USE DEF RequestInv
<1>1. HoldsItsCommand' /\ NothingEarly' /\ SentHasOutcome' /\ ProducedByItsCommand'
  BY DEF HoldsItsCommand, NothingEarly, SentHasOutcome, ProducedByItsCommand, RequestTypes
<1>2. AnsweredByTheGate' /\ PushedAsProduced'
  BY DEF AnsweredByTheGate, PushedAsProduced, RequestTypes, Calls
<1>. QED
  BY <1>1, <1>2

\* the name of a pool is one of three
LEMMA Named == Parts \subseteq PoolNames /\ "hPool" \in PoolNames
BY DEF Parts, PoolNames

\* the pools that took a task late, after a task was queued or taken up
LEMMA LateType ==
  ASSUME RequestTypes, NEW q \in Requests, NEW p \in PoolNames, Enqueue(q, p) \/ Dequeue(q, p)
  PROVE  late' \in [Requests -> SUBSET PoolNames]
<1>1. CASE Enqueue(q, p)
  BY <1>1 DEF Enqueue, RequestTypes
<1>2. CASE Dequeue(q, p)
  BY <1>2 DEF Dequeue, RequestTypes
<1>. QED
  BY <1>1, <1>2

\* every step of a request keeps the requests' half
LEMMA RequestKeeps ==
  ASSUME TableInv, RequestInv, NEW q \in Requests, RequestStep(q)
  PROVE  RequestInv'
<1>. USE TableAssumption DEF RequestInv, Move
<1>1. ASSUME Lookup(q) PROVE RequestInv'
  <2>1. /\ req[q] = "idle"
        /\ req' = [req EXCEPT ![q] = IF commands[q.name] = None THEN "over" ELSE "found"]
        /\ cmd' = [cmd EXCEPT ![q] = commands[q.name]]
        /\ reply' = [reply EXCEPT ![q] =
                       IF commands[q.name] = None /\ q \in Calls THEN Error ELSE None]
        /\ UNCHANGED <<outcome, part, alive, late>>
    BY <1>1 DEF Lookup
  <2>2. RequestTypes'
    BY <2>1, Found DEF RequestTypes
  <2>3. HoldsItsCommand'
    BY <2>1, Found DEF HoldsItsCommand, RequestTypes
  <2>4. NothingEarly' /\ SentHasOutcome'
    BY <2>1 DEF NothingEarly, SentHasOutcome, RequestTypes
  <2>5. ProducedByItsCommand'
    BY <2>1 DEF ProducedByItsCommand, NothingEarly, RequestTypes
  <2>6. AnsweredByTheGate'
    BY <2>1 DEF AnsweredByTheGate, RequestTypes, Calls
  <2>7. PushedAsProduced'
    BY <2>1 DEF PushedAsProduced, RequestTypes
  <2>. QED
    BY <2>2, <2>3, <2>4, <2>5, <2>6, <2>7
<1>2. ASSUME Validate(q) PROVE RequestInv'
  <2>1. /\ req[q] = "found" /\ req' = [req EXCEPT ![q] = "validated"]
        /\ UNCHANGED <<cmd, outcome, reply, part, alive, late>>
    BY <1>2 DEF Validate
  <2>2. RequestTypes'
    BY <2>1 DEF RequestTypes
  <2>. QED
    BY <2>1, <2>2, Moving
<1>3. ASSUME Admit(q) PROVE RequestInv'
  <2>1. /\ req[q] = "validated" /\ req' = [req EXCEPT ![q] = "admitted"]
        /\ UNCHANGED <<cmd, outcome, reply, part, alive>>
    BY <1>3 DEF Admit
  <2>2. late' \in [Requests -> SUBSET PoolNames]
    BY <1>3, Named, LateType DEF Admit
  <2>3. RequestTypes'
    BY <2>1, <2>2 DEF RequestTypes
  <2>. QED
    BY <2>1, <2>3, Moving
<1>4. ASSUME Run(q) PROVE RequestInv'
  <2>1. /\ req[q] = "admitted" /\ req' = [req EXCEPT ![q] = "running"]
        /\ UNCHANGED <<cmd, outcome, reply, part, alive>>
    BY <1>4 DEF Run
  <2>2. late' \in [Requests -> SUBSET PoolNames]
    BY <1>4, Named, LateType DEF Run
  <2>3. RequestTypes'
    BY <2>1, <2>2 DEF RequestTypes
  <2>. QED
    BY <2>1, <2>3, Moving
<1>5. ASSUME Refuse(q) PROVE RequestInv'
  <2>1. /\ req[q] = "found" /\ req' = [req EXCEPT ![q] = "over"]
        /\ reply' = [reply EXCEPT ![q] = IF q \in Calls THEN Error ELSE None]
        /\ UNCHANGED <<cmd, outcome, part, alive, late>>
    BY <1>5 DEF Refuse
  <2>2. RequestTypes'
    BY <2>1 DEF RequestTypes
  <2>3. HoldsItsCommand' /\ NothingEarly' /\ SentHasOutcome' /\ ProducedByItsCommand'
    BY <2>1 DEF HoldsItsCommand, NothingEarly, SentHasOutcome, ProducedByItsCommand, RequestTypes
  <2>4. AnsweredByTheGate' /\ PushedAsProduced'
    BY <2>1 DEF AnsweredByTheGate, PushedAsProduced, NothingEarly, RequestTypes, Calls
  <2>. QED
    BY <2>2, <2>3, <2>4
<1>6. ASSUME NEW p \in Parts, ValidatePart(q, p) \/ SubmitPart(q, p) \/ PartDone(q, p)
      PROVE  RequestInv'
  <2>1. UNCHANGED <<req, cmd, outcome, reply, alive>>
    BY <1>6 DEF ValidatePart, SubmitPart, PartDone
  <2>2. late' \in [Requests -> SUBSET PoolNames]
    <3>1. CASE ValidatePart(q, p)
      BY <3>1 DEF ValidatePart, RequestTypes
    <3>2. CASE SubmitPart(q, p) \/ PartDone(q, p)
      BY <3>2, Named, LateType DEF SubmitPart, PartDone
    <3>. QED
      BY <1>6, <3>1, <3>2
  <2>3. \E to \in {"validated", "queued", "done"} : part' = [part EXCEPT ![q][p] = to]
    BY <1>6 DEF ValidatePart, SubmitPart, PartDone, PartMove
  <2>4. RequestTypes'
    BY <2>1, <2>2, <2>3 DEF RequestTypes
  <2>5. HoldsItsCommand' /\ NothingEarly' /\ SentHasOutcome' /\ ProducedByItsCommand'
    BY <2>1 DEF HoldsItsCommand, NothingEarly, SentHasOutcome, ProducedByItsCommand
  <2>6. AnsweredByTheGate' /\ PushedAsProduced'
    BY <2>1 DEF AnsweredByTheGate, PushedAsProduced
  <2>. QED
    BY <2>4, <2>5, <2>6
<1>7. ASSUME NEW p \in Parts, PartRefused(q, p) PROVE RequestInv'
  <2>1. /\ req[q] = "running"
        /\ req' = [req EXCEPT ![q] = IF q \in Calls THEN "sent" ELSE "over"]
        /\ outcome' = [outcome EXCEPT ![q] = Error]
        /\ UNCHANGED <<cmd, reply, part, alive, late>>
    BY <1>7 DEF PartRefused
  <2>2. RequestTypes'
    BY <2>1 DEF RequestTypes, Outcomes
  <2>3. HoldsItsCommand' /\ NothingEarly' /\ SentHasOutcome' /\ ProducedByItsCommand'
    BY <2>1 DEF HoldsItsCommand, NothingEarly, SentHasOutcome, ProducedByItsCommand, RequestTypes
  <2>4. AnsweredByTheGate'
    BY <2>1 DEF AnsweredByTheGate, RequestTypes, Calls
  <2>5. PushedAsProduced'
    BY <2>1 DEF PushedAsProduced, NothingEarly, RequestTypes
  <2>. QED
    BY <2>2, <2>3, <2>4, <2>5
<1>8. ASSUME FinishCall(q) PROVE RequestInv'
  <2>1. PICK result \in cmd[q].outcomes :
          /\ q \in Calls
          /\ req[q] = "running" /\ req' = [req EXCEPT ![q] = "sent"]
          /\ outcome' = [outcome EXCEPT ![q] = result]
          /\ UNCHANGED <<cmd, reply, part, alive, late>>
    BY <1>8 DEF FinishCall, Produce
  <2>2. result \in Outcomes
    BY <2>1 DEF HoldsItsCommand, RequestTypes
  <2>3. RequestTypes'
    BY <2>1, <2>2 DEF RequestTypes
  <2>4. HoldsItsCommand' /\ NothingEarly' /\ SentHasOutcome' /\ ProducedByItsCommand'
    BY <2>1, <2>2
    DEF HoldsItsCommand, NothingEarly, SentHasOutcome, ProducedByItsCommand, RequestTypes,
        Outcomes
  <2>5. AnsweredByTheGate' /\ PushedAsProduced'
    BY <2>1 DEF AnsweredByTheGate, PushedAsProduced, RequestTypes, Calls
  <2>. QED
    BY <2>3, <2>4, <2>5
<1>9. ASSUME Return(q) PROVE RequestInv'
  <2>1. /\ req[q] = "sent" /\ req' = [req EXCEPT ![q] = "over"]
        /\ reply' = [reply EXCEPT ![q] = Answer(cmd[q], outcome[q])]
        /\ UNCHANGED <<cmd, outcome, part, alive, late>>
    BY <1>9 DEF Return
  <2>2. outcome[q] \in Outcomes /\ q \in Calls
    BY <2>1 DEF SentHasOutcome, RequestTypes
  <2>3. Answer(cmd[q], outcome[q]) \in Types \cup {Nil, Error}
    BY <2>2, AnswerType
  <2>4. RequestTypes'
    BY <2>1, <2>3 DEF RequestTypes
  <2>5. HoldsItsCommand' /\ NothingEarly' /\ SentHasOutcome' /\ ProducedByItsCommand'
    BY <2>1 DEF HoldsItsCommand, NothingEarly, SentHasOutcome, ProducedByItsCommand, RequestTypes
  <2>6. AnsweredByTheGate' /\ PushedAsProduced'
    BY <2>1, <2>2
    DEF AnsweredByTheGate, PushedAsProduced, RequestTypes, Calls, Outcomes
  <2>. QED
    BY <2>4, <2>5, <2>6
<1>10. ASSUME FinishDispatch(q) PROVE RequestInv'
  <2>1. PICK result \in cmd[q].outcomes :
          \E pushed \in {None} \cup ({result} \cap Types) :
            /\ req[q] = "running" /\ q \notin Calls
            /\ req' = [req EXCEPT ![q] = "over"]
            /\ outcome' = [outcome EXCEPT ![q] = result]
            /\ reply' = [reply EXCEPT ![q] = pushed]
            /\ alive' = (result # Panic)
            /\ UNCHANGED <<cmd, part, late>>
    BY <1>10 DEF FinishDispatch, Produce
  <2>2. result \in Outcomes
    BY <2>1 DEF HoldsItsCommand, RequestTypes
  <2>3. RequestTypes'
    BY <2>1, <2>2 DEF RequestTypes
  <2>4. HoldsItsCommand' /\ NothingEarly' /\ SentHasOutcome' /\ ProducedByItsCommand'
    BY <2>1, <2>2
    DEF HoldsItsCommand, NothingEarly, SentHasOutcome, ProducedByItsCommand, RequestTypes,
        Outcomes
  <2>5. AnsweredByTheGate'
    BY <2>1 DEF AnsweredByTheGate, RequestTypes, Calls
  <2>6. PushedAsProduced'
    BY <2>1 DEF PushedAsProduced, HoldsItsCommand, RequestTypes
  <2>. QED
    BY <2>3, <2>4, <2>5, <2>6
<1>. QED
  BY <1>1, <1>2, <1>3, <1>4, <1>5, <1>6, <1>7, <1>8, <1>9, <1>10 DEF RequestStep, PartStep

-----------------------------------------------------------------------------
(* The two halves together, and what follows. *)

\* the table starts open and empty
LEMMA InitCInv == Init => CInv
<1>. SUFFICES ASSUME Init PROVE CInv
  OBVIOUS
<1>1. TableInv
  BY DEF Init, TableInv, TableIsKeyed, SealBoundsTable, SealKnowsThePending
<1>2. RequestTypes
  BY DEF Init, RequestTypes
<1>3. HoldsItsCommand /\ NothingEarly /\ SentHasOutcome
  BY DEF Init, HoldsItsCommand, NothingEarly, SentHasOutcome
<1>4. ProducedByItsCommand /\ AnsweredByTheGate /\ PushedAsProduced
  BY DEF Init, ProducedByItsCommand, AnsweredByTheGate, PushedAsProduced, Calls
<1>5. StopInv
  BY DEF Init, StopInv
<1>. QED
  BY <1>1, <1>2, <1>3, <1>4, <1>5 DEF CInv, RequestInv

\* a step that leaves the requests alone keeps their half
LEMMA RequestFrame ==
  ASSUME RequestInv, UNCHANGED qvars
  PROVE  RequestInv'
<1>1. UNCHANGED <<req, cmd, outcome, reply, part, alive, late>>
  BY DEF qvars
<1>2. RequestTypes'
  BY <1>1 DEF RequestInv, RequestTypes
<1>3. HoldsItsCommand' /\ NothingEarly' /\ SentHasOutcome'
  BY <1>1 DEF RequestInv, HoldsItsCommand, NothingEarly, SentHasOutcome
<1>4. ProducedByItsCommand' /\ AnsweredByTheGate' /\ PushedAsProduced'
  BY <1>1 DEF RequestInv, ProducedByItsCommand, AnsweredByTheGate, PushedAsProduced
<1>. QED
  BY <1>2, <1>3, <1>4 DEF RequestInv

\* a step that leaves the table alone keeps its half
LEMMA TableFrame ==
  ASSUME TableInv, UNCHANGED rvars
  PROVE  TableInv'
BY DEF rvars, TableInv, TableIsKeyed, SealBoundsTable, SealKnowsThePending

\* no step breaks the invariant
LEMMA Inductive == CInv /\ [Next]_vars => CInv'
<1>. SUFFICES ASSUME CInv, [Next]_vars PROVE CInv'
  OBVIOUS
<1>. USE DEF CInv
<1>1. ASSUME (\E r \in Regs : CheckSeal(r) \/ Store(r)) \/ Seal PROVE CInv'
  <2>1. UNCHANGED <<svars, qvars>>
    BY <1>1 DEF CheckSeal, Store, Seal
  <2>. QED
    BY <1>1, <2>1, TableStep, RequestFrame DEF svars, StopInv
<1>2. ASSUME NEW q \in Requests, RequestStep(q) PROVE CInv'
  <2>1. UNCHANGED <<rvars, svars>>
    BY <1>2 DEF RequestStep, Lookup, Validate, Refuse, Admit, Run, PartStep, ValidatePart,
                SubmitPart, PartRefused, PartDone, FinishCall, Return, FinishDispatch
  <2>. QED
    BY <1>2, <2>1, TableFrame, RequestKeeps DEF svars, StopInv
<1>3. ASSUME StopRunning \/ ClosePool PROVE CInv'
  <2>1. UNCHANGED <<rvars, qvars>>
    BY <1>3 DEF StopRunning, ClosePool
  <2>2. Len(Pools) = 3
    BY DEF Pools
  <2>3. CASE StopRunning
    BY <2>1, <2>3, TableFrame, RequestFrame DEF StopRunning, StopInv
  <2>4. CASE ClosePool
    BY <2>1, <2>2, <2>4, TableFrame, RequestFrame DEF ClosePool, StopInv
  <2>. QED
    BY <1>3, <2>3, <2>4
<1>4. ASSUME UNCHANGED vars PROVE CInv'
  BY <1>4, TableFrame, RequestFrame DEF vars, svars, StopInv
<1>. QED
  BY <1>1, <1>2, <1>3, <1>4 DEF Next

\* the table is in every reachable state as CInv has it
THEOREM Invariant == Spec => []CInv
BY InitCInv, Inductive, PTL DEF Spec

(***************************************************************************)
(* registry.go:15-28, 86-145.  Every table entry is a registration or      *)
(* nothing, every reply a value, a nil or an error, and a handler only     *)
(* runs for a command that its request found under the request's name.     *)
(***************************************************************************)
THEOREM TypeCorrect == Spec => []TypeOK
<1>1. CInv => TypeOK
  BY DEF CInv, TableInv, RequestInv, StopInv, RequestTypes, HoldsItsCommand, TypeOK
<1>. QED
  BY <1>1, Invariant, PTL

(***************************************************************************)
(* registry.go:88-145: whatever the names are registered as anew while     *)
(* Calls are under way, a Call answers with the type declared by the       *)
(* registration whose handler it ran, and destroys no value of that type;  *)
(* and what Dispatch sends without the gate has that type too, as long as  *)
(* it is no interface.                                                     *)
(***************************************************************************)
THEOREM GateHolds == Spec => []GateIsExact
<1>1. ASSUME CInv, NEW q \in Calls, cmd[q] # None
      PROVE  /\ cmd[q].declared # Untyped =>
                  /\ reply[q] \in Types => reply[q] = cmd[q].declared
                  /\ reply[q] = Nil => cmd[q].declared \in Nilable
             /\ req[q] = "over" /\ outcome[q] \in Types /\ cmd[q].declared \notin Interfaces =>
                  reply[q] = outcome[q]
  <2>. USE TableAssumption
  <2>. q \in Requests
    BY DEF Calls
  <2>1. CASE req[q] # "over"
    BY <1>1, <2>1 DEF CInv, RequestInv, NothingEarly
  <2>2. CASE req[q] = "over" /\ outcome[q] = None /\ reply[q] = Error
    BY <2>2
  <2>3. CASE req[q] = "over" /\ outcome[q] # None /\ reply[q] = Answer(cmd[q], outcome[q])
    <3>1. cmd[q] \in Regs /\ outcome[q] \in cmd[q].outcomes \cup {Error}
      BY <1>1, <2>3 DEF CInv, RequestInv, RequestTypes, ProducedByItsCommand
    <3>2. outcome[q] \in Types /\ cmd[q].declared \notin Interfaces \cup {Untyped} =>
            outcome[q] = cmd[q].declared
      BY <3>1
    <3>. QED
      BY <2>3, <3>1, <3>2 DEF Answer, finalize
  <2>. QED
    BY <1>1, <2>1, <2>2, <2>3 DEF CInv, RequestInv, AnsweredByTheGate
<1>2. ASSUME CInv, NEW q \in Requests \ Calls, reply[q] # None,
             cmd[q].declared \notin Interfaces \cup {Untyped}
      PROVE  reply[q] = cmd[q].declared
  <2>1. reply[q] \in Types /\ reply[q] = outcome[q] /\ cmd[q] # None
    BY <1>2 DEF CInv, RequestInv, PushedAsProduced
  <2>2. cmd[q] \in Regs /\ outcome[q] \in cmd[q].outcomes \cup {Error}
    BY <1>2, <2>1, TableAssumption DEF CInv, RequestInv, RequestTypes, ProducedByItsCommand
  <2>. QED
    BY <1>2, <2>1, <2>2, TableAssumption
<1>3. CInv => GateIsExact
  BY <1>1, <1>2 DEF GateIsExact
<1>. QED
  BY <1>3, Invariant, PTL

(***************************************************************************)
(* registry.go:37-50, 61-84: the seal and the store are two steps apart,   *)
(* so a registration may land after it - one that had passed its test of   *)
(* sealed by then, and none besides.                                       *)
(***************************************************************************)
THEOREM SealHolds == Spec => []SealBoundsTable
<1>1. CInv => SealBoundsTable
  BY DEF CInv, TableInv
<1>. QED
  BY <1>1, Invariant, PTL
=============================================================================
