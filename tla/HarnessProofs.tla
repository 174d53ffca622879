--------------------------- MODULE HarnessProofs ---------------------------
(***************************************************************************)
(* Proofs about Harness for any clients, plans and numbers of workers: the *)
(* accounts of a client, and the order of the stamps of the timer.         *)
(***************************************************************************)
EXTENDS Harness, TLAPS, FiniteSetTheorems

-----------------------------------------------------------------------------
(* The accounts of a client. *)

HTypeOK ==
  /\ does \in Scenarios
  /\ phase \in [Clients -> {"begin", "reset", "submit", "queueing", "wait", "drain", "returned", "quit"}]
  /\ next \in [Clients -> Nat \ {0}]
  /\ pending \in [Clients -> Int]
  /\ chan \in [Clients -> Nat] /\ dropped \in [Clients -> Nat] /\ got \in [Clients -> Nat]
  /\ closed \in [Clients -> BOOLEAN]
  /\ stage \in [Tasks -> {"none", "queued", "work", "send", "sent", "done"}]

\* the submissions of c whose task is at one of these stages
In(c, S) == {i \in 1..MaxTasks : stage[<<c, i>>] \in S}

Count(c, S) == Cardinality(In(c, S))

Made == {"queued", "work", "send", "sent", "done"}

Awaited == {"queued", "work", "send", "sent"}

\* what was submitted: refused or made a task, none of them twice
Submissions(c) ==
  /\ next[c] <= Len(Plan(c)) + 1
  /\ In(c, Made) \subseteq {i \in Valid(c) : i < next[c]}
  /\ next[c] = 1 + dropped[c] + Count(c, Made)
  /\ phase[c] = "queueing" => next[c] \in Valid(c)
  /\ phase[c] \in {"wait", "drain", "returned"} => next[c] = Len(Plan(c)) + 1

\* what came back: every result is in the channel or received
Results(c) ==
  /\ got[c] + chan[c] = Count(c, {"sent", "done"})
  /\ ~does[c].sends => chan[c] = 0 /\ In(c, {"send"}) = {}
  /\ phase[c] = "returned" => IF does[c].joins THEN chan[c] = 0 ELSE got[c] = Cap(c)

\* the WaitGroup counts what is awaited, and the client passes it when that is nothing
Group(c) ==
  /\ does[c].joins => pending[c] = Count(c, Awaited) + (IF phase[c] = "queueing" THEN 1 ELSE 0)
  /\ ~does[c].joins => In(c, {"sent"}) = {} /\ ~closed[c] /\ phase[c] # "drain"
  /\ does[c].joins /\ phase[c] \in {"drain", "returned"} => In(c, Awaited) = {}
  /\ closed[c] => phase[c] \in {"drain", "returned"}

Account(c) == Submissions(c) /\ Results(c) /\ Group(c)

\* only clients that stamp have tasks in ReadUs
Reading ==
  /\ pc \in [Tasks -> {"idle", "real", "seq"}]
  /\ \A c \in Clients, i \in 1..MaxTasks : pc[<<c, i>>] # "idle" => does[c].stamps

HInv == HTypeOK /\ Reading /\ \A c \in Clients : Account(c)

-----------------------------------------------------------------------------
(* Counting. *)

\* what is counted is finite, and none only if there is none
LEMMA CountType ==
  ASSUME NEW c, NEW S
  PROVE  /\ Count(c, S) \in Nat /\ IsFiniteSet(In(c, S))
         /\ (Count(c, S) = 0 <=> In(c, S) = {})
<1>1. IsFiniteSet(1..MaxTasks)
  BY HarnessAssumption, FS_Interval
<1>2. IsFiniteSet(In(c, S))
  BY <1>1, FS_Subset DEF In
<1>. QED
  BY <1>2, FS_CardinalityType, FS_EmptySet DEF Count

\* where the tasks stay, so do the counts
LEMMA CountKept ==
  ASSUME NEW c, NEW S, \A i \in 1..MaxTasks : stage'[<<c, i>>] = stage[<<c, i>>]
  PROVE  In(c, S)' = In(c, S) /\ Count(c, S)' = Count(c, S)
BY DEF In, Count

\* a task that moves changes the counts of its client by one at most
LEMMA CountMoved ==
  ASSUME NEW c \in Clients, NEW i \in 1..MaxTasks, NEW there, NEW S,
         stage'[<<c, i>>] = there,
         \A k \in 1..MaxTasks : k # i => stage'[<<c, k>>] = stage[<<c, k>>]
  PROVE  /\ In(c, S)' = IF there \in S THEN In(c, S) \cup {i} ELSE In(c, S) \ {i}
         /\ Count(c, S)' = Count(c, S) + (IF there \in S THEN 1 ELSE 0)
                                       - (IF stage[<<c, i>>] \in S THEN 1 ELSE 0)
<1>2. In(c, S)' = IF there \in S THEN In(c, S) \cup {i} ELSE In(c, S) \ {i}
  BY DEF In
<1>3. i \in In(c, S) <=> stage[<<c, i>>] \in S
  BY DEF In
<1>4. IsFiniteSet(In(c, S)) /\ Cardinality(In(c, S)) \in Nat
  BY CountType DEF Count
<1>. DEFINE T == In(c, S)
<1>5. /\ Cardinality(T \cup {i}) = Cardinality(T) + (IF i \in T THEN 0 ELSE 1)
      /\ Cardinality(T \ {i}) = Cardinality(T) - (IF i \in T THEN 1 ELSE 0)
  <2>. HIDE DEF T
  <2>1. Cardinality(T \cup {i}) = IF i \in T THEN Cardinality(T) ELSE Cardinality(T) + 1
    BY <1>4, FS_AddElement DEF T
  <2>2. Cardinality(T \ {i}) = IF i \in T THEN Cardinality(T) - 1 ELSE Cardinality(T)
    BY <1>4, FS_RemoveElement DEF T
  <2>. QED
    BY <1>4, <2>1, <2>2 DEF T
<1>6. Count(c, S) = Cardinality(T)
      /\ Count(c, S)' = IF there \in S THEN Cardinality(T \cup {i}) ELSE Cardinality(T \ {i})
  BY <1>2 DEF Count
<1>. HIDE DEF T
<1>. QED
  BY <1>2, <1>3, <1>4, <1>5, <1>6 DEF T

\* of the other clients' tasks none moves
LEMMA OthersStay ==
  ASSUME HTypeOK, NEW c \in Clients, NEW i, NEW there, NEW d \in Clients, d # c,
         stage' = [stage EXCEPT ![<<c, i>>] = there]
  PROVE  \A k \in 1..MaxTasks : stage'[<<d, k>>] = stage[<<d, k>>]
BY DEF HTypeOK, Tasks

\* what the scenario says of a client
LEMMA Planned ==
  ASSUME HTypeOK, NEW c \in Clients
  PROVE  /\ Plan(c) \in Seq(Int) /\ Len(Plan(c)) \in Nat /\ Len(Plan(c)) <= MaxTasks
         /\ MaxTasks \in Nat
         /\ DOMAIN Plan(c) = 1..Len(Plan(c)) /\ Valid(c) \subseteq 1..Len(Plan(c))
         /\ does[c].joins \in BOOLEAN /\ does[c].sends \in BOOLEAN /\ does[c].stamps \in BOOLEAN
         /\ does[c].joins \/ does[c].sends
         /\ does[c].stamps => does[c].sends
BY HarnessAssumption DEF HTypeOK, Plan, Valid

-----------------------------------------------------------------------------
\* a client starts with an empty account
LEMMA InitHInv == Init => HInv
<1>. SUFFICES ASSUME Init PROVE HInv
  OBVIOUS
<1>1. HTypeOK
  BY DEF Init, HTypeOK
<1>2. ASSUME NEW c \in Clients PROVE Account(c)
  <2>1. \A S : "none" \notin S => In(c, S) = {}
    BY DEF Init, In, Tasks
  <2>2. \A S : "none" \notin S => In(c, S) = {} /\ Count(c, S) = 0
    BY <2>1, CountType
  <2>3. In(c, Made) = {} /\ Count(c, Made) = 0 /\ In(c, {"send"}) = {} /\ In(c, {"sent"}) = {}
        /\ Count(c, {"sent", "done"}) = 0 /\ Count(c, Awaited) = 0
    BY <2>2 DEF Made, Awaited
  <2>4. next[c] = 1 /\ pending[c] = 0 /\ chan[c] = 0 /\ dropped[c] = 0 /\ got[c] = 0
        /\ ~closed[c] /\ phase[c] = "begin"
    BY DEF Init
  <2>5. Len(Plan(c)) \in Nat
    BY <1>1, Planned
  <2>. QED
    BY <2>3, <2>4, <2>5 DEF Account, Submissions, Results, Group
<1>3. Reading
  BY DEF Init, Timer!Init, Reading, Tasks
<1>. QED
  BY <1>1, <1>2, <1>3 DEF HInv

\* the steps as the accounts see them: of a client, of a task, or of neither
LEMMA Kinds ==
  ASSUME [Next]_vars
  PROVE  \/ \E c \in Clients : ClientStep(c)
         \/ \E c \in Clients, i \in 1..MaxTasks : StartTask(<<c, i>>) \/ TaskStep(<<c, i>>)
         \/ UNCHANGED <<does, clients, stage>>
<1>1. \A t \in Tasks : \E c \in Clients, i \in 1..MaxTasks : t = <<c, i>>
  BY DEF Tasks
<1>. QED
  BY <1>1 DEF Next, Advance, Stop, vars

\* every step keeps the types
LEMMA TypeStep ==
  ASSUME HInv, [Next]_vars
  PROVE  HTypeOK'
<1>. USE DEF HTypeOK, Turn, Become, Add, clients
<1>0. HTypeOK
  BY DEF HInv
<1>1. ASSUME NEW c \in Clients, ResetSeq(c) \/ ResetStart(c) \/ NoReset(c) \/ Quit(c) \/ Submitted(c)
      PROVE  HTypeOK'
  BY <1>0, <1>1 DEF ResetSeq, ResetStart, NoReset, Quit, Submitted
<1>2. ASSUME NEW c \in Clients, Assign(c) PROVE HTypeOK'
  <2>1. pending[c] + (IF does[c].joins THEN 1 ELSE 0) \in Int
    BY <1>0
  <2>. QED
    BY <1>0, <1>2, <2>1 DEF Assign
<1>3. ASSUME NEW c \in Clients, Queue(c) PROVE HTypeOK'
  <2>1. stage' = [stage EXCEPT ![<<c, next[c]>>] = "queued"]
        /\ UNCHANGED <<does, pending, chan, closed, dropped, got>>
    BY <1>3 DEF Queue
  <2>2. stage' \in [Tasks -> {"none", "queued", "work", "send", "sent", "done"}]
    BY <1>0, <2>1
  <2>3. next[c] + 1 \in Nat \ {0}
    BY <1>0
  <2>4. phase' \in [Clients -> {"begin", "reset", "submit", "queueing", "wait", "drain", "returned", "quit"}]
        /\ next' \in [Clients -> Nat \ {0}]
    BY <1>0, <1>3, <2>3 DEF Queue
  <2>. QED
    BY <1>0, <2>1, <2>2, <2>4
<1>4. ASSUME NEW c \in Clients, CountRefusal(c) PROVE HTypeOK'
  BY <1>0, <1>4 DEF CountRefusal
<1>5. ASSUME NEW c \in Clients, Joined(c) PROVE HTypeOK'
  <2>1. does[c].sends \in BOOLEAN
    BY <1>0, Planned
  <2>. QED
    BY <1>0, <1>5, <2>1 DEF Joined
<1>6. ASSUME NEW c \in Clients, Receive(c) PROVE HTypeOK'
  <2>1. chan[c] \in Nat /\ chan[c] > 0 /\ got[c] \in Nat
    BY <1>0, <1>6 DEF Receive
  <2>2. chan[c] + -1 \in Nat /\ got[c] + 1 \in Nat
    BY <2>1
  <2>3. chan' = [chan EXCEPT ![c] = chan[c] + -1] /\ got' = [got EXCEPT ![c] = got[c] + 1]
        /\ UNCHANGED <<does, phase, next, pending, closed, dropped, stage>>
    BY <1>6 DEF Receive
  <2>4. chan' \in [Clients -> Nat] /\ got' \in [Clients -> Nat]
    BY <1>0, <2>2, <2>3
  <2>. QED
    BY <1>0, <2>3, <2>4
<1>7. ASSUME NEW c \in Clients, Return(c) PROVE HTypeOK'
  BY <1>0, <1>7 DEF Return
<1>8. ASSUME NEW c \in Clients, NEW i \in 1..MaxTasks, StartTask(<<c, i>>) \/ TaskStep(<<c, i>>)
      PROVE  HTypeOK'
  <2>. DEFINE t == <<c, i>>
  <2>0. t[1] = c
    OBVIOUS
  <2>. HIDE DEF t
  <2>1. CASE StartTask(t)
    BY <1>0, <2>1 DEF StartTask
  <2>2. CASE ReadClock(t) \/ TakeSeq(t)
    BY <1>0, <2>2 DEF ReadClock, TakeSeq
  <2>3. CASE ReturnUs(t)
    BY <1>0, <2>3 DEF ReturnUs
  <2>4. CASE Work(t)
    <3>1. got[c] + (IF does[c].sends THEN 0 ELSE 1) \in Nat
      BY <1>0
    <3>2. got' \in [Clients -> Nat]
      BY <1>0, <2>0, <2>4, <3>1 DEF Work
    <3>3. stage' = [stage EXCEPT ![t] = "send"] \/ stage' = [stage EXCEPT ![t] = "sent"]
      BY <2>4 DEF Work
    <3>4. UNCHANGED <<does, phase, next, pending, chan, closed, dropped>>
      BY <2>4 DEF Work
    <3>. QED
      BY <1>0, <3>2, <3>3, <3>4
  <2>5. CASE Send(t)
    <3>1. chan' = [chan EXCEPT ![c] = chan[c] + 1] /\ chan[c] + 1 \in Nat
      BY <1>0, <2>0, <2>5 DEF Send
    <3>2. chan' \in [Clients -> Nat]
      BY <1>0, <3>1
    <3>3. stage' = [stage EXCEPT ![t] = "sent"] \/ stage' = [stage EXCEPT ![t] = "done"]
      BY <2>5 DEF Send
    <3>4. UNCHANGED <<does, phase, next, pending, closed, dropped, got>>
      BY <2>5 DEF Send
    <3>. QED
      BY <1>0, <3>2, <3>3, <3>4
  <2>6. CASE Done(t)
    <3>1. pending' = [pending EXCEPT ![c] = pending[c] + -1] /\ pending[c] + -1 \in Int
      BY <1>0, <2>0, <2>6 DEF Done
    <3>2. pending' \in [Clients -> Int]
      BY <1>0, <3>1
    <3>3. stage' = [stage EXCEPT ![t] = "done"]
      BY <2>6 DEF Done
    <3>4. UNCHANGED <<does, phase, next, chan, closed, dropped, got>>
      BY <2>6 DEF Done
    <3>. QED
      BY <1>0, <3>2, <3>3, <3>4
  <2>. QED
    BY <1>8, <2>1, <2>2, <2>3, <2>4, <2>5, <2>6 DEF TaskStep, t
<1>9. ASSUME UNCHANGED <<does, clients, stage>> PROVE HTypeOK'
  BY <1>0, <1>9
<1>. QED
  BY <1>1, <1>2, <1>3, <1>4, <1>5, <1>6, <1>7, <1>8, <1>9, Kinds DEF ClientStep

-----------------------------------------------------------------------------
\* what one client's account is made of stays as it is
LEMMA AccountKept ==
  ASSUME HTypeOK, NEW c \in Clients, Account(c), does' = does,
         \A i \in 1..MaxTasks : stage'[<<c, i>>] = stage[<<c, i>>],
         phase'[c] = phase[c], next'[c] = next[c], pending'[c] = pending[c], chan'[c] = chan[c],
         closed'[c] = closed[c], dropped'[c] = dropped[c], got'[c] = got[c]
  PROVE  Account(c)'
<1>1. Plan(c)' = Plan(c) /\ Valid(c)' = Valid(c) /\ Cap(c)' = Cap(c)
  BY DEF Plan, Valid, Cap
<1>2. /\ In(c, Made)' = In(c, Made) /\ Count(c, Made)' = Count(c, Made)
      /\ Count(c, {"sent", "done"})' = Count(c, {"sent", "done"})
      /\ In(c, {"send"})' = In(c, {"send"}) /\ In(c, {"sent"})' = In(c, {"sent"})
      /\ In(c, Awaited)' = In(c, Awaited) /\ Count(c, Awaited)' = Count(c, Awaited)
  BY CountKept
<1>. QED
  BY <1>1, <1>2 DEF Account, Submissions, Results, Group

\* a step of another client, or of a task of another client
LEMMA OthersKept ==
  ASSUME HInv, NEW c \in Clients, NEW d \in Clients, d # c,
         \/ ClientStep(c)
         \/ \E i \in 1..MaxTasks : StartTask(<<c, i>>) \/ TaskStep(<<c, i>>)
  PROVE  Account(d)'
<1>0. HTypeOK /\ Account(d)
  BY DEF HInv
<1>. USE DEF HTypeOK, Turn, Become, Add, clients
<1>1. CASE ClientStep(c)
  <2>1. /\ does' = does /\ phase'[d] = phase[d] /\ next'[d] = next[d] /\ pending'[d] = pending[d]
        /\ chan'[d] = chan[d] /\ closed'[d] = closed[d] /\ dropped'[d] = dropped[d] /\ got'[d] = got[d]
    BY <1>0, <1>1
    DEF ClientStep, ResetSeq, ResetStart, NoReset, Assign, Queue, CountRefusal, Quit, Submitted,
        Joined, Receive, Return
  <2>2. stage' = stage \/ stage' = [stage EXCEPT ![<<c, next[c]>>] = "queued"]
    BY <1>1
    DEF ClientStep, ResetSeq, ResetStart, NoReset, Assign, Queue, CountRefusal, Quit, Submitted,
        Joined, Receive, Return
  <2>3. \A i \in 1..MaxTasks : stage'[<<d, i>>] = stage[<<d, i>>]
    <3>1. CASE stage' = stage
      BY <3>1
    <3>2. CASE stage' = [stage EXCEPT ![<<c, next[c]>>] = "queued"]
      BY <1>0, <3>2, OthersStay
    <3>. QED
      BY <2>2, <3>1, <3>2
  <2>. QED
    BY <1>0, <2>1, <2>3, AccountKept
<1>2. ASSUME NEW i \in 1..MaxTasks, StartTask(<<c, i>>) \/ TaskStep(<<c, i>>) PROVE Account(d)'
  <2>. DEFINE t == <<c, i>>
  <2>0. t[1] = c
    OBVIOUS
  <2>. HIDE DEF t
  <2>1. /\ does' = does /\ phase'[d] = phase[d] /\ next'[d] = next[d] /\ pending'[d] = pending[d]
        /\ chan'[d] = chan[d] /\ closed'[d] = closed[d] /\ dropped'[d] = dropped[d] /\ got'[d] = got[d]
    BY <1>0, <1>2, <2>0 DEF t, StartTask, TaskStep, ReadClock, TakeSeq, ReturnUs, Work, Send, Done
  <2>2. stage' = stage \/ \E there : stage' = [stage EXCEPT ![<<c, i>>] = there]
    BY <1>2 DEF StartTask, TaskStep, ReadClock, TakeSeq, ReturnUs, Work, Send, Done
  <2>3. \A k \in 1..MaxTasks : stage'[<<d, k>>] = stage[<<d, k>>]
    <3>1. CASE stage' = stage
      BY <3>1
    <3>2. ASSUME NEW there, stage' = [stage EXCEPT ![<<c, i>>] = there]
          PROVE  \A k \in 1..MaxTasks : stage'[<<d, k>>] = stage[<<d, k>>]
      BY <1>0, <3>2, OthersStay
    <3>. QED
      BY <2>2, <3>1, <3>2
  <2>. QED
    BY <1>0, <2>1, <2>3, AccountKept
<1>. QED
  BY <1>1, <1>2

\* the plans are fixed, and a step that moves no task keeps what is counted
LEMMA PlansKept ==
  ASSUME does' = does, NEW c
  PROVE  /\ Plan(c)' = Plan(c) /\ Valid(c)' = Valid(c) /\ Cap(c)' = Cap(c)
         /\ does'[c].joins = does[c].joins /\ does'[c].sends = does[c].sends
BY DEF Plan, Valid, Cap

\* what a client does to its own account; only Queue makes a task
LEMMA OwnKept ==
  ASSUME HInv, NEW c \in Clients, ClientStep(c)
  PROVE  Account(c)'
<1>. USE DEF Turn, Add, clients
<1>0. HTypeOK /\ Account(c)
  BY DEF HInv
<1>1. /\ does' = does /\ next[c] \in Nat \ {0} /\ pending[c] \in Int /\ chan[c] \in Nat
      /\ dropped[c] \in Nat /\ got[c] \in Nat /\ closed[c] \in BOOLEAN
  BY <1>0 DEF HTypeOK, ClientStep, ResetSeq, ResetStart, NoReset, Assign, Queue, CountRefusal, Quit,
              Submitted, Joined, Receive, Return
<1>2. /\ Plan(c)' = Plan(c) /\ Valid(c)' = Valid(c) /\ Cap(c)' = Cap(c)
      /\ does'[c].joins = does[c].joins /\ does'[c].sends = does[c].sends
  BY <1>1, PlansKept
<1>3. /\ Len(Plan(c)) \in Nat /\ DOMAIN Plan(c) = 1..Len(Plan(c)) /\ Valid(c) \subseteq 1..Len(Plan(c))
      /\ does[c].joins \in BOOLEAN /\ does[c].sends \in BOOLEAN
      /\ Len(Plan(c)) <= MaxTasks /\ MaxTasks \in Nat
  BY <1>0, Planned
<1>4. /\ Count(c, Made) \in Nat /\ Count(c, {"sent", "done"}) \in Nat /\ Count(c, Awaited) \in Nat
      /\ (Count(c, Awaited) = 0 <=> In(c, Awaited) = {})
  BY CountType
<1>5. ASSUME stage' = stage
      PROVE  /\ In(c, Made)' = In(c, Made) /\ Count(c, Made)' = Count(c, Made)
             /\ Count(c, {"sent", "done"})' = Count(c, {"sent", "done"})
             /\ In(c, {"send"})' = In(c, {"send"}) /\ In(c, {"sent"})' = In(c, {"sent"})
             /\ In(c, Awaited)' = In(c, Awaited) /\ Count(c, Awaited)' = Count(c, Awaited)
  BY <1>5, CountKept
<1>6. CASE ResetSeq(c) \/ ResetStart(c) \/ NoReset(c) \/ Quit(c) \/ Submitted(c)
  <2>1. /\ stage' = stage /\ next'[c] = next[c] /\ pending'[c] = pending[c] /\ chan'[c] = chan[c]
        /\ closed'[c] = closed[c] /\ dropped'[c] = dropped[c] /\ got'[c] = got[c]
    BY <1>6 DEF ResetSeq, ResetStart, NoReset, Quit, Submitted
  <2>2. /\ phase[c] \in {"begin", "reset", "submit"}
        /\ phase'[c] \in {"reset", "submit", "quit", "wait"}
        /\ phase'[c] = "wait" => next[c] \notin DOMAIN Plan(c)
    BY <1>0, <1>6 DEF HTypeOK, ResetSeq, ResetStart, NoReset, Quit, Submitted, More
  <2>3. ~closed[c]
    BY <1>0, <2>2 DEF Account, Group
  <2>4. Submissions(c)'
    BY <1>0, <1>1, <1>2, <1>3, <1>5, <2>1, <2>2 DEF Account, Submissions
  <2>5. Results(c)'
    BY <1>0, <1>1, <1>2, <1>5, <2>1, <2>2 DEF Account, Results
  <2>6. Group(c)'
    BY <1>0, <1>1, <1>2, <1>5, <2>1, <2>2, <2>3 DEF Account, Group
  <2>. QED
    BY <2>4, <2>5, <2>6 DEF Account
<1>7. CASE Assign(c)
  <2>1. /\ stage' = stage /\ next'[c] = next[c] /\ chan'[c] = chan[c]
        /\ closed'[c] = closed[c] /\ dropped'[c] = dropped[c] /\ got'[c] = got[c]
        /\ phase[c] = "submit" /\ phase'[c] = "queueing" /\ next[c] \in Valid(c)
        /\ pending'[c] = pending[c] + (IF does[c].joins THEN 1 ELSE 0)
    BY <1>0, <1>7 DEF HTypeOK, Assign
  <2>3. ~closed[c]
    BY <1>0, <2>1 DEF Account, Group
  <2>4. Submissions(c)'
    BY <1>0, <1>1, <1>2, <1>3, <1>5, <2>1 DEF Account, Submissions
  <2>5. Results(c)'
    BY <1>0, <1>1, <1>2, <1>5, <2>1 DEF Account, Results
  <2>6. Group(c)'
    BY <1>0, <1>1, <1>2, <1>3, <1>4, <1>5, <2>1, <2>3 DEF Account, Group
  <2>. QED
    BY <2>4, <2>5, <2>6 DEF Account
<1>8. CASE Queue(c)
  <2>0. PICK i \in Nat : i = next[c]
    BY <1>1
  <2>1. /\ stage' = [stage EXCEPT ![<<c, i>>] = "queued"] /\ next'[c] = i + 1
        /\ pending'[c] = pending[c] /\ chan'[c] = chan[c]
        /\ closed'[c] = closed[c] /\ dropped'[c] = dropped[c] /\ got'[c] = got[c]
        /\ phase[c] = "queueing" /\ phase'[c] = "submit" /\ i \in Valid(c)
    BY <1>0, <1>8, <2>0 DEF HTypeOK, Queue, Account, Submissions
  <2>2. i \in 1..MaxTasks /\ i \notin In(c, Made) /\ i <= Len(Plan(c))
    BY <1>0, <1>1, <1>3, <2>0, <2>1 DEF Account, Submissions
  <2>3. stage[<<c, i>>] = "none"
    BY <1>0, <2>2 DEF HTypeOK, In, Made, Tasks
  <2>4. /\ In(c, Made)' = In(c, Made) \cup {i} /\ Count(c, Made)' = Count(c, Made) + 1
        /\ Count(c, Awaited)' = Count(c, Awaited) + 1
        /\ Count(c, {"sent", "done"})' = Count(c, {"sent", "done"})
        /\ In(c, {"send"})' \subseteq In(c, {"send"}) /\ In(c, {"sent"})' \subseteq In(c, {"sent"})
    <3>1. ASSUME NEW S
          PROVE  /\ In(c, S)' = IF "queued" \in S THEN In(c, S) \cup {i} ELSE In(c, S) \ {i}
                 /\ Count(c, S)' = Count(c, S) + (IF "queued" \in S THEN 1 ELSE 0)
                                               - (IF stage[<<c, i>>] \in S THEN 1 ELSE 0)
      <4>1. /\ i \in 1..MaxTasks /\ stage'[<<c, i>>] = "queued"
            /\ \A k \in 1..MaxTasks : k # i => stage'[<<c, k>>] = stage[<<c, k>>]
        BY <1>0, <2>1, <2>2 DEF HTypeOK, Tasks
      <4>. QED
        BY <4>1, CountMoved
    <3>2. ASSUME NEW S, "queued" \in S, "none" \notin S
          PROVE  In(c, S)' = In(c, S) \cup {i} /\ Count(c, S)' = Count(c, S) + 1
      BY <3>1, <3>2, <2>3, CountType
    <3>3. ASSUME NEW S, "queued" \notin S, "none" \notin S
          PROVE  In(c, S)' \subseteq In(c, S) /\ Count(c, S)' = Count(c, S)
      BY <3>1, <3>3, <2>3, CountType
    <3>. QED
      BY <3>2, <3>3 DEF Made, Awaited
  <2>5. ~closed[c]
    BY <1>0, <2>1 DEF Account, Group
  <2>6. Submissions(c)'
    <3>1. \A k \in Valid(c) : k < i => k < i + 1
      BY <1>3
    <3>2. In(c, Made)' \subseteq {k \in Valid(c) : k < i + 1}
      <4>1. In(c, Made) \subseteq {k \in Valid(c) : k < i}
        BY <1>0, <2>0 DEF Account, Submissions
      <4>2. i \in Valid(c) /\ i < i + 1 /\ In(c, Made)' = In(c, Made) \cup {i}
        BY <2>1, <2>4
      <4>. QED
        BY <3>1, <4>1, <4>2
    <3>3. In(c, Made)' \subseteq {k \in Valid(c)' : k < next'[c]}
      BY <1>2, <2>1, <3>2
    <3>4. next'[c] <= Len(Plan(c)) + 1 /\ next'[c] = 1 + dropped'[c] + Count(c, Made)'
      <4>1. i = 1 + dropped[c] + Count(c, Made)
        BY <1>0, <2>0 DEF Account, Submissions
      <4>2. /\ next'[c] = i + 1 /\ dropped'[c] = dropped[c] /\ i <= Len(Plan(c))
            /\ Count(c, Made)' = Count(c, Made) + 1
        BY <2>1, <2>2, <2>4
      <4>3. dropped[c] \in Nat /\ Count(c, Made) \in Nat /\ Len(Plan(c)) \in Nat /\ next[c] \in Nat
        BY <1>1, <1>3, <1>4
      <4>4. i \in Nat /\ next'[c] <= Len(Plan(c)) + 1
        BY <2>2, <4>2, <4>3
      <4>5. next'[c] = 1 + dropped[c] + (Count(c, Made) + 1)
        <5>1. next'[c] = i + 1
          BY <4>2
        <5>2. dropped[c] \in Nat /\ Count(c, Made) \in Nat
          BY <4>3
        <5>. QED
          BY <4>1, <5>1, <5>2
      <4>. QED
        BY <4>2, <4>4, <4>5
    <3>. QED
      BY <1>2, <2>1, <3>3, <3>4 DEF Submissions
  <2>7. Results(c)'
    BY <1>0, <1>1, <1>2, <2>1, <2>4 DEF Account, Results
  <2>8. Group(c)'
    BY <1>0, <1>1, <1>2, <1>3, <1>4, <2>1, <2>4, <2>5 DEF Account, Group
  <2>. QED
    BY <2>6, <2>7, <2>8 DEF Account
<1>9. CASE CountRefusal(c)
  <2>1. /\ stage' = stage /\ next'[c] = next[c] + 1 /\ chan'[c] = chan[c] /\ pending'[c] = pending[c]
        /\ closed'[c] = closed[c] /\ dropped'[c] = dropped[c] + 1 /\ got'[c] = got[c]
        /\ phase[c] = "submit" /\ phase'[c] = "submit" /\ next[c] \in DOMAIN Plan(c)
    BY <1>0, <1>9 DEF HTypeOK, CountRefusal, More
  <2>2. ~closed[c]
    BY <1>0, <2>1 DEF Account, Group
  <2>3. Submissions(c)'
    <3>1. \A k \in Valid(c) : k < next[c] => k < next[c] + 1
      BY <1>1, <1>3
    <3>2. In(c, Made)' \subseteq {k \in Valid(c)' : k < next'[c]}
      BY <1>0, <1>2, <1>5, <2>1, <3>1 DEF Account, Submissions
    <3>3. next'[c] <= Len(Plan(c)) + 1 /\ next'[c] = 1 + dropped'[c] + Count(c, Made)'
      <4>1. next[c] = 1 + dropped[c] + Count(c, Made)
        BY <1>0 DEF Account, Submissions
      <4>2. /\ next'[c] = next[c] + 1 /\ dropped'[c] = dropped[c] + 1 /\ next[c] <= Len(Plan(c))
            /\ Count(c, Made)' = Count(c, Made)
        BY <1>1, <1>3, <1>5, <2>1
      <4>3. dropped[c] \in Nat /\ Count(c, Made) \in Nat /\ Len(Plan(c)) \in Nat /\ next[c] \in Nat
        BY <1>1, <1>3, <1>4
      <4>. QED
        BY <4>1, <4>2, <4>3
    <3>. QED
      BY <1>2, <2>1, <3>2, <3>3 DEF Submissions
  <2>4. Results(c)'
    BY <1>0, <1>1, <1>2, <1>5, <2>1 DEF Account, Results
  <2>5. Group(c)'
    BY <1>0, <1>1, <1>2, <1>5, <2>1, <2>2 DEF Account, Group
  <2>. QED
    BY <2>3, <2>4, <2>5 DEF Account
<1>10. CASE Joined(c)
  <2>1. /\ stage' = stage /\ next'[c] = next[c] /\ chan'[c] = chan[c] /\ pending'[c] = pending[c]
        /\ dropped'[c] = dropped[c] /\ got'[c] = got[c]
        /\ phase[c] = "wait" /\ phase'[c] = "drain" /\ does[c].joins /\ pending[c] = 0
    BY <1>0, <1>10 DEF HTypeOK, Joined
  <2>2. In(c, Awaited) = {}
    BY <1>0, <1>4, <2>1 DEF Account, Group
  <2>3. Submissions(c)'
    BY <1>0, <1>1, <1>2, <1>3, <1>5, <2>1 DEF Account, Submissions
  <2>4. Results(c)'
    BY <1>0, <1>1, <1>2, <1>5, <2>1 DEF Account, Results
  <2>5. Group(c)'
    BY <1>0, <1>1, <1>2, <1>4, <1>5, <2>1, <2>2 DEF Account, Group
  <2>. QED
    BY <2>3, <2>4, <2>5 DEF Account
<1>11. CASE Receive(c)
  <2>1. /\ stage' = stage /\ next'[c] = next[c] /\ chan'[c] = chan[c] + -1 /\ pending'[c] = pending[c]
        /\ closed'[c] = closed[c] /\ dropped'[c] = dropped[c] /\ got'[c] = got[c] + 1
        /\ phase'[c] = phase[c] /\ phase[c] \in {"wait", "drain"} /\ chan[c] > 0
    BY <1>0, <1>11 DEF HTypeOK, Receive
  <2>2. does[c].sends
    BY <1>0, <1>1, <1>3, <2>1 DEF Account, Results
  <2>3. Submissions(c)'
    BY <1>0, <1>1, <1>2, <1>3, <1>5, <2>1 DEF Account, Submissions
  <2>4. Results(c)'
    BY <1>0, <1>1, <1>2, <1>4, <1>5, <2>1, <2>2 DEF Account, Results
  <2>5. Group(c)'
    BY <1>0, <1>1, <1>2, <1>5, <2>1 DEF Account, Group
  <2>. QED
    BY <2>3, <2>4, <2>5 DEF Account
<1>12. CASE Return(c)
  <2>1. /\ stage' = stage /\ next'[c] = next[c] /\ chan'[c] = chan[c] /\ pending'[c] = pending[c]
        /\ closed'[c] = closed[c] /\ dropped'[c] = dropped[c] /\ got'[c] = got[c]
        /\ phase'[c] = "returned"
        /\ \/ phase[c] = "drain" /\ chan[c] = 0
           \/ phase[c] = "wait" /\ ~does[c].joins /\ got[c] = Cap(c)
    BY <1>0, <1>12 DEF HTypeOK, Return
  <2>2. phase[c] = "drain" => does[c].joins
    BY <1>0, <1>3 DEF Account, Group
  <2>3. Submissions(c)'
    BY <1>0, <1>1, <1>2, <1>3, <1>5, <2>1 DEF Account, Submissions
  <2>4. Results(c)'
    BY <1>0, <1>1, <1>2, <1>5, <2>1, <2>2 DEF Account, Results
  <2>5. Group(c)'
    BY <1>0, <1>1, <1>2, <1>5, <2>1, <2>2 DEF Account, Group
  <2>. QED
    BY <2>3, <2>4, <2>5 DEF Account
<1>. QED
  BY <1>6, <1>7, <1>8, <1>9, <1>10, <1>11, <1>12 DEF ClientStep

\* a task begins a read only if its client stamps
LEMMA ReadingStep ==
  ASSUME HInv, [Next]_vars
  PROVE  Reading'
<1>0. HTypeOK /\ Reading
  BY DEF HInv
<1>1. ASSUME NEW t \in Tasks, ReadClock(t) PROVE Reading'
  <2>1. pc' = [pc EXCEPT ![t] = "real"] /\ does[t[1]].stamps /\ does' = does
    BY <1>1 DEF ReadClock, Timer!ReadClock, Timer!Goto
  <2>. QED
    BY <1>0, <2>1 DEF Reading, Tasks
<1>2. ASSUME NEW t \in Tasks, TakeSeq(t) \/ ReturnUs(t) PROVE Reading'
  <2>1. /\ pc[t] # "idle" /\ does' = does
        /\ pc' = [pc EXCEPT ![t] = "seq"] \/ pc' = [pc EXCEPT ![t] = "idle"]
    BY <1>2 DEF TakeSeq, ReturnUs, Timer!TakeSeq, Timer!ReturnUs, Timer!Goto
  <2>. QED
    BY <1>0, <2>1 DEF Reading, Tasks
<1>3. ASSUME UNCHANGED <<pc, does>> PROVE Reading'
  BY <1>0, <1>3 DEF Reading
<1>4. ASSUME NEW c \in Clients, ClientStep(c) PROVE UNCHANGED <<pc, does>>
  BY <1>4 DEF ClientStep, ResetSeq, ResetStart, NoReset, Assign, Queue, CountRefusal, Quit,
              Submitted, Joined, Receive, Return, Timer!ResetSeq, Timer!ResetStart, clock
<1>5. ASSUME NEW t \in Tasks, StartTask(t) \/ Work(t) \/ Send(t) \/ Done(t)
      PROVE  UNCHANGED <<pc, does>>
  BY <1>5 DEF StartTask, Work, Send, Done, clock
<1>6. ASSUME Advance \/ Stop \/ UNCHANGED vars PROVE UNCHANGED <<pc, does>>
  BY <1>6 DEF Advance, Stop, Timer!Advance, vars, clock
<1>. QED
  BY <1>1, <1>2, <1>3, <1>4, <1>5, <1>6 DEF Next, TaskStep

\* how the counts go when a task of c moves
Shifted(c, here, there, S) ==
  /\ there \notin S => In(c, S)' \subseteq In(c, S)
  /\ here \in S /\ there \in S => In(c, S)' = In(c, S)
  /\ (here \in S <=> there \in S) => Count(c, S)' = Count(c, S)
  /\ here \notin S /\ there \in S => Count(c, S)' = Count(c, S) + 1
  /\ here \in S /\ there \notin S => Count(c, S)' = Count(c, S) - 1

\* what a task does to the account of its client
LEMMA TaskKept ==
  ASSUME HInv, NEW c \in Clients, NEW i \in 1..MaxTasks, StartTask(<<c, i>>) \/ TaskStep(<<c, i>>)
  PROVE  Account(c)'
<1>. USE DEF Become, Add, clients
<1>. DEFINE t == <<c, i>>
<1>a. t[1] = c /\ t \in Tasks
  BY DEF Tasks
<1>. HIDE DEF t
<1>0. HTypeOK /\ Account(c)
  BY DEF HInv
<1>1. /\ pending[c] \in Int /\ chan[c] \in Nat /\ dropped[c] \in Nat /\ got[c] \in Nat
      /\ does[c].joins \in BOOLEAN /\ does[c].sends \in BOOLEAN
      /\ does[c].joins \/ does[c].sends
  BY <1>0, Planned DEF HTypeOK
<1>2. /\ does' = does /\ phase' = phase /\ next' = next /\ closed' = closed /\ dropped' = dropped
  BY DEF t, StartTask, TaskStep, ReadClock, TakeSeq, ReturnUs, Work, Send, Done
<1>3. /\ Plan(c)' = Plan(c) /\ Valid(c)' = Valid(c) /\ Cap(c)' = Cap(c)
      /\ does'[c].joins = does[c].joins /\ does'[c].sends = does[c].sends
  BY <1>2, PlansKept
<1>4. /\ Count(c, Made) \in Nat /\ Count(c, {"sent", "done"}) \in Nat /\ Count(c, Awaited) \in Nat
  BY CountType
<1>5. ASSUME NEW here, NEW there, stage[t] = here, stage' = [stage EXCEPT ![t] = there], NEW S
      PROVE  /\ here \in S => i \in In(c, S)
             /\ Shifted(c, here, there, S)
  <2>1. /\ stage'[<<c, i>>] = there /\ stage[<<c, i>>] = here
        /\ \A k \in 1..MaxTasks : k # i => stage'[<<c, k>>] = stage[<<c, k>>]
    BY <1>0, <1>5 DEF HTypeOK, Tasks, t
  <2>2. here \in S => i \in In(c, S)
    BY <2>1 DEF In
  <2>3. /\ In(c, S)' = IF there \in S THEN In(c, S) \cup {i} ELSE In(c, S) \ {i}
        /\ Count(c, S)' = Count(c, S) + (IF there \in S THEN 1 ELSE 0)
                                      - (IF stage[<<c, i>>] \in S THEN 1 ELSE 0)
    BY <2>1, CountMoved
  <2>4. Count(c, S) \in Nat
    BY CountType
  <2>. QED
    BY <2>1, <2>2, <2>3, <2>4 DEF Shifted
<1>6. ASSUME NEW here \in Awaited, NEW there \in Made, stage[t] = here, stage' = [stage EXCEPT ![t] = there]
      PROVE  /\ Submissions(c)'
             /\ In(c, Awaited) # {} /\ ~(does[c].joins /\ phase[c] \in {"drain", "returned"}) /\ ~closed[c]
  <2>1. here \in Made
    BY DEF Made, Awaited
  <2>2. In(c, Made)' = In(c, Made) /\ Count(c, Made)' = Count(c, Made)
    <3>1. there \in Made
      BY <1>6
    <3>. HIDE DEF Made
    <3>. QED
      BY <1>5, <1>6, <2>1, <3>1 DEF Shifted
  <2>3. In(c, Awaited) # {}
    BY <1>5, <1>6
  <2>. QED
    BY <1>0, <1>2, <1>3, <2>2, <2>3 DEF Account, Submissions, Group
<1>7. CASE ReadClock(t) \/ TakeSeq(t)
  <2>1. UNCHANGED <<does, clients, stage>>
    BY <1>7 DEF ReadClock, TakeSeq
  <2>. QED
    BY <1>0, <2>1, AccountKept
<1>8. CASE StartTask(t)
  <2>1. /\ stage[t] = "queued" /\ stage' = [stage EXCEPT ![t] = "work"]
        /\ UNCHANGED clients
    BY <1>8 DEF StartTask
  <2>2. /\ Count(c, {"sent", "done"})' = Count(c, {"sent", "done"}) /\ Count(c, Awaited)' = Count(c, Awaited)
        /\ In(c, {"send"})' \subseteq In(c, {"send"}) /\ In(c, {"sent"})' \subseteq In(c, {"sent"})
    <3>1. \A S : Shifted(c, "queued", "work", S)
      BY <1>5, <2>1
    <3>. QED
      BY <3>1 DEF Awaited, Shifted
  <2>3. Submissions(c)' /\ ~(does[c].joins /\ phase[c] \in {"drain", "returned"}) /\ ~closed[c]
    BY <1>6, <2>1 DEF Made, Awaited
  <2>4. Results(c)'
    BY <1>0, <1>3, <2>1, <2>2, <2>3 DEF Account, Results
  <2>5. Group(c)'
    BY <1>0, <1>3, <2>1, <2>2, <2>3 DEF Account, Group
  <2>. QED
    BY <2>3, <2>4, <2>5 DEF Account
<1>9. CASE ReturnUs(t)
  <2>1. /\ stage[t] = "work" /\ stage' = [stage EXCEPT ![t] = "send"]
        /\ UNCHANGED clients /\ pc[t] = "seq"
    BY <1>9 DEF ReturnUs, Timer!ReturnUs, Timer!Goto
  <2>2. /\ Count(c, {"sent", "done"})' = Count(c, {"sent", "done"}) /\ Count(c, Awaited)' = Count(c, Awaited)
        /\ In(c, {"sent"})' \subseteq In(c, {"sent"})
    <3>1. \A S : Shifted(c, "work", "send", S)
      BY <1>5, <2>1
    <3>. QED
      BY <3>1 DEF Awaited, Shifted
  <2>3. Submissions(c)' /\ ~(does[c].joins /\ phase[c] \in {"drain", "returned"}) /\ ~closed[c]
    BY <1>6, <2>1 DEF Made, Awaited
  <2>a. does[c].sends
    BY <1>0, <2>1, Planned DEF HInv, Reading, t
  <2>4. Results(c)'
    BY <1>0, <1>3, <2>1, <2>2, <2>3, <2>a DEF Account, Results
  <2>5. Group(c)'
    BY <1>0, <1>3, <2>1, <2>2, <2>3 DEF Account, Group
  <2>. QED
    BY <2>3, <2>4, <2>5 DEF Account
<1>10. CASE Work(t)
  <2>1. /\ stage[t] = "work" /\ UNCHANGED <<phase, next, pending, chan, closed, dropped>>
        /\ stage' = [stage EXCEPT ![t] = IF does[c].sends THEN "send" ELSE "sent"]
        /\ got' = [got EXCEPT ![c] = got[c] + (IF does[c].sends THEN 0 ELSE 1)]
    BY <1>a, <1>10 DEF Work
  <2>2. got'[c] = got[c] + (IF does[c].sends THEN 0 ELSE 1)
    BY <1>0, <2>1 DEF HTypeOK
  <2>3. CASE does[c].sends
    <3>1. stage' = [stage EXCEPT ![t] = "send"] /\ got'[c] = got[c]
      BY <1>1, <2>1, <2>2, <2>3
    <3>2. /\ Count(c, {"sent", "done"})' = Count(c, {"sent", "done"}) /\ Count(c, Awaited)' = Count(c, Awaited)
          /\ In(c, {"sent"})' \subseteq In(c, {"sent"})
      <4>1. \A S : Shifted(c, "work", "send", S)
        BY <1>5, <2>1, <3>1
      <4>. QED
        BY <4>1 DEF Awaited, Shifted
    <3>3. Submissions(c)' /\ ~(does[c].joins /\ phase[c] \in {"drain", "returned"}) /\ ~closed[c]
      BY <1>6, <2>1, <3>1 DEF Made, Awaited
    <3>4. Results(c)'
      BY <1>0, <1>3, <2>1, <2>3, <3>1, <3>2, <3>3 DEF Account, Results
    <3>5. Group(c)'
      BY <1>0, <1>3, <2>1, <3>2, <3>3 DEF Account, Group
    <3>. QED
      BY <3>3, <3>4, <3>5 DEF Account
  <2>4. CASE ~does[c].sends
    <3>1. stage' = [stage EXCEPT ![t] = "sent"] /\ got'[c] = got[c] + 1 /\ does[c].joins
      BY <1>1, <2>1, <2>2, <2>4
    <3>2. /\ Count(c, {"sent", "done"})' = Count(c, {"sent", "done"}) + 1
          /\ Count(c, Awaited)' = Count(c, Awaited)
          /\ In(c, {"send"})' \subseteq In(c, {"send"})
      <4>1. \A S : Shifted(c, "work", "sent", S)
        BY <1>5, <2>1, <3>1
      <4>. QED
        BY <4>1 DEF Awaited, Shifted
    <3>3. Submissions(c)' /\ ~(does[c].joins /\ phase[c] \in {"drain", "returned"}) /\ ~closed[c]
      BY <1>6, <2>1, <3>1 DEF Made, Awaited
    <3>4. Results(c)'
      BY <1>0, <1>1, <1>3, <1>4, <2>1, <2>4, <3>1, <3>2, <3>3 DEF Account, Results
    <3>5. Group(c)'
      BY <1>0, <1>3, <2>1, <3>1, <3>2, <3>3 DEF Account, Group
    <3>. QED
      BY <3>3, <3>4, <3>5 DEF Account
  <2>. QED
    BY <2>3, <2>4
<1>11. CASE Send(t)
  <2>1. /\ stage[t] = "send" /\ UNCHANGED <<phase, next, pending, closed, dropped, got>>
        /\ stage' = [stage EXCEPT ![t] = IF does[c].joins THEN "sent" ELSE "done"]
        /\ chan' = [chan EXCEPT ![c] = chan[c] + 1]
    BY <1>a, <1>11 DEF Send
  <2>2. chan'[c] = chan[c] + 1
    BY <1>0, <2>1 DEF HTypeOK
  <2>3. does[c].sends
    <3>1. In(c, {"send"}) # {}
      BY <1>5, <2>1
    <3>. QED
      BY <1>0, <1>1, <3>1 DEF Account, Results
  <2>4. ASSUME NEW there \in {"sent", "done"}, stage' = [stage EXCEPT ![t] = there],
               there = "sent" <=> does[c].joins
        PROVE  Account(c)'
    <3>2. /\ Count(c, {"sent", "done"})' = Count(c, {"sent", "done"}) + 1
          /\ does[c].joins => Count(c, Awaited)' = Count(c, Awaited)
          /\ ~does[c].joins => In(c, {"sent"})' \subseteq In(c, {"sent"})
      <4>1. \A S : Shifted(c, "send", there, S)
        BY <1>5, <2>1, <2>4
      <4>. QED
        BY <2>4, <4>1 DEF Awaited, Shifted
    <3>3. Submissions(c)' /\ ~(does[c].joins /\ phase[c] \in {"drain", "returned"}) /\ ~closed[c]
      BY <1>6, <2>1, <2>4 DEF Made, Awaited
    <3>4. Results(c)'
      BY <1>0, <1>1, <1>3, <1>4, <2>1, <2>2, <2>3, <3>2, <3>3 DEF Account, Results
    <3>5. Group(c)'
      BY <1>0, <1>3, <2>1, <3>2, <3>3 DEF Account, Group
    <3>. QED
      BY <3>3, <3>4, <3>5 DEF Account
  <2>5. CASE does[c].joins
    BY <2>1, <2>4, <2>5
  <2>6. CASE ~does[c].joins
    BY <2>1, <2>4, <2>6
  <2>. QED
    BY <2>5, <2>6
<1>12. CASE Done(t)
  <2>1. /\ stage[t] = "sent" /\ UNCHANGED <<phase, next, chan, closed, dropped, got>>
        /\ stage' = [stage EXCEPT ![t] = "done"]
        /\ pending' = [pending EXCEPT ![c] = pending[c] + -1]
    BY <1>a, <1>12 DEF Done
  <2>2. pending'[c] = pending[c] + -1
    BY <1>0, <2>1 DEF HTypeOK
  <2>3. does[c].joins
    <3>1. In(c, {"sent"}) # {}
      BY <1>5, <2>1
    <3>. QED
      BY <1>0, <1>1, <3>1 DEF Account, Group
  <2>4. /\ Count(c, {"sent", "done"})' = Count(c, {"sent", "done"})
        /\ Count(c, Awaited)' = Count(c, Awaited) - 1
        /\ In(c, {"send"})' \subseteq In(c, {"send"})
    <3>1. \A S : Shifted(c, "sent", "done", S)
      BY <1>5, <2>1
    <3>. QED
      BY <3>1 DEF Awaited, Shifted
  <2>5. Submissions(c)' /\ ~(does[c].joins /\ phase[c] \in {"drain", "returned"}) /\ ~closed[c]
    BY <1>6, <2>1 DEF Made, Awaited
  <2>6. Results(c)'
    BY <1>0, <1>3, <2>1, <2>4, <2>5 DEF Account, Results
  <2>7. Group(c)'
    BY <1>0, <1>1, <1>3, <1>4, <2>1, <2>2, <2>3, <2>4, <2>5 DEF Account, Group
  <2>. QED
    BY <2>5, <2>6, <2>7 DEF Account
<1>. QED
  BY <1>7, <1>8, <1>9, <1>10, <1>11, <1>12 DEF TaskStep, t

\* no step breaks an account, its own or another's
LEMMA Inductive == HInv /\ [Next]_vars => HInv'
<1>. SUFFICES ASSUME HInv, [Next]_vars PROVE HInv'
  OBVIOUS
<1>1. HTypeOK' /\ Reading'
  BY TypeStep, ReadingStep
<1>2. ASSUME NEW d \in Clients PROVE Account(d)'
  <2>1. CASE UNCHANGED <<does, clients, stage>>
    BY <2>1, AccountKept DEF HInv, clients
  <2>2. ASSUME NEW c \in Clients, ClientStep(c) PROVE Account(d)'
    <3>1. CASE c = d
      BY <2>2, <3>1, OwnKept
    <3>2. CASE c # d
      BY <2>2, <3>2, OthersKept
    <3>. QED
      BY <3>1, <3>2
  <2>3. ASSUME NEW c \in Clients, NEW i \in 1..MaxTasks, StartTask(<<c, i>>) \/ TaskStep(<<c, i>>)
        PROVE  Account(d)'
    <3>1. CASE c = d
      BY <2>3, <3>1, TaskKept
    <3>2. CASE c # d
      BY <2>3, <3>2, OthersKept
    <3>. QED
      BY <3>1, <3>2
  <2>. QED
    BY <2>1, <2>2, <2>3, Kinds
<1>. QED
  BY <1>1, <1>2 DEF HInv

\* every client's account is right in every reachable state
THEOREM Invariant == Spec => []HInv
<1>1. Init => HInv
  BY InitHInv
<1>2. HInv /\ [Next]_vars => HInv'
  BY Inductive
<1>. QED
  BY <1>1, <1>2, PTL DEF Spec

(***************************************************************************)
(* NoSendOnClosed: when a client has closed its channel no task is left    *)
(* that would send on it (demo_drops.go:398-399, 515-516), whatever other  *)
(* clients, refusals and a Stop do meanwhile: the WaitGroup counts every   *)
(* task of the client that is not done, and the client closes when it has  *)
(* come to zero.                                                           *)
(***************************************************************************)
THEOREM NoSendHolds == Spec => []NoSendOnClosed
<1>1. HInv => NoSendOnClosed
  <2>. SUFFICES ASSUME HInv, NEW c \in Clients, closed[c],
                       NEW t \in At({"queued", "work", "send"}), t[1] = c
                PROVE  FALSE
    BY DEF NoSendOnClosed
  <2>1. HTypeOK /\ Account(c)
    BY DEF HInv
  <2>2. does[c].joins /\ phase[c] \in {"drain", "returned"}
    BY <2>1, Planned DEF Account, Group
  <2>3. In(c, Awaited) = {}
    BY <2>1, <2>2 DEF Account, Group
  <2>4. PICK i \in 1..MaxTasks : t = <<c, i>>
    BY DEF At, Tasks
  <2>5. i \in In(c, Awaited)
    BY <2>4 DEF At, In, Awaited
  <2>. QED
    BY <2>3, <2>5
<1>. QED
  BY <1>1, Invariant, PTL

(***************************************************************************)
(* CountsAddUp: a client that returns has each of its submissions          *)
(* accounted for, as a result or as a refusal (demo.go:155-163,            *)
(* demo_drops.go:398-427, serve.go:216-219), with any number of tasks, of  *)
(* clients and of workers, and also if the engine stopped meanwhile.       *)
(***************************************************************************)
THEOREM AccountsHold == Spec => []CountsAddUp
<1>1. HInv => CountsAddUp
  <2>. SUFFICES ASSUME HInv, NEW c \in Clients, phase[c] = "returned"
                PROVE  got[c] + dropped[c] = Len(Plan(c))
    BY DEF CountsAddUp
  <2>1. HTypeOK /\ Account(c)
    BY DEF HInv
  <2>2. /\ next[c] = Len(Plan(c)) + 1 /\ next[c] = 1 + dropped[c] + Count(c, Made)
        /\ got[c] + chan[c] = Count(c, {"sent", "done"}) /\ In(c, Made) \subseteq Valid(c)
    BY <2>1 DEF Account, Submissions, Results
  <2>3. /\ Len(Plan(c)) \in Nat /\ dropped[c] \in Nat /\ got[c] \in Nat /\ chan[c] \in Nat
        /\ Count(c, Made) \in Nat /\ Count(c, {"sent", "done"}) \in Nat
        /\ does[c].joins \in BOOLEAN
    BY <2>1, Planned, CountType DEF HTypeOK
  <2>4. CASE does[c].joins
    <3>1. chan[c] = 0 /\ In(c, Awaited) = {}
      BY <2>1, <2>4 DEF Account, Results, Group
    <3>2. In(c, Made) = In(c, {"sent", "done"})
      BY <3>1 DEF In, Made, Awaited
    <3>3. Count(c, Made) = Count(c, {"sent", "done"})
      BY <3>2 DEF Count
    <3>. QED
      BY <2>2, <2>3, <3>1, <3>3
  <2>5. CASE ~does[c].joins
    <3>1. got[c] = Cardinality(Valid(c))
      BY <2>1, <2>5 DEF Account, Results, Cap
    <3>2. In(c, {"sent", "done"}) \subseteq In(c, Made)
      BY DEF In, Made
    <3>3. Count(c, {"sent", "done"}) <= Count(c, Made)
      BY <3>2, CountType, FS_Subset DEF Count
    <3>4. IsFiniteSet(Valid(c)) /\ Cardinality(Valid(c)) \in Nat
      <4>1. IsFiniteSet(1..Len(Plan(c)))
        BY <2>3, FS_Interval
      <4>2. Valid(c) \subseteq 1..Len(Plan(c))
        BY <2>1, Planned
      <4>. QED
        BY <4>1, <4>2, FS_Subset, FS_CardinalityType
    <3>5. Count(c, Made) <= Cardinality(Valid(c))
      BY <2>2, <3>4, FS_Subset DEF Count
    <3>. QED
      BY <2>2, <2>3, <3>1, <3>3, <3>4, <3>5
  <2>. QED
    BY <2>3, <2>4, <2>5
<1>. QED
  BY <1>1, Invariant, PTL

-----------------------------------------------------------------------------
(* The timer: its synthetic part grows with the number taken, so a value   *)
(* is below what the clock and the counter give when it is returned.       *)

Clock ==
  /\ now \in Nat /\ start \in Nat /\ start <= now /\ seq \in Nat /\ top \in Nat
  /\ resetting \in BOOLEAN
  /\ pc \in [Tasks -> {"idle", "real", "seq"}]
  /\ realUs \in [Tasks -> Nat] /\ taken \in [Tasks -> Nat] /\ floor \in [Tasks -> Nat \cup {-1}]

\* what no Reset came between is below what a reader gets
Rising(t) ==
  floor[t] # -1 =>
    /\ ~resetting /\ realUs[t] <= now - start
    /\ pc[t] = "real" => floor[t] <= realUs[t] + Timer!FracUs(seq)
    /\ pc[t] = "seq" => taken[t] <= seq /\ floor[t] <= Timer!Value(t)

TimerInv ==
  /\ Clock
  /\ top <= IF resetting THEN 0 ELSE (now - start) + Timer!FracUs(seq)
  /\ \A t \in Tasks : Rising(t)

\* more numbers taken, a synthetic part no smaller
LEMMA FracUsGrows ==
  ASSUME NEW m \in Nat, NEW n \in Nat, m <= n
  PROVE  /\ Timer!FracUs(m) \in Nat /\ Timer!FracUs(n) \in Nat
         /\ Timer!FracUs(m) <= Timer!FracUs(n)
<1>1. TickUs \in Nat /\ Scale \in Nat \ {0}
  BY HarnessAssumption
<1>2. m * TickUs \in Nat /\ n * TickUs \in Nat /\ m * TickUs <= n * TickUs
  BY <1>1
<1>3. \A a, b \in Nat : a <= b => a \div Scale \in Nat /\ b \div Scale \in Nat /\ a \div Scale <= b \div Scale
  BY <1>1
<1>. QED
  BY <1>2, <1>3 DEF Timer!FracUs

\* a value of the timer is a number of microseconds, never negative
LEMMA ValueType ==
  ASSUME Clock, NEW t \in Tasks
  PROVE  /\ Timer!FracUs(taken[t]) \in Nat /\ Timer!FracUs(seq) \in Nat /\ Timer!Value(t) \in Nat
         /\ Timer!Value(t) = realUs[t] + Timer!FracUs(taken[t])
<1>1. taken[t] \in Nat /\ realUs[t] \in Nat /\ seq \in Nat
  BY DEF Clock
<1>2. Timer!FracUs(taken[t]) \in Nat /\ Timer!FracUs(seq) \in Nat
  BY <1>1, FracUsGrows
<1>. QED
  BY <1>1, <1>2 DEF Timer!Value

\* the clients use the timer by its own steps
LEMMA TimerUsed == [Next]_vars => [Timer!Next]_clock
<1>. SUFFICES ASSUME [Next]_vars PROVE Timer!Next \/ UNCHANGED clock
  OBVIOUS
<1>1. ASSUME NEW c \in Clients, ClientStep(c) PROVE Timer!Next \/ UNCHANGED clock
  BY <1>1 DEF ClientStep, ResetSeq, ResetStart, NoReset, Assign, Queue, CountRefusal, Quit,
              Submitted, Joined, Receive, Return, Timer!Next
<1>2. ASSUME NEW t \in Tasks, StartTask(t) \/ TaskStep(t) PROVE Timer!Next \/ UNCHANGED clock
  BY <1>2 DEF StartTask, TaskStep, ReadClock, TakeSeq, ReturnUs, Work, Send, Done, Timer!Next
<1>3. ASSUME Advance \/ Stop \/ UNCHANGED vars PROVE Timer!Next \/ UNCHANGED clock
  BY <1>3 DEF Advance, Stop, vars, Timer!Next
<1>. QED
  BY <1>1, <1>2, <1>3 DEF Next

\* the timer starts at its origin
LEMMA InitTimerInv == Init => TimerInv
<1>. SUFFICES ASSUME Init PROVE TimerInv
  OBVIOUS
<1>1. Clock
  <2>1. /\ now = 0 /\ start = 0 /\ seq = 0 /\ resetting = FALSE /\ top = 0
        /\ pc = [t \in Tasks |-> "idle"] /\ realUs = [t \in Tasks |-> 0]
        /\ taken = [t \in Tasks |-> 0] /\ floor = [t \in Tasks |-> -1]
    BY DEF Init, Timer!Init
  <2>2. resetting \in BOOLEAN /\ pc \in [Tasks -> {"idle", "real", "seq"}]
    BY <2>1
  <2>3. floor \in [Tasks -> Nat \cup {-1}]
    BY <2>1
  <2>. QED
    BY <2>1, <2>2, <2>3 DEF Clock
<1>2. now = 0 /\ start = 0 /\ seq = 0 /\ top = 0 /\ ~resetting /\ \A t \in Tasks : floor[t] = -1
  BY DEF Init, Timer!Init
<1>3. Timer!FracUs(0) \in Nat
  BY FracUsGrows
<1>. QED
  BY <1>1, <1>2, <1>3 DEF TimerInv, Rising

\* no step of the timer, a Reset included, breaks the invariant
LEMMA TimerInductive == TimerInv /\ [Timer!Next]_clock => TimerInv'
<1>. SUFFICES ASSUME TimerInv, [Timer!Next]_clock PROVE TimerInv'
  OBVIOUS
<1>0. /\ Clock /\ \A t \in Tasks : Rising(t)
      /\ top <= IF resetting THEN 0 ELSE (now - start) + Timer!FracUs(seq)
  BY DEF TimerInv
<1>1. /\ now \in Nat /\ start \in Nat /\ start <= now /\ seq \in Nat /\ top \in Nat
      /\ resetting \in BOOLEAN /\ Timer!FracUs(seq) \in Nat
  BY <1>0, FracUsGrows DEF Clock
<1>2. ASSUME NEW t \in Tasks, Timer!ReadClock(t) PROVE TimerInv'
  <2>1. /\ now' = now /\ start' = start /\ seq' = seq /\ top' = top /\ resetting' = resetting
        /\ taken' = taken /\ pc' = [pc EXCEPT ![t] = "real"]
        /\ realUs' = [realUs EXCEPT ![t] = now - start]
        /\ floor' = [floor EXCEPT ![t] = IF resetting THEN -1 ELSE top]
    BY <1>2 DEF Timer!ReadClock, Timer!Goto
  <2>2. Clock'
    <3>1. now - start \in Nat /\ (IF resetting THEN -1 ELSE top) \in Nat \cup {-1}
      BY <1>1
    <3>. QED
      BY <1>0, <2>1, <3>1 DEF Clock
  <2>3. ASSUME NEW u \in Tasks PROVE Rising(u)'
    <3>1. CASE u = t
      <4>1. pc'[t] = "real" /\ realUs'[t] = now - start /\ floor'[t] = IF resetting THEN -1 ELSE top
        BY <1>0, <2>1 DEF Clock
      <4>. QED
        BY <1>0, <1>1, <2>1, <3>1, <4>1 DEF Rising, Timer!FracUs
    <3>2. CASE u # t
      <4>1. pc'[u] = pc[u] /\ realUs'[u] = realUs[u] /\ floor'[u] = floor[u] /\ taken'[u] = taken[u]
        BY <1>0, <2>1, <3>2 DEF Clock
      <4>. QED
        BY <1>0, <2>1, <4>1 DEF Rising, Timer!FracUs, Timer!Value
    <3>. QED
      BY <3>1, <3>2
  <2>. QED
    BY <1>0, <2>1, <2>2, <2>3 DEF TimerInv, Timer!FracUs
<1>3. ASSUME NEW t \in Tasks, Timer!TakeSeq(t) PROVE TimerInv'
  <2>1. /\ now' = now /\ start' = start /\ seq' = seq + 1 /\ top' = top /\ resetting' = resetting
        /\ pc[t] = "real" /\ pc' = [pc EXCEPT ![t] = "seq"] /\ taken' = [taken EXCEPT ![t] = seq + 1]
        /\ realUs' = realUs /\ floor' = floor
    BY <1>3 DEF Timer!TakeSeq, Timer!Goto
  <2>2. Clock'
    BY <1>0, <1>1, <2>1 DEF Clock
  <2>3. /\ Timer!FracUs(seq) \in Nat /\ Timer!FracUs(seq + 1) \in Nat
        /\ Timer!FracUs(seq) <= Timer!FracUs(seq + 1) /\ Timer!FracUs(seq)' = Timer!FracUs(seq + 1)
    BY <1>1, <2>1, FracUsGrows DEF Timer!FracUs
  <2>4. ASSUME NEW u \in Tasks PROVE Rising(u)'
    <3>0. realUs[u] \in Nat /\ taken[u] \in Nat /\ floor[u] \in Int
      BY <1>0 DEF Clock
    <3>1. CASE u = t
      <4>1. /\ pc'[t] = "seq" /\ taken'[t] = seq + 1
            /\ Timer!Value(t)' = realUs[t] + Timer!FracUs(seq + 1)
        BY <1>0, <2>1 DEF Clock, Timer!Value, Timer!FracUs
      <4>. QED
        BY <1>0, <1>1, <2>1, <2>3, <3>0, <3>1, <4>1 DEF Rising
    <3>2. CASE u # t
      <4>1. pc'[u] = pc[u] /\ taken'[u] = taken[u] /\ Timer!Value(u)' = Timer!Value(u)
        BY <1>0, <2>1, <3>2 DEF Clock, Timer!Value, Timer!FracUs
      <4>. QED
        BY <1>0, <1>1, <2>1, <2>3, <3>0, <4>1 DEF Rising
    <3>. QED
      BY <3>1, <3>2
  <2>. QED
    BY <1>0, <1>1, <2>1, <2>2, <2>3, <2>4 DEF TimerInv
<1>4. ASSUME NEW t \in Tasks, Timer!ReturnUs(t) PROVE TimerInv'
  <2>1. /\ now' = now /\ start' = start /\ seq' = seq /\ resetting' = resetting
        /\ pc[t] = "seq" /\ pc' = [pc EXCEPT ![t] = "idle"] /\ taken' = [taken EXCEPT ![t] = 0]
        /\ realUs' = [realUs EXCEPT ![t] = 0] /\ floor' = [floor EXCEPT ![t] = -1]
        /\ top' = IF floor[t] # -1 /\ Timer!Value(t) > top THEN Timer!Value(t) ELSE top
    BY <1>4 DEF Timer!ReturnUs, Timer!Goto
  <2>2. Timer!Value(t) \in Nat
    BY <1>0, ValueType
  <2>3. Clock'
    BY <1>0, <1>1, <2>1, <2>2 DEF Clock
  <2>4. floor[t] # -1 => ~resetting /\ Timer!Value(t) <= (now - start) + Timer!FracUs(seq)
    <3>. SUFFICES ASSUME floor[t] # -1
                  PROVE  ~resetting /\ Timer!Value(t) <= (now - start) + Timer!FracUs(seq)
      OBVIOUS
    <3>1. ~resetting /\ realUs[t] <= now - start /\ taken[t] <= seq
      BY <1>0, <2>1 DEF Rising
    <3>2. taken[t] \in Nat /\ realUs[t] \in Nat
      BY <1>0 DEF Clock
    <3>3. Timer!FracUs(taken[t]) \in Nat /\ Timer!FracUs(taken[t]) <= Timer!FracUs(seq)
      BY <1>1, <3>1, <3>2, FracUsGrows
    <3>. QED
      BY <1>1, <3>1, <3>2, <3>3 DEF Timer!Value
  <2>5. ASSUME NEW u \in Tasks PROVE Rising(u)'
    <3>1. CASE u = t
      <4>1. floor'[t] = -1
        BY <1>0, <2>1 DEF Clock
      <4>. QED
        BY <3>1, <4>1 DEF Rising
    <3>2. CASE u # t
      <4>1. pc'[u] = pc[u] /\ realUs'[u] = realUs[u] /\ floor'[u] = floor[u] /\ taken'[u] = taken[u]
        BY <1>0, <2>1, <3>2 DEF Clock
      <4>. QED
        BY <1>0, <2>1, <4>1 DEF Rising, Timer!FracUs, Timer!Value
    <3>. QED
      BY <3>1, <3>2
  <2>6. top' <= IF resetting THEN 0 ELSE (now - start) + Timer!FracUs(seq)
    BY <1>0, <1>1, <2>1, <2>2, <2>4
  <2>. QED
    BY <2>1, <2>3, <2>5, <2>6 DEF TimerInv, Timer!FracUs
<1>5. ASSUME Timer!ResetSeq PROVE TimerInv'
  <2>1. /\ now' = now /\ start' = start /\ seq' = 0 /\ resetting' = TRUE /\ top' = 0
        /\ pc' = pc /\ realUs' = realUs /\ taken' = taken /\ floor' = [t \in Tasks |-> -1]
    BY <1>5 DEF Timer!ResetSeq, Timer!Forget
  <2>. QED
    BY <1>0, <1>1, <2>1 DEF TimerInv, Clock, Rising
<1>6. ASSUME Timer!ResetStart PROVE TimerInv'
  <2>1. /\ now' = now /\ start' = now /\ seq' = seq /\ resetting' = FALSE /\ top' = 0
        /\ pc' = pc /\ realUs' = realUs /\ taken' = taken /\ floor' = [t \in Tasks |-> -1]
    BY <1>6 DEF Timer!ResetStart, Timer!Forget
  <2>2. Timer!FracUs(seq)' \in Nat
    BY <1>1, <2>1 DEF Timer!FracUs
  <2>3. Clock'
    <3>1. resetting' \in BOOLEAN /\ floor' \in [Tasks -> Nat \cup {-1}]
      BY <2>1
    <3>2. pc' \in [Tasks -> {"idle", "real", "seq"}] /\ realUs' \in [Tasks -> Nat] /\ taken' \in [Tasks -> Nat]
      BY <1>0, <2>1 DEF Clock
    <3>3. now' \in Nat /\ start' \in Nat /\ start' <= now' /\ seq' \in Nat /\ top' \in Nat
      BY <1>1, <2>1
    <3>. QED
      BY <3>1, <3>2, <3>3 DEF Clock
  <2>4. \A t \in Tasks : Rising(t)'
    BY <2>1 DEF Rising
  <2>5. top' <= IF resetting' THEN 0 ELSE (now' - start') + Timer!FracUs(seq)'
    BY <1>1, <2>1, <2>2
  <2>. QED
    BY <2>3, <2>4, <2>5 DEF TimerInv
<1>7. ASSUME Timer!Advance PROVE TimerInv'
  <2>1. now' = now + 1 /\ UNCHANGED <<start, seq, resetting, pc, realUs, taken, top, floor>>
    BY <1>7 DEF Timer!Advance
  <2>2. Clock'
    BY <1>0, <1>1, <2>1 DEF Clock
  <2>3. ASSUME NEW u \in Tasks PROVE Rising(u)'
    <3>1. realUs[u] \in Nat
      BY <1>0 DEF Clock
    <3>2. realUs[u] <= now - start => realUs[u] <= (now + 1) - start
      BY <1>1, <3>1
    <3>. QED
      BY <1>0, <2>1, <3>2 DEF Rising, Timer!FracUs, Timer!Value
  <2>4. top <= IF resetting THEN 0 ELSE ((now + 1) - start) + Timer!FracUs(seq)
    BY <1>0, <1>1
  <2>5. top' <= IF resetting' THEN 0 ELSE (now' - start') + Timer!FracUs(seq)'
    BY <2>1, <2>4 DEF Timer!FracUs
  <2>. QED
    BY <2>2, <2>3, <2>5 DEF TimerInv
<1>8. ASSUME UNCHANGED clock PROVE TimerInv'
  BY <1>0, <1>8 DEF TimerInv, Clock, Rising, clock, Timer!FracUs, Timer!Value
<1>. QED
  BY <1>2, <1>3, <1>4, <1>5, <1>6, <1>7, <1>8 DEF Timer!Next

(***************************************************************************)
(* RealOrder, timer.go:35 "ordering is real": a read that begins after     *)
(* another has returned gets no lower value, for any number of readers,    *)
(* any length of a tick and any order of the clock read and the counter,   *)
(* as long as no step of a Reset comes between.                            *)
(***************************************************************************)
THEOREM RealOrderHolds == Spec => []RealOrder
<1>1. TimerInv => RealOrder
  <2>. SUFFICES ASSUME TimerInv, NEW t \in Tasks, pc[t] = "seq" PROVE Timer!Value(t) >= floor[t]
    BY DEF RealOrder, Timer!RealOrder
  <2>1. Timer!Value(t) \in Nat /\ floor[t] \in Nat \cup {-1} /\ Rising(t)
    BY ValueType DEF TimerInv, Clock
  <2>2. CASE floor[t] = -1
    BY <2>1, <2>2
  <2>3. CASE floor[t] # -1
    BY <2>1, <2>3 DEF Rising
  <2>. QED
    BY <2>2, <2>3
<1>2. TimerInv /\ [Next]_vars => TimerInv'
  BY TimerUsed, TimerInductive
<1>. QED
  BY <1>1, <1>2, InitTimerInv, PTL DEF Spec

-----------------------------------------------------------------------------
(* The groups: which tasks may still be behind a task they rank below.     *)

Started == {"work", "send", "sent", "done"}

\* submitted before t by the same client, to start before it
Precedes(u, t) ==
  u[1] = t[1] /\ u[2] \in Valid(t[1]) /\ u[2] < t[2] /\ Rank(u) < Rank(t)

\* u is off its worker or never came on one, and t gets no lower Ts
Left(u, t) ==
  /\ stage[u] \notin {"queued", "work"}
  /\ stamp[u] # Unstamped =>
       /\ pc[t] # "idle" /\ floor[t] # -1 => stamp[u] <= floor[t]
       /\ stamp[t] # Unstamped => stamp[u] <= stamp[t]

\* W are the tasks that were on the workers when t started
Beside(W, t) ==
  IsFiniteSet(W) /\ Cardinality(W) < Width /\ \A u \in Tasks \ W : Precedes(u, t) => Left(u, t)

\* a stamp is a result, no later than what the timer gave out
Stamped(t) ==
  /\ pc[t] # "idle" => stage[t] = "work"
  /\ stamp[t] # Unstamped =>
       stage[t] \in {"send", "sent", "done"} /\ stamp[t] <= top /\ does[t[1]].stamps

GroupInv ==
  /\ stamp \in [Tasks -> Nat \cup {-1}]
  /\ \A t \in Tasks : Stamped(t)
  /\ \A t \in Tasks : stage[t] \in Started => \E W \in SUBSET Tasks : Beside(W, t)

\* a task is a client and a place in its plan
LEMMA TaskIs ==
  ASSUME NEW t \in Tasks
  PROVE  t[1] \in Clients /\ t[2] \in 1..MaxTasks /\ t = <<t[1], t[2]>>
BY DEF Tasks

\* no task has started, none has a stamp
LEMMA InitGroupInv == Init => GroupInv
BY DEF Init, Timer!Init, GroupInv, Stamped, Started, Unstamped

\* what keeps the tasks beside t the same
LEMMA BesideKept ==
  ASSUME GroupInv, does' = does,
         \A t \in Tasks : stage[t] \in Started =>
           \A u \in Tasks : Precedes(u, t) /\ Left(u, t) => Left(u, t)',
         NEW t \in Tasks, stage[t] \in Started
  PROVE  \E W \in SUBSET Tasks : Beside(W, t)'
<1>1. PICK W \in SUBSET Tasks : Beside(W, t)
  BY DEF GroupInv
<1>2. \A u \in Tasks : Precedes(u, t)' <=> Precedes(u, t)
  BY DEF Precedes, Valid, Rank, Plan
<1>3. Beside(W, t)'
  BY <1>1, <1>2 DEF Beside
<1>. QED
  BY <1>3

\* a step that starts nothing and keeps what has left, keeps all
LEMMA GroupKept ==
  ASSUME GroupInv, does' = does, stamp' \in [Tasks -> Nat \cup {-1}],
         \A t \in Tasks : Stamped(t)',
         \A t \in Tasks : stage'[t] \in Started => stage[t] \in Started,
         \A t \in Tasks : stage[t] \in Started =>
           \A u \in Tasks : Precedes(u, t) /\ Left(u, t) => Left(u, t)'
  PROVE  GroupInv'
<1>1. ASSUME NEW t \in Tasks, stage'[t] \in Started PROVE \E W \in SUBSET Tasks : Beside(W, t)'
  BY <1>1, BesideKept
<1>. QED
  BY <1>1 DEF GroupInv

\* the steps of a client
LEMMA GroupClientStep ==
  ASSUME HInv, GroupInv, NEW c \in Clients, ClientStep(c)
  PROVE  GroupInv'
<1>. USE DEF Turn, Add
<1>0. HTypeOK /\ Account(c)
  BY DEF HInv
<1>1. CASE ResetSeq(c) \/ ResetStart(c)
  <2>1. /\ does' = does /\ stage' = stage /\ pc' = pc /\ stamp' = [t \in Tasks |-> Unstamped]
    BY <1>1 DEF ResetSeq, ResetStart, Timer!ResetSeq, Timer!ResetStart
  <2>2. stamp' \in [Tasks -> Nat \cup {-1}] /\ \A t \in Tasks : stamp'[t] = Unstamped
    BY <2>1 DEF Unstamped
  <2>3. \A t \in Tasks : Stamped(t)'
    BY <2>1, <2>2 DEF GroupInv, Stamped
  <2>4. \A t \in Tasks : \A u \in Tasks : Left(u, t) => Left(u, t)'
    BY <2>1, <2>2 DEF Left
  <2>. QED
    BY <2>1, <2>2, <2>3, <2>4, GroupKept
<1>2. CASE Queue(c)
  <2>1. /\ does' = does /\ stage' = [stage EXCEPT ![<<c, next[c]>>] = "queued"]
        /\ UNCHANGED <<clock, stamp>> /\ phase[c] = "queueing"
    BY <1>2 DEF Queue
  <2>2. next[c] \in Nat /\ next[c] \in Valid(c) /\ \A i \in In(c, Made) : i < next[c]
    BY <1>0, <2>1 DEF Account, Submissions, HTypeOK
  <2>3. /\ next[c] \in Nat /\ next[c] \in Valid(c) /\ next[c] \in 1..MaxTasks
        /\ \A i \in In(c, Made) : i < next[c]
    BY <1>0, <2>2, Planned
  <2>4. <<c, next[c]>> \in Tasks
    <3>1. next[c] \in 1..MaxTasks
      BY <2>3
    <3>. QED
      BY <3>1 DEF Tasks
  <2>5. PICK x \in Tasks : x = <<c, next[c]>>
    BY <2>4
  <2>6. x[1] = c /\ x[2] = next[c] /\ stage' = [stage EXCEPT ![x] = "queued"]
    BY <2>1, <2>5
  <2>7. stage[x] = "none"
    <3>1. next[c] \notin In(c, Made)
      BY <2>3
    <3>. QED
      BY <1>0, <2>3, <2>5, <3>1 DEF HTypeOK, In, Made
  <2>8. /\ stage'[x] = "queued" /\ \A t \in Tasks : t # x => stage'[t] = stage[t]
    BY <1>0, <2>6 DEF HTypeOK
  <2>9. \A t \in Tasks : Stamped(t)'
    BY <2>1, <2>7, <2>8 DEF GroupInv, Stamped, clock
  <2>10. ASSUME NEW t \in Tasks, stage[t] \in Started, NEW u \in Tasks, Precedes(u, t), Left(u, t)
        PROVE  Left(u, t)'
    <3>1. u # x
      <4>. SUFFICES ASSUME u = x PROVE FALSE
        OBVIOUS
      <4>1. t[1] = c /\ next[c] < t[2] /\ t[2] \in 1..MaxTasks /\ t = <<c, t[2]>>
        BY <2>6, <2>10, TaskIs DEF Precedes
      <4>2. t[2] \in In(c, Made)
        BY <2>10, <4>1 DEF In, Made, Started
      <4>. QED
        BY <2>3, <4>1, <4>2
    <3>2. stage'[u] = stage[u] /\ stamp' = stamp /\ pc' = pc /\ floor' = floor
      BY <2>1, <2>8, <3>1 DEF clock
    <3>. QED
      BY <2>10, <3>2 DEF Left
  <2>11. \A t \in Tasks : stage'[t] \in Started => stage[t] \in Started
    BY <2>8 DEF Started
  <2>12. stamp' \in [Tasks -> Nat \cup {-1}]
    BY <2>1 DEF GroupInv
  <2>. QED
    BY <2>1, <2>9, <2>10, <2>11, <2>12, GroupKept
<1>3. CASE NoReset(c) \/ Assign(c) \/ CountRefusal(c) \/ Quit(c) \/ Submitted(c)
           \/ Joined(c) \/ Receive(c) \/ Return(c)
  <2>1. does' = does /\ stage' = stage /\ UNCHANGED <<clock, stamp>>
    BY <1>3 DEF NoReset, Assign, CountRefusal, Quit, Submitted, Joined, Receive, Return
  <2>2. \A t \in Tasks : Stamped(t)'
    BY <2>1 DEF GroupInv, Stamped, clock
  <2>3. \A t \in Tasks : \A u \in Tasks : Left(u, t) => Left(u, t)'
    BY <2>1 DEF Left, clock
  <2>4. stamp' \in [Tasks -> Nat \cup {-1}]
    BY <2>1 DEF GroupInv
  <2>. QED
    BY <2>1, <2>2, <2>3, <2>4, GroupKept
<1>. QED
  BY <1>1, <1>2, <1>3 DEF ClientStep

\* a task that starts: what was on the workers is beside it, and what else it
\* should come after is not waiting
LEMMA GroupStartStep ==
  ASSUME HInv, GroupInv, NEW x \in Tasks, StartTask(x)
  PROVE  GroupInv'
<1>0. HTypeOK
  BY DEF HInv
<1>1. /\ does' = does /\ UNCHANGED <<clock, stamp>> /\ Cardinality(At(OnWorker)) < Width
      /\ stage[x] = "queued" /\ stage' = [stage EXCEPT ![x] = "work"]
      /\ \A u \in At({"queued"}) : Rank(x) <= Rank(u)
  BY DEF StartTask, Become
<1>2. stage'[x] = "work" /\ \A t \in Tasks : t # x => stage'[t] = stage[t]
  BY <1>0, <1>1 DEF HTypeOK
<1>3. \A t \in Tasks : Stamped(t)'
  BY <1>1, <1>2 DEF GroupInv, Stamped, clock
<1>4. ASSUME NEW t \in Tasks, NEW u \in Tasks, Left(u, t) PROVE Left(u, t)'
  <2>1. u # x
    BY <1>1, <1>4 DEF Left
  <2>. QED
    BY <1>1, <1>2, <1>4, <2>1 DEF Left, clock
<1>5. IsFiniteSet(At(OnWorker)) /\ At(OnWorker) \in SUBSET Tasks
  <2>1. IsFiniteSet(Tasks)
    <3>1. IsFiniteSet(Clients) /\ IsFiniteSet(1..MaxTasks)
      BY HarnessAssumption, FS_Interval
    <3>. QED
      BY <3>1, FS_Product DEF Tasks
  <2>. QED
    BY <2>1, FS_Subset DEF At
<1>6. ASSUME NEW u \in Tasks \ At(OnWorker), Precedes(u, x)' PROVE Left(u, x)'
  <2>1. Precedes(u, x)
    BY <1>1, <1>6 DEF Precedes, Valid, Rank, Plan
  <2>2. Rank(u) < Rank(x) /\ Rank(u) \in Int /\ Rank(x) \in Int
    <3>1. x[2] \in Valid(x[1])
      <4>1. x[1] \in Clients /\ x[2] \in 1..MaxTasks /\ x = <<x[1], x[2]>>
        BY TaskIs
      <4>2. x[2] \in In(x[1], Made)
        BY <1>1, <4>1 DEF In, Made
      <4>. QED
        BY <4>1, <4>2 DEF HInv, Account, Submissions
    <3>2. u[1] = x[1] /\ x[1] \in Clients /\ u[2] \in Valid(x[1])
      BY <2>1, TaskIs DEF Precedes
    <3>3. Plan(x[1]) \in Seq(Int) /\ Valid(x[1]) \subseteq DOMAIN Plan(x[1])
      BY <1>0, <3>2, Planned DEF Valid
    <3>4. Plan(x[1])[x[2]] \in Int /\ Plan(x[1])[u[2]] \in Int
      BY <3>1, <3>2, <3>3
    <3>. QED
      BY <2>1, <3>2, <3>4 DEF Precedes, Rank
  <2>3. stage[u] # "queued"
    <3>. SUFFICES ASSUME stage[u] = "queued" PROVE FALSE
      OBVIOUS
    <3>1. Rank(x) <= Rank(u)
      BY <1>1 DEF At
    <3>. QED
      BY <2>2, <3>1
  <2>4. stage[u] # "work" /\ u # x
    BY <1>1, <1>6, <2>3 DEF At, OnWorker
  <2>5. pc'[x] = "idle" /\ stamp'[x] = Unstamped
    <3>1. pc[x] = "idle" \/ stage[x] = "work"
      BY DEF GroupInv, Stamped
    <3>. QED
      BY <1>1, <3>1 DEF GroupInv, Stamped, clock
  <2>. QED
    BY <1>2, <2>3, <2>4, <2>5 DEF Left
<1>7. \E W \in SUBSET Tasks : Beside(W, x)'
  <2>1. PICK W \in SUBSET Tasks : W = At(OnWorker)
    BY <1>5
  <2>2. IsFiniteSet(W) /\ Cardinality(W) < Width
    BY <1>1, <1>5, <2>1
  <2>3. \A u \in Tasks \ W : Precedes(u, x)' => Left(u, x)'
    BY <1>6, <2>1
  <2>. QED
    BY <2>2, <2>3 DEF Beside
<1>8. ASSUME NEW t \in Tasks, stage'[t] \in Started PROVE \E W \in SUBSET Tasks : Beside(W, t)'
  <2>1. CASE t = x
    BY <1>7, <2>1
  <2>2. CASE t # x
    <3>1. stage[t] \in Started
      BY <1>2, <1>8, <2>2
    <3>. QED
      BY <1>1, <1>4, <3>1, BesideKept
  <2>. QED
    BY <2>1, <2>2
<1>. QED
  BY <1>1, <1>3, <1>8 DEF GroupInv

\* the other steps of a task on a worker
LEMMA GroupTaskStep ==
  ASSUME HInv, TimerInv, GroupInv, NEW x \in Tasks, TaskStep(x)
  PROVE  GroupInv'
<1>0. HTypeOK /\ Reading /\ Clock
  BY DEF HInv, TimerInv
<1>a. x[1] \in Clients /\ x[2] \in 1..MaxTasks /\ x = <<x[1], x[2]>>
  BY TaskIs
<1>1. CASE ReadClock(x)
  <2>1. /\ does' = does /\ stage' = stage /\ stamp' = stamp /\ top' = top
        /\ stage[x] = "work" /\ pc' = [pc EXCEPT ![x] = "real"]
        /\ floor' = [floor EXCEPT ![x] = IF resetting THEN -1 ELSE top]
    BY <1>1 DEF ReadClock, Timer!ReadClock, Timer!Goto
  <2>2. /\ pc'[x] = "real" /\ floor'[x] = IF resetting THEN -1 ELSE top
        /\ \A t \in Tasks : t # x => pc'[t] = pc[t] /\ floor'[t] = floor[t]
    BY <1>0, <2>1 DEF Clock
  <2>3. \A t \in Tasks : Stamped(t)'
    BY <2>1, <2>2 DEF GroupInv, Stamped
  <2>4. ASSUME NEW t \in Tasks, NEW u \in Tasks, Left(u, t) PROVE Left(u, t)'
    <3>1. CASE t = x
      <4>1. stamp[u] # Unstamped => stamp[u] <= top
        BY DEF GroupInv, Stamped
      <4>. QED
        BY <2>1, <2>2, <2>4, <3>1, <4>1 DEF Left
    <3>2. CASE t # x
      BY <2>1, <2>2, <2>4, <3>2 DEF Left
    <3>. QED
      BY <3>1, <3>2
  <2>5. stamp' \in [Tasks -> Nat \cup {-1}]
    BY <2>1 DEF GroupInv
  <2>. QED
    BY <2>1, <2>3, <2>4, <2>5, GroupKept
<1>2. CASE TakeSeq(x)
  <2>1. /\ does' = does /\ stage' = stage /\ stamp' = stamp /\ top' = top /\ floor' = floor
        /\ pc[x] = "real" /\ pc' = [pc EXCEPT ![x] = "seq"]
    BY <1>2 DEF TakeSeq, Timer!TakeSeq, Timer!Goto
  <2>2. \A t \in Tasks : pc'[t] # "idle" <=> pc[t] # "idle"
    BY <1>0, <2>1 DEF Clock
  <2>3. \A t \in Tasks : Stamped(t)'
    BY <2>1, <2>2 DEF GroupInv, Stamped
  <2>4. \A t \in Tasks : \A u \in Tasks : Left(u, t) => Left(u, t)'
    BY <2>1, <2>2 DEF Left
  <2>5. stamp' \in [Tasks -> Nat \cup {-1}]
    BY <2>1 DEF GroupInv
  <2>. QED
    BY <2>1, <2>3, <2>4, <2>5, GroupKept
<1>3. CASE ReturnUs(x)
  <2>1. /\ does' = does /\ stage[x] = "work" /\ stage' = [stage EXCEPT ![x] = "send"]
        /\ pc[x] = "seq" /\ pc' = [pc EXCEPT ![x] = "idle"] /\ floor' = [floor EXCEPT ![x] = -1]
        /\ top' = IF floor[x] # -1 /\ Timer!Value(x) > top THEN Timer!Value(x) ELSE top
        /\ stamp' = [stamp EXCEPT ![x] = IF floor[x] = -1 THEN Unstamped ELSE Timer!Value(x)]
    BY <1>3 DEF ReturnUs, Become, Timer!ReturnUs, Timer!Goto
  <2>2. /\ pc'[x] = "idle" /\ floor'[x] = -1 /\ stage'[x] = "send"
        /\ \A t \in Tasks : t # x => pc'[t] = pc[t] /\ floor'[t] = floor[t] /\ stage'[t] = stage[t]
    BY <1>0, <2>1 DEF Clock, HTypeOK
  <2>3. /\ stamp'[x] = IF floor[x] = -1 THEN Unstamped ELSE Timer!Value(x)
        /\ \A t \in Tasks : t # x => stamp'[t] = stamp[t]
    BY <2>1 DEF GroupInv
  <2>4. Timer!Value(x) \in Nat /\ top \in Nat /\ (floor[x] # -1 => floor[x] <= Timer!Value(x))
        /\ floor[x] \in Int
    BY <1>0, <2>1, ValueType DEF TimerInv, Rising, Clock
  <2>5. top' \in Nat /\ top <= top' /\ (floor[x] # -1 => Timer!Value(x) <= top')
    BY <2>1, <2>4
  <2>6. stamp' \in [Tasks -> Nat \cup {-1}]
    BY <2>1, <2>4 DEF GroupInv, Unstamped
  <2>7. ASSUME NEW t \in Tasks PROVE Stamped(t)'
    <3>1. CASE t = x
      <4>1. does[x[1]].stamps
        BY <1>0, <1>a, <2>1 DEF Reading
      <4>. QED
        BY <2>1, <2>2, <2>3, <2>5, <3>1, <4>1 DEF Stamped
    <3>2. CASE t # x
      <4>1. stamp[t] \in Int
        BY DEF GroupInv
      <4>. QED
        BY <2>1, <2>2, <2>3, <2>4, <2>5, <3>2, <4>1 DEF GroupInv, Stamped
    <3>. QED
      BY <3>1, <3>2
  <2>8. ASSUME NEW t \in Tasks, NEW u \in Tasks, Left(u, t) PROVE Left(u, t)'
    <3>0. u # x /\ stamp'[u] = stamp[u] /\ stage'[u] = stage[u] /\ stamp[u] \in Int
      BY <2>1, <2>2, <2>3, <2>8 DEF Left, GroupInv
    <3>1. CASE t = x
      BY <2>1, <2>2, <2>3, <2>4, <2>8, <3>0, <3>1 DEF Left
    <3>2. CASE t # x
      BY <2>2, <2>3, <2>8, <3>0, <3>2 DEF Left
    <3>. QED
      BY <3>1, <3>2
  <2>9. \A t \in Tasks : stage'[t] \in Started => stage[t] \in Started
    BY <2>1, <2>2 DEF Started
  <2>. QED
    BY <2>1, <2>6, <2>7, <2>8, <2>9, GroupKept
<1>4. CASE Work(x) \/ Send(x) \/ Done(x)
  <2>1. /\ does' = does /\ UNCHANGED <<clock, stamp>>
        /\ stage[x] \in {"work", "send", "sent"} /\ (stage[x] = "work" => ~does[x[1]].stamps)
        /\ \/ stage' = [stage EXCEPT ![x] = "send"]
           \/ stage' = [stage EXCEPT ![x] = "sent"]
           \/ stage' = [stage EXCEPT ![x] = "done"]
    BY <1>4 DEF Work, Send, Done, Become
  <2>2. /\ stage'[x] \in {"send", "sent", "done"}
        /\ \A t \in Tasks : t # x => stage'[t] = stage[t]
    BY <1>0, <2>1 DEF HTypeOK
  <2>3. pc[x] = "idle"
    <3>1. CASE stage[x] = "work"
      BY <1>0, <1>a, <2>1, <3>1 DEF Reading
    <3>2. CASE stage[x] # "work"
      BY <3>2 DEF GroupInv, Stamped
    <3>. QED
      BY <3>1, <3>2
  <2>4. \A t \in Tasks : Stamped(t)'
    BY <2>1, <2>2, <2>3 DEF GroupInv, Stamped, clock
  <2>5. \A t \in Tasks : \A u \in Tasks : Left(u, t) => Left(u, t)'
    BY <2>1, <2>2 DEF Left, clock
  <2>6. \A t \in Tasks : stage'[t] \in Started => stage[t] \in Started
    BY <2>1, <2>2 DEF Started
  <2>7. stamp' \in [Tasks -> Nat \cup {-1}]
    BY <2>1 DEF GroupInv
  <2>. QED
    BY <2>1, <2>4, <2>5, <2>6, <2>7, GroupKept
<1>. QED
  BY <1>1, <1>2, <1>3, <1>4 DEF TaskStep

\* the three invariants together are inductive
LEMMA GroupInductive == HInv /\ TimerInv /\ GroupInv /\ [Next]_vars => GroupInv'
<1>. SUFFICES ASSUME HInv, TimerInv, GroupInv, [Next]_vars PROVE GroupInv'
  OBVIOUS
<1>1. ASSUME Advance \/ Stop \/ UNCHANGED vars PROVE GroupInv'
  <2>1. UNCHANGED <<does, stage, pc, floor, top, stamp>>
    BY <1>1 DEF Advance, Stop, Timer!Advance, vars, clock
  <2>2. \A t \in Tasks : Stamped(t)'
    BY <2>1 DEF GroupInv, Stamped
  <2>3. \A t \in Tasks : \A u \in Tasks : Left(u, t) => Left(u, t)'
    BY <2>1 DEF Left
  <2>4. stamp' \in [Tasks -> Nat \cup {-1}]
    BY <2>1 DEF GroupInv
  <2>. QED
    BY <2>1, <2>2, <2>3, <2>4, GroupKept
<1>. QED
  BY <1>1, GroupClientStep, GroupStartStep, GroupTaskStep DEF Next

(***************************************************************************)
(* GroupsInOrder (demo_drops.go:318-319, 492, serve.go:179): of the tasks  *)
(* that rank below a task of the same client, fewer than there are workers *)
(* complete with a later Ts, for any plans, workers and interleaving, as   *)
(* long as no Reset comes between.  When a task starts, the ones that rank *)
(* below it and were submitted before are on the other workers or off      *)
(* theirs already, with a Ts no higher than any read that begins now.      *)
(***************************************************************************)
THEOREM GroupsHold == Spec => []GroupsInOrder
<1>1. HInv /\ GroupInv => GroupsInOrder
  <2>. SUFFICES ASSUME HInv, GroupInv, NEW t \in Tasks, stamp[t] # Unstamped
                PROVE  Cardinality({u \in Tasks : /\ u[1] = t[1] /\ stamp[u] # Unstamped
                                                  /\ Rank(u) < Rank(t) /\ stamp[u] > stamp[t]}) < Width
    BY DEF GroupsInOrder
  <2>. DEFINE c == t[1]
              Later == {u \in Tasks : /\ u[1] = t[1] /\ stamp[u] # Unstamped
                                      /\ Rank(u) < Rank(t) /\ stamp[u] > stamp[t]}
  <2>1. c \in Clients /\ does[c].stamps /\ HTypeOK /\ Account(c)
    BY TaskIs DEF HInv, GroupInv, Stamped
  <2>2. PICK W \in SUBSET Tasks : Beside(W, t)
    BY DEF GroupInv, Stamped, Started
  <2>3. ASSUME NEW u \in Tasks, u[1] = c, stamp[u] # Unstamped PROVE u[2] \in Valid(c)
    <3>1. u[2] \in 1..MaxTasks /\ u = <<c, u[2]>> /\ stage[u] \in Made
      BY <2>3, TaskIs DEF GroupInv, Stamped, Made
    <3>2. u[2] \in In(c, Made)
      BY <3>1 DEF In
    <3>. QED
      BY <2>1, <3>2 DEF Account, Submissions
  <2>4. ASSUME NEW u \in Later PROVE Precedes(u, t)
    <3>1. u[2] \in Valid(c) /\ t[2] \in Valid(c) /\ u[1] = c /\ Rank(u) < Rank(t)
      BY <2>3, <2>4
    <3>2. Plan(c) \in Seq(Int) /\ Valid(c) \subseteq DOMAIN Plan(c) /\ DOMAIN Plan(c) = 1..Len(Plan(c))
          /\ Len(Plan(c)) \in Nat
      BY <2>1, Planned DEF Valid
    <3>3. Rank(u) = Plan(c)[u[2]] /\ Rank(t) = Plan(c)[t[2]] /\ Rank(u) \in Int /\ Rank(t) \in Int
          /\ u[2] \in Int /\ t[2] \in Int
      BY <3>1, <3>2 DEF Rank
    <3>4. \A i, j \in DOMAIN Plan(c) :
            i < j /\ Bad \notin {Plan(c)[i], Plan(c)[j]} => Plan(c)[i] <= Plan(c)[j]
      BY <2>1, HarnessAssumption DEF HTypeOK, Plan
    <3>5. t[2] < u[2] => Rank(t) <= Rank(u)
      BY <3>1, <3>3, <3>4 DEF Valid
    <3>6. t[2] # u[2] /\ ~(t[2] < u[2])
      BY <3>1, <3>3, <3>5
    <3>. QED
      BY <3>1, <3>3, <3>6 DEF Precedes
  <2>5. Later \subseteq W
    <3>. SUFFICES ASSUME NEW u \in Later, u \notin W PROVE FALSE
      OBVIOUS
    <3>1. Left(u, t)
      BY <2>2, <2>4 DEF Beside
    <3>2. stamp[u] <= stamp[t] /\ stamp[u] \in Int /\ stamp[t] \in Int
      BY <3>1 DEF Left, GroupInv
    <3>. QED
      BY <3>2
  <2>6. IsFiniteSet(W) /\ Cardinality(W) < Width /\ Width \in Nat
    BY <2>2, HarnessAssumption DEF Beside
  <2>. HIDE DEF Later
  <2>7. IsFiniteSet(Later) /\ Cardinality(Later) <= Cardinality(W)
        /\ Cardinality(Later) \in Nat /\ Cardinality(W) \in Nat
    BY <2>5, <2>6, FS_Subset, FS_CardinalityType
  <2>8. Cardinality(Later) < Width
    BY <2>6, <2>7
  <2>. QED
    BY <2>8 DEF Later
<1>2. HInv /\ TimerInv /\ GroupInv /\ [Next]_vars => (HInv /\ TimerInv /\ GroupInv)'
  BY Inductive, TimerUsed, TimerInductive, GroupInductive
<1>. QED
  BY <1>1, <1>2, InitHInv, InitTimerInv, InitGroupInv, PTL DEF Spec
=============================================================================
