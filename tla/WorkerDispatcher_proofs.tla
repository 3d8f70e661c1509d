----------------------- MODULE WorkerDispatcher_proofs -----------------------
(***************************************************************************)
(* Proofs about the queue of operations (PromiseQueue), and about the      *)
(* operations in a worker behind it, for any number of calls: what is      *)
(* proved of the queue holds in the worker too, and the messages in both   *)
(* directions hide nothing but the answers of calls that were aborted.     *)
(***************************************************************************)
EXTENDS WorkerDispatcher, TLAPS

(***************************************************************************)
(* The queue.  The inductive invariant: isIdle stands for "nothing is      *)
(* active and nothing waits"; one active task at a time is what makes what *)
(* a handler has read still true when it writes.                           *)
(***************************************************************************)
IdleMeansNothing == isIdle => pendingTasks = <<>> /\ \A t \in Task : ~Active(t)

WhatWasReadHolds == \A t \in Task : phase[t] = "running" => seen[t] = storage

SettledAreSettled == \A i \in 1 .. Len(settled) : phase[settled[i].task] = "settled"

InvQueue ==
    /\ TypeOK
    /\ OneAtATime
    /\ IdleMeansNothing
    /\ WhatWasReadHolds
    /\ SettledAreSettled

LEMMA InitQueue == Init => InvQueue
  BY DEF Init, InvQueue, TypeOK, OneAtATime, IdleMeansNothing, WhatWasReadHolds,
         SettledAreSettled, Active, Phase

LEMMA EmptyIs == ASSUME NEW S PROVE <<>> \in Seq(S) /\ Len(<<>>) = 0
  OBVIOUS

LEMMA AppendIs ==
    ASSUME NEW S, NEW s \in Seq(S), NEW e \in S
    PROVE  /\ Append(s, e) \in Seq(S) /\ Len(Append(s, e)) = Len(s) + 1 /\ Len(s) \in Nat
           /\ \A i \in 1 .. Len(s) : Append(s, e)[i] = s[i] /\ s[i] \in S
           /\ Append(s, e)[Len(s) + 1] = e
  OBVIOUS

\* The tail of the queue waits as before: its head is in it only once.
LEMMA TailWaits ==
    ASSUME NEW s \in Seq(Task), s # <<>>
    PROVE  /\ Head(s) = s[1] /\ Head(s) \in Task
           /\ Tail(s) \in Seq(Task) /\ Len(Tail(s)) = Len(s) - 1
           /\ \A i \in 1 .. Len(Tail(s)) : Tail(s)[i] = s[i + 1] /\ i + 1 \in 2 .. Len(s)
  OBVIOUS

\* A settled task stays settled as long as only others move.
LEMMA SettledKeep ==
    ASSUME TypeOK, SettledAreSettled, settled' = settled,
           \A u \in Task : phase[u] = "settled" => phase'[u] = "settled"
    PROVE  SettledAreSettled'
<1> DEFINE Answer == [task : Task, ok : BOOLEAN]
<1>1. settled \in Seq(Answer)
  BY DEF TypeOK
<1>2. \A o \in Answer : o.task \in Task
  OBVIOUS
<1> HIDE DEF Answer
<1>3. \A i \in 1 .. Len(settled) : settled[i] \in Answer
  BY <1>1
<1> QED BY <1>2, <1>3 DEF SettledAreSettled

\* Nor does the answer of one more.
LEMMA SettledGrow ==
    ASSUME TypeOK, SettledAreSettled, NEW t \in Task, NEW ok \in BOOLEAN,
           settled' = Append(settled, [task |-> t, ok |-> ok]), phase'[t] = "settled",
           \A u \in Task : phase[u] = "settled" => phase'[u] = "settled"
    PROVE  settled' \in Seq([task : Task, ok : BOOLEAN]) /\ SettledAreSettled'
<1> DEFINE Answer == [task : Task, ok : BOOLEAN]
           outcome == [task |-> t, ok |-> ok]
<1>1. settled \in Seq(Answer) /\ outcome \in Answer /\ outcome.task = t
  BY DEF TypeOK
<1>2. \A o \in Answer : o.task \in Task
  OBVIOUS
<1> HIDE DEF Answer, outcome
<1>3. /\ settled' \in Seq(Answer) /\ Len(settled') = Len(settled) + 1 /\ Len(settled) \in Nat
      /\ \A i \in 1 .. Len(settled) : settled'[i] = settled[i] /\ settled[i] \in Answer
      /\ settled'[Len(settled) + 1] = outcome
  BY <1>1, AppendIs DEF outcome
<1>4. SettledAreSettled'
  <2> SUFFICES ASSUME NEW i \in 1 .. Len(settled')
               PROVE  phase'[settled'[i].task] = "settled"
    BY DEF SettledAreSettled
  <2>1. CASE i = Len(settled) + 1
    BY <1>1, <1>3, <2>1
  <2>2. CASE i \in 1 .. Len(settled)
    BY <1>2, <1>3, <2>2 DEF SettledAreSettled
  <2> QED BY <1>3, <2>1, <2>2
<1> QED BY <1>3, <1>4 DEF Answer

LEMMA AddInv ==
    ASSUME InvQueue, NEW t \in Task, Add(t)
    PROVE  InvQueue'
<1> USE DEF InvQueue, Add, Enqueue
<1>1. CASE isIdle
  <2>1. /\ phase' = [phase EXCEPT ![t] = "scheduled"] /\ pendingTasks' = <<>>
        /\ isIdle' = FALSE /\ seen' = seen /\ storage' = storage /\ settled' = settled
    BY <1>1 DEF IdleMeansNothing
  <2>2. TypeOK'
    <3>1. Len(pendingTasks') = 0 /\ pendingTasks' \in Seq(Task)
      BY <2>1, EmptyIs
    <3>2. phase' \in [Task -> Phase]
      BY <2>1 DEF TypeOK, Phase
    <3>3. seen' \in [Task -> Seq(Task)] /\ storage' \in Seq(Task)
      BY <2>1 DEF TypeOK
    <3>4. settled \in Seq([task : Task, ok : BOOLEAN])
      BY DEF TypeOK
    <3>5. 1 .. Len(pendingTasks') = {}
      BY <3>1
    <3>6. isIdle' \in BOOLEAN
      BY <2>1
    <3> QED BY <2>1, <3>1, <3>2, <3>3, <3>4, <3>5, <3>6 DEF TypeOK
  <2>3. \A u \in Task : Active(u)' <=> u = t
    BY <1>1, <2>1 DEF Active, IdleMeansNothing, TypeOK
  <2>4. OneAtATime' /\ IdleMeansNothing'
    BY <2>1, <2>3 DEF OneAtATime, IdleMeansNothing
  <2>5. WhatWasReadHolds'
    BY <1>1, <2>1 DEF WhatWasReadHolds, TypeOK
  <2>6. SettledAreSettled'
    BY <2>1, SettledKeep DEF TypeOK
  <2> QED BY <2>2, <2>4, <2>5, <2>6
<1>2. CASE ~isIdle
  <2>1. phase' = [phase EXCEPT ![t] = "pending"] /\ pendingTasks' = Append(pendingTasks, t)
        /\ isIdle' = FALSE /\ seen' = seen /\ storage' = storage /\ settled' = settled
    BY <1>2
  <2>2. TypeOK'
    <3>1. \A i \in 1 .. Len(pendingTasks) : pendingTasks[i] # t
      BY DEF TypeOK
    <3>2. /\ pendingTasks' \in Seq(Task) /\ Len(pendingTasks') = Len(pendingTasks) + 1
          /\ Len(pendingTasks) \in Nat
          /\ \A i \in 1 .. Len(pendingTasks) : pendingTasks'[i] = pendingTasks[i] /\ pendingTasks[i] \in Task
          /\ pendingTasks'[Len(pendingTasks) + 1] = t
      BY <2>1, AppendIs DEF TypeOK
    <3>3. \A i \in 1 .. Len(pendingTasks') : i \in 1 .. Len(pendingTasks) \/ i = Len(pendingTasks) + 1
      BY <3>2
    <3>4. \A i \in 1 .. Len(pendingTasks') : phase'[pendingTasks'[i]] = "pending"
      BY <2>1, <3>1, <3>2, <3>3 DEF TypeOK
    <3>5. \A i, j \in 1 .. Len(pendingTasks') : pendingTasks'[i] = pendingTasks'[j] => i = j
      BY <3>1, <3>2, <3>3 DEF TypeOK
    <3>6. phase' \in [Task -> Phase]
      BY <2>1 DEF TypeOK, Phase
    <3> QED BY <2>1, <3>2, <3>4, <3>5, <3>6 DEF TypeOK
  <2>3. \A u \in Task : Active(u)' <=> Active(u)
    BY <2>1 DEF Active, TypeOK
  <2>4. OneAtATime' /\ IdleMeansNothing' /\ WhatWasReadHolds'
    BY <2>1, <2>3 DEF TypeOK, OneAtATime, IdleMeansNothing, WhatWasReadHolds
  <2>5. SettledAreSettled'
    BY <2>1, SettledKeep DEF TypeOK
  <2> QED BY <2>2, <2>4, <2>5
<1> QED BY <1>1, <1>2

LEMMA HandlerInv ==
    ASSUME InvQueue, NEW t \in Task, Begin(t) \/ Resolve(t) \/ Reject(t)
    PROVE  InvQueue'
<1> USE DEF InvQueue
<1>1. /\ pendingTasks' = pendingTasks /\ isIdle' = isIdle /\ settled' = settled
      /\ Active(t) /\ Active(t)'
      /\ \A u \in Task \ {t} : phase'[u] = phase[u]
      /\ phase' \in [Task -> Phase]
  BY DEF Begin, Resolve, Reject, Active, TypeOK, Phase
<1>2. \A u \in Task : Active(u)' <=> Active(u)
  BY <1>1 DEF Active
<1>3. TypeOK'
  <2>1. \A i \in 1 .. Len(pendingTasks) : pendingTasks[i] # t
    BY <1>1 DEF TypeOK, Active
  <2>2. seen' \in [Task -> Seq(Task)]
    BY DEF Begin, Resolve, Reject, TypeOK
  <2>3. storage' \in Seq(Task)
    <3>1. Append(seen[t], t) \in Seq(Task)
      BY AppendIs DEF TypeOK
    <3> QED BY <3>1 DEF Begin, Resolve, Reject, TypeOK
  <2> QED BY <1>1, <2>1, <2>2, <2>3 DEF TypeOK
<1>4. OneAtATime' /\ IdleMeansNothing'
  BY <1>1, <1>2 DEF OneAtATime, IdleMeansNothing
<1>5. WhatWasReadHolds'
  <2>1. \A u \in Task \ {t} : phase'[u] # "running"
    BY <1>1 DEF OneAtATime, Active
  <2>2. phase'[t] = "running" => seen'[t] = storage'
    BY DEF Begin, Resolve, Reject, TypeOK
  <2> QED BY <2>1, <2>2 DEF WhatWasReadHolds
<1>6. SettledAreSettled'
  BY <1>1, SettledKeep DEF Active
<1> QED BY <1>3, <1>4, <1>5, <1>6

LEMMA CompleteInv ==
    ASSUME InvQueue, NEW t \in Task, Complete(t)
    PROVE  InvQueue'
<1> USE DEF InvQueue, Complete, StartPendingTask, Outcome
<1> DEFINE outcome == [task |-> t, ok |-> phase[t] = "resolved"]
<1>1. Active(t) /\ ~isIdle /\ \A u \in Task \ {t} : ~Active(u)
  BY DEF Active, OneAtATime, IdleMeansNothing
<1>2. settled' = Append(settled, outcome) /\ seen' = seen /\ storage' = storage
  OBVIOUS
<1>3. CASE pendingTasks = <<>>
  <2>1. isIdle' = TRUE /\ phase' = [phase EXCEPT ![t] = "settled"] /\ pendingTasks' = <<>>
    BY <1>3
  <2>5. settled' \in Seq([task : Task, ok : BOOLEAN]) /\ SettledAreSettled'
    BY <1>2, <2>1, SettledGrow DEF TypeOK
  <2>2. TypeOK'
    BY <1>2, <2>1, <2>5 DEF TypeOK, Phase
  <2>3. \A u \in Task : ~Active(u)'
    BY <1>1, <2>1 DEF Active, TypeOK
  <2>4. OneAtATime' /\ IdleMeansNothing' /\ WhatWasReadHolds'
    BY <2>1, <2>3 DEF OneAtATime, IdleMeansNothing, WhatWasReadHolds, Active
  <2> QED BY <2>2, <2>4, <2>5
<1>4. CASE pendingTasks # <<>>
  <2> DEFINE next == Head(pendingTasks)
  <2>1. next \in Task /\ next # t /\ phase[next] = "pending"
    BY <1>1, <1>4, TailWaits DEF TypeOK, Active
  <2>2. /\ isIdle' = FALSE /\ pendingTasks' = Tail(pendingTasks)
        /\ phase' = [phase EXCEPT ![t] = "settled", ![next] = "scheduled"]
    BY <1>1, <1>4 DEF TypeOK
  <2>3. phase'[next] = "scheduled" /\ phase'[t] = "settled"
        /\ \A u \in Task \ {t, next} : phase'[u] = phase[u]
    BY <2>1, <2>2 DEF TypeOK
  <2>7. settled' \in Seq([task : Task, ok : BOOLEAN]) /\ SettledAreSettled'
    BY <1>2, <2>1, <2>3, SettledGrow
  <2>4. TypeOK'
    <3>1. pendingTasks' \in Seq(Task)
      BY <1>4, <2>2 DEF TypeOK
    <3>2. \A i \in 1 .. Len(pendingTasks') :
             /\ i + 1 \in 2 .. Len(pendingTasks)
             /\ pendingTasks'[i] = pendingTasks[i + 1]
      BY <1>4, <2>2, TailWaits DEF TypeOK
    <3>3. \A i \in 1 .. Len(pendingTasks') :
             /\ pendingTasks'[i] \in Task \ {t, next}
             /\ phase[pendingTasks'[i]] = "pending"
      <4> SUFFICES ASSUME NEW i \in 1 .. Len(pendingTasks')
                   PROVE  /\ pendingTasks'[i] \in Task \ {t, next}
                          /\ phase[pendingTasks'[i]] = "pending"
        OBVIOUS
      <4>1. i + 1 \in 2 .. Len(pendingTasks) /\ pendingTasks'[i] = pendingTasks[i + 1]
        BY <3>2
      <4>2. i + 1 \in 1 .. Len(pendingTasks) /\ i + 1 # 1 /\ 1 \in 1 .. Len(pendingTasks)
        BY <3>1, <4>1 DEF TypeOK
      <4>3. next = pendingTasks[1]
        BY <1>4, TailWaits DEF TypeOK
      <4> QED BY <1>1, <4>1, <4>2, <4>3 DEF TypeOK, Active
    <3>4. \A i \in 1 .. Len(pendingTasks') : phase'[pendingTasks'[i]] = "pending"
      BY <2>3, <3>3
    <3>5. \A i, j \in 1 .. Len(pendingTasks') : pendingTasks'[i] = pendingTasks'[j] => i = j
      <4> SUFFICES ASSUME NEW i \in 1 .. Len(pendingTasks'), NEW j \in 1 .. Len(pendingTasks'),
                          pendingTasks'[i] = pendingTasks'[j]
                   PROVE  i = j
        OBVIOUS
      <4>1. pendingTasks[i + 1] = pendingTasks[j + 1]
            /\ i + 1 \in 1 .. Len(pendingTasks) /\ j + 1 \in 1 .. Len(pendingTasks)
        BY <3>1, <3>2 DEF TypeOK
      <4>2. i + 1 = j + 1
        BY <4>1 DEF TypeOK
      <4> QED BY <3>1, <4>2
    <3>6. phase' \in [Task -> Phase]
      BY <2>1, <2>2 DEF TypeOK, Phase
    <3> QED BY <1>2, <2>2, <2>7, <3>1, <3>4, <3>5, <3>6 DEF TypeOK
  <2>5. \A u \in Task : Active(u)' <=> u = next
    BY <1>1, <2>1, <2>3 DEF Active
  <2>6. OneAtATime' /\ IdleMeansNothing' /\ WhatWasReadHolds'
    BY <2>2, <2>3, <2>5 DEF OneAtATime, IdleMeansNothing, WhatWasReadHolds, Active
  <2> QED BY <2>4, <2>6, <2>7
<1> QED BY <1>3, <1>4

LEMMA NextQueue == InvQueue /\ [Next]_vars => InvQueue'
<1> SUFFICES ASSUME InvQueue, [Next]_vars PROVE InvQueue'
  OBVIOUS
<1>1. CASE UNCHANGED vars
  BY <1>1 DEF vars, InvQueue, TypeOK, OneAtATime, IdleMeansNothing, WhatWasReadHolds,
              SettledAreSettled, Active
<1>2. CASE Next
  BY <1>2, AddInv, HandlerInv, CompleteInv DEF Next
<1> QED BY <1>1, <1>2

\* The queue holds pending tasks, each once, and every variable keeps its type.
THEOREM QueueTypeCorrect == Spec => []TypeOK
<1>1. InvQueue => TypeOK
  BY DEF InvQueue
<1> QED BY <1>1, InitQueue, NextQueue, PTL DEF Spec

\* No two operations of a database are ever under way at once.
THEOREM MutualExclusion == Spec => []OneAtATime
<1>1. InvQueue => OneAtATime
  BY DEF InvQueue
<1> QED BY <1>1, InitQueue, NextQueue, PTL DEF Spec

-----------------------------------------------------------------------------
(***************************************************************************)
(* The refinement.  A call is executed when its handler settles: at that   *)
(* moment it is the only one active, and what it read is still true.       *)
(***************************************************************************)

LEMMA TheOne == \A x : The({x}) = x
  BY DEF The

\* The mapped variables, read off the state of the active task.
MappedState ==
    InvQueue =>
        /\ \A t \in Task : phase[t] \in {"scheduled", "running"} =>
               Calls = <<t>> \o pendingTasks /\ Outcomes = settled
        /\ \A t \in Task : phase[t] \in {"resolved", "rejected"} =>
               Calls = pendingTasks /\ Outcomes = Append(settled, Outcome(t))
        /\ (\A t \in Task : ~Active(t)) => Calls = pendingTasks /\ Outcomes = settled

LEMMA Mapped == MappedState
<1> SUFFICES ASSUME InvQueue PROVE MappedState
  BY DEF MappedState
<1>1. ASSUME NEW t \in Task, phase[t] \in {"scheduled", "running"}
      PROVE  Calls = <<t>> \o pendingTasks /\ Outcomes = settled
  <2>1. Executing = {t} /\ Executed = {}
    BY <1>1 DEF InvQueue, OneAtATime, Active, Executing, Executed
  <2> QED BY <2>1, TheOne DEF Calls, Outcomes
<1>2. ASSUME NEW t \in Task, phase[t] \in {"resolved", "rejected"}
      PROVE  Calls = pendingTasks /\ Outcomes = Append(settled, Outcome(t))
  <2>1. Executing = {} /\ Executed = {t}
    BY <1>2 DEF InvQueue, OneAtATime, Active, Executing, Executed
  <2> QED BY <2>1, TheOne DEF Calls, Outcomes
<1>3. ASSUME \A t \in Task : ~Active(t)
      PROVE  Calls = pendingTasks /\ Outcomes = settled
  <2>1. Executing = {} /\ Executed = {}
    BY <1>3 DEF Active, Executing, Executed
  <2> QED BY <2>1 DEF Calls, Outcomes
<1> QED BY <1>1, <1>2, <1>3 DEF MappedState

LEMMA MappedNext == MappedState'
  BY Mapped, PTL

LEMMA CallFirst ==
    ASSUME NEW s \in Seq(Task), NEW t \in Task
    PROVE  /\ <<t>> \o s \in Seq(Task) /\ <<t>> \o s # <<>>
           /\ Head(<<t>> \o s) = t /\ Tail(<<t>> \o s) = s
           /\ \A u \in Task : Append(<<t>> \o s, u) = <<t>> \o Append(s, u)
           /\ \A i \in 1 .. Len(<<t>> \o s) : (<<t>> \o s)[i] = t
                                              \/ \E j \in 1 .. Len(s) : (<<t>> \o s)[i] = s[j]
  OBVIOUS

\* A task that was not called yet is neither waiting nor answered.
LEMMA NotCalledYet ==
    ASSUME InvQueue, NEW t \in Task, phase[t] = "uncalled"
    PROVE  /\ \A i \in 1 .. Len(Calls) : Calls[i] # t
           /\ \A i \in 1 .. Len(Outcomes) : Outcomes[i].task # t
<1>1. \A i \in 1 .. Len(pendingTasks) : pendingTasks[i] # t
  BY DEF InvQueue, TypeOK
<1>2. \A i \in 1 .. Len(settled) : settled[i].task # t
  BY DEF InvQueue, SettledAreSettled
<1>3. pendingTasks \in Seq(Task)
  BY DEF InvQueue, TypeOK
<1>4. settled \in Seq([task : Task, ok : BOOLEAN])
  BY DEF InvQueue, TypeOK
<1>5. CASE \E u \in Task : phase[u] \in {"scheduled", "running"}
  <2> PICK u \in Task : phase[u] \in {"scheduled", "running"}
    BY <1>5
  <2>1. Calls = <<u>> \o pendingTasks /\ Outcomes = settled /\ u # t
    BY Mapped DEF MappedState
  <2> QED BY <1>1, <1>2, <1>3, <2>1, CallFirst
<1>6. CASE \E u \in Task : phase[u] \in {"resolved", "rejected"}
  <2> PICK u \in Task : phase[u] \in {"resolved", "rejected"}
    BY <1>6
  <2>1. Calls = pendingTasks /\ Outcomes = Append(settled, Outcome(u)) /\ u # t
    BY Mapped DEF MappedState
  <2>2. Outcome(u).task = u /\ Outcome(u) \in [task : Task, ok : BOOLEAN]
    BY DEF Outcome
  <2>3. \A i \in 1 .. Len(Outcomes) : i \in 1 .. Len(settled) \/ i = Len(settled) + 1
    BY <1>4, <2>1, <2>2, AppendIs
  <2>4. \A i \in 1 .. Len(Outcomes) : Outcomes[i].task # t
    BY <1>2, <1>4, <2>1, <2>2, <2>3, AppendIs
  <2> QED BY <1>1, <2>1, <2>4
<1>7. CASE \A u \in Task : ~Active(u)
  BY <1>1, <1>2, <1>7, Mapped DEF MappedState
<1> QED BY <1>5, <1>6, <1>7 DEF Active

LEMMA AddCalls ==
    ASSUME InvQueue, InvQueue', NEW t \in Task, Add(t)
    PROVE  Dispatcher!Call(t)
<1>1. /\ \A i \in 1 .. Len(Calls) : Calls[i] # t
      /\ \A i \in 1 .. Len(Outcomes) : Outcomes[i].task # t
  BY NotCalledYet DEF Add
<1>2. storage' = storage /\ settled' = settled
  BY DEF Add
<1>3. pendingTasks \in Seq(Task) /\ phase \in [Task -> Phase]
  BY DEF InvQueue, TypeOK
<1>4. Calls' = Append(Calls, t) /\ Outcomes' = Outcomes
  <2>1. CASE isIdle
    <3>1. pendingTasks = <<>> /\ pendingTasks' = <<>> /\ Calls = <<>> /\ Outcomes = settled
      BY <2>1, Mapped DEF MappedState, Add, Enqueue, InvQueue, IdleMeansNothing
    <3>2. phase'[t] = "scheduled"
      BY <1>3, <2>1 DEF Add, Enqueue
    <3>3. Calls' = <<t>> \o <<>> /\ Outcomes' = settled'
      BY <3>1, <3>2, MappedNext DEF MappedState
    <3> QED BY <1>2, <3>1, <3>3
  <2>2. CASE ~isIdle
    <3>1. pendingTasks' = Append(pendingTasks, t)
      BY <2>2 DEF Add, Enqueue
    <3>2. Executing' = Executing /\ Executed' = Executed /\ t \notin Executed
          /\ \A u \in Task : u # t => phase'[u] = phase[u]
      BY <1>3, <2>2 DEF Add, Enqueue, Executing, Executed
    <3>3. Outcomes' = Outcomes
      <4>1. CASE Executed = {}
        BY <1>2, <3>2, <4>1 DEF Outcomes
      <4>2. CASE Executed # {}
        <5>1. The(Executed) \in Executed
          BY <4>2 DEF The
        <5>2. Outcome(The(Executed))' = Outcome(The(Executed))
          BY <3>2, <5>1 DEF Outcome, Executed
        <5> QED BY <1>2, <3>2, <5>2 DEF Outcomes
      <4> QED BY <4>1, <4>2
    <3>4. Calls' = Append(Calls, t)
      <4>1. CASE Executing = {}
        BY <3>1, <3>2, <4>1 DEF Calls
      <4>2. CASE Executing # {}
        <5>1. The(Executing) \in Task
          BY <4>2 DEF The, Executing
        <5> QED BY <1>3, <3>1, <3>2, <4>2, <5>1, CallFirst DEF Calls
      <4> QED BY <4>1, <4>2
    <3> QED BY <3>3, <3>4
  <2> QED BY <2>1, <2>2
<1> QED BY <1>1, <1>2, <1>4 DEF Dispatcher!Call

LEMMA SettlingExecutes ==
    ASSUME InvQueue, InvQueue', NEW t \in Task, Resolve(t) \/ Reject(t)
    PROVE  \E ok \in BOOLEAN : Dispatcher!Execute(ok)
<1>1. /\ phase[t] = "running" /\ pendingTasks' = pendingTasks /\ settled' = settled
      /\ pendingTasks \in Seq(Task) /\ seen[t] = storage
  BY DEF Resolve, Reject, InvQueue, TypeOK, WhatWasReadHolds
<1>2. Calls = <<t>> \o pendingTasks /\ Outcomes = settled
  BY <1>1, Mapped DEF MappedState
<1>3. Calls # <<>> /\ Head(Calls) = t /\ Tail(Calls) = pendingTasks
  BY <1>1, <1>2, CallFirst
<1>4. phase'[t] \in {"resolved", "rejected"}
  BY DEF Resolve, Reject, InvQueue, TypeOK
<1>5. Calls' = pendingTasks' /\ Outcomes' = Append(settled', Outcome(t)')
  BY <1>4, MappedNext DEF MappedState
<1>6. CASE Resolve(t)
  <2>1. Outcome(t)' = [task |-> t, ok |-> TRUE]
    BY <1>6 DEF Resolve, Outcome, InvQueue, TypeOK
  <2>2. storage' = Append(storage, t)
    BY <1>1, <1>6 DEF Resolve
  <2>3. Dispatcher!Execute(TRUE)
    BY <1>1, <1>2, <1>3, <1>5, <2>1, <2>2 DEF Dispatcher!Execute
  <2> QED BY <2>3
<1>7. CASE Reject(t)
  <2>1. Outcome(t)' = [task |-> t, ok |-> FALSE]
    BY <1>7 DEF Reject, Outcome, InvQueue, TypeOK
  <2>2. storage' = storage \/ storage' = Append(storage, t)
    BY <1>1, <1>7 DEF Reject
  <2>3. Dispatcher!Execute(FALSE)
    BY <1>1, <1>2, <1>3, <1>5, <2>1, <2>2 DEF Dispatcher!Execute
  <2> QED BY <2>3
<1> QED BY <1>6, <1>7

LEMMA CompleteReplies ==
    ASSUME InvQueue, InvQueue', NEW t \in Task, Complete(t)
    PROVE  Dispatcher!Reply
<1>1. /\ phase[t] \in {"resolved", "rejected"} /\ storage' = storage
      /\ settled' = Append(settled, Outcome(t)) /\ StartPendingTask(t)
      /\ pendingTasks \in Seq(Task)
  BY DEF Complete, InvQueue, TypeOK
<1>2. settled \in Seq([task : Task, ok : BOOLEAN]) /\ Outcome(t) \in [task : Task, ok : BOOLEAN]
  BY DEF Outcome, InvQueue, TypeOK
<1>3. Calls = pendingTasks /\ Outcomes = settled'
  BY <1>1, Mapped DEF MappedState
<1>4. Len(settled') = Len(settled) + 1 /\ Len(settled) \in Nat
  BY <1>1, <1>2, AppendIs
<1>5. Calls' = pendingTasks /\ Outcomes' = settled'
  <2>1. CASE pendingTasks = <<>>
    <3>1. pendingTasks' = pendingTasks /\ \A u \in Task : ~Active(u)'
      BY <1>1, <2>1 DEF StartPendingTask, InvQueue, IdleMeansNothing
    <3> QED BY <3>1, MappedNext DEF MappedState
  <2>2. CASE pendingTasks # <<>>
    <3> DEFINE next == Head(pendingTasks)
    <3>1. next \in Task /\ pendingTasks' = Tail(pendingTasks)
      BY <1>1, <2>2, TailWaits DEF StartPendingTask
    <3>2. phase'[next] = "scheduled"
      BY <1>1, <2>2, <3>1 DEF StartPendingTask, InvQueue, TypeOK
    <3>3. Calls' = <<next>> \o Tail(pendingTasks) /\ Outcomes' = settled'
      BY <3>1, <3>2, MappedNext DEF MappedState
    <3>4. <<next>> \o Tail(pendingTasks) = pendingTasks
      BY <1>1, <2>2
    <3> QED BY <3>3, <3>4
  <2> QED BY <2>1, <2>2
<1> QED BY <1>1, <1>3, <1>4, <1>5 DEF Dispatcher!Reply

LEMMA BeginStutters ==
    ASSUME InvQueue, InvQueue', NEW t \in Task, Begin(t)
    PROVE  UNCHANGED Dispatcher!vars
<1>1. /\ phase[t] = "scheduled" /\ phase'[t] = "running" /\ storage' = storage
      /\ pendingTasks' = pendingTasks /\ settled' = settled
  BY DEF Begin, InvQueue, TypeOK
<1>2. Calls = <<t>> \o pendingTasks /\ Outcomes = settled
  BY <1>1, Mapped DEF MappedState
<1>3. Calls' = <<t>> \o pendingTasks' /\ Outcomes' = settled'
  BY <1>1, MappedNext DEF MappedState
<1> QED BY <1>1, <1>2, <1>3 DEF Dispatcher!vars

LEMMA InitRefines == Init => Dispatcher!Init
<1> SUFFICES ASSUME Init PROVE Dispatcher!Init
  OBVIOUS
<1>1. \A u \in Task : ~Active(u)
  BY DEF Init, Active
<1>2. Calls = <<>> /\ Outcomes = <<>> /\ storage = <<>> /\ Len(settled) = 0
  BY <1>1, InitQueue, Mapped DEF MappedState, Init
<1> QED BY <1>2 DEF Dispatcher!Init

LEMMA StepRefines ==
    ASSUME InvQueue, InvQueue', [Next]_vars
    PROVE  [Dispatcher!Next]_(Dispatcher!vars)
<1>1. CASE UNCHANGED vars
  BY <1>1 DEF vars, Dispatcher!vars, Calls, Outcomes, Outcome, Executing, Executed, The
<1>2. ASSUME NEW t \in Task, Add(t) PROVE Dispatcher!Next
  BY <1>2, AddCalls DEF Dispatcher!Next
<1>3. ASSUME NEW t \in Task, Resolve(t) \/ Reject(t) PROVE Dispatcher!Next
  BY <1>3, SettlingExecutes DEF Dispatcher!Next
<1>4. ASSUME NEW t \in Task, Complete(t) PROVE Dispatcher!Next
  BY <1>4, CompleteReplies DEF Dispatcher!Next
<1>5. ASSUME NEW t \in Task, Begin(t) PROVE UNCHANGED Dispatcher!vars
  BY <1>5, BeginStutters
<1> QED BY <1>1, <1>2, <1>3, <1>4, <1>5 DEF Next

\* The dispatcher of SerializingMethodDispatcher is what LocalDBOperations takes
\* it to be: the callers see operations executed one at a time, each in a single
\* step, in the order of the calls, with the outcomes given back in that order.
THEOREM QueueRefinement == Spec => ImplementsOperationQueue
<1>1. InvQueue /\ InvQueue' /\ [Next]_vars => [Dispatcher!Next]_(Dispatcher!vars)
  BY StepRefines
<1> QED BY <1>1, InitRefines, InitQueue, NextQueue, PTL
        DEF Spec, ImplementsOperationQueue, Dispatcher!Spec

-----------------------------------------------------------------------------

(***************************************************************************)
(* The worker.  Its inductive invariant, over the queue's own.  A call is  *)
(* a message or in the queue, never both; the responses under way are      *)
(* those of the operations that settled last, in order; what settled well  *)
(* is in storage and stays there.                                          *)
(***************************************************************************)
SentOnce ==
    /\ \A t \in Task : promises[t] = "none" => phase[t] = "uncalled"
    /\ \A i \in 1 .. Len(toWorker) :
          phase[toWorker[i]] = "uncalled" /\ promises[toWorker[i]] # "none"
    /\ \A i, j \in 1 .. Len(toWorker) : toWorker[i] = toWorker[j] => i = j

AnswersInOrder ==
    /\ Len(toMain) = responses - received
    /\ \A i \in 1 .. Len(toMain) :
          /\ toMain[i].token = settled[received + i].task
          /\ toMain[i].ok => settled[received + i].ok

Stored == {storage[i] : i \in 1 .. Len(storage)}

OkIsStored ==
    /\ \A t \in Task : phase[t] = "resolved" => t \in Stored
    /\ \A i \in 1 .. Len(settled) : settled[i].ok => settled[i].task \in Stored
    /\ \A t \in Task : promises[t] = "resolved" => t \in Stored

InvWorker ==
    /\ InvQueue
    /\ TypeOKWorker
    /\ SentOnce
    /\ AnswersInOrder
    /\ OkIsStored

LEMMA InitInvWorker == InitWorker => InvWorker
<1> SUFFICES ASSUME InitWorker PROVE InvWorker
  OBVIOUS
<1>1. InvQueue
  BY InitQueue DEF InitWorker
<1>2. TypeOKWorker
  BY EmptyIs DEF InitWorker, Init, TypeOKWorker
<1>3. Len(toWorker) = 0 /\ Len(toMain) = 0 /\ Len(settled) = 0 /\ Len(storage) = 0
  BY EmptyIs DEF InitWorker, Init
<1>4. SentOnce
  BY <1>3 DEF InitWorker, Init, SentOnce
<1>5. AnswersInOrder /\ OkIsStored
  BY <1>3 DEF InitWorker, Init, AnswersInOrder, OkIsStored
<1> QED BY <1>1, <1>2, <1>4, <1>5 DEF InvWorker

\* The queue does not know that it is in a worker.
LEMMA WorkerStepOfQueue ==
    ASSUME TypeOKWorker, [NextWorker]_allVars
    PROVE  [Next]_vars
<1>1. ASSUME TakesUp PROVE Next
  <2>1. Head(toWorker) \in Task
    BY <1>1 DEF TakesUp, TypeOKWorker
  <2> QED BY <1>1, <2>1 DEF TakesUp, NextCall, Next
<1> QED BY <1>1 DEF NextWorker, allVars, Exec, Runs, Respond, Receive, ErrorEvent,
                    WorkerError, WorkerExit, Next

-----------------------------------------------------------------------------
(***************************************************************************)
(* The steps.  Those of the main program and of the messages leave the     *)
(* queue alone; the queue's own leave the messages alone.                  *)
(***************************************************************************)
LEMMA ExecInv ==
    ASSUME InvWorker, NEW t \in Task, Exec(t)
    PROVE  InvWorker'
<1>1. /\ UNCHANGED <<vars, toMain, responses, received, worker>>
      /\ promises[t] = "none" /\ phase[t] = "uncalled"
      /\ promises' \in [Task -> {"none", "pending", "resolved", "rejected"}]
      /\ promises'[t] \in {"pending", "rejected"}
      /\ \A u \in Task \ {t} : promises'[u] = promises[u]
      /\ responseHandlers' \subseteq Task
      /\ errors' \in [raised : BOOLEAN, handled : BOOLEAN]
  BY DEF Exec, InvWorker, TypeOKWorker, SentOnce
<1>2. InvQueue'
  BY <1>1, NextQueue DEF InvWorker
<1>3. /\ toWorker \in Seq(Task)
      /\ \A i \in 1 .. Len(toWorker) : toWorker[i] # t /\ toWorker[i] \in Task
  BY <1>1 DEF InvWorker, TypeOKWorker, SentOnce
<1>4. toWorker' = toWorker \/ toWorker' = Append(toWorker, t)
  BY DEF Exec
<1>5. /\ toWorker' \in Seq(Task)
      /\ \A i \in 1 .. Len(toWorker') :
            \/ i \in 1 .. Len(toWorker) /\ toWorker'[i] = toWorker[i]
            \/ i = Len(toWorker) + 1 /\ toWorker'[i] = t
  BY <1>3, <1>4, AppendIs
<1>6. TypeOKWorker'
  BY <1>1, <1>5 DEF InvWorker, TypeOKWorker, vars
<1>7. SentOnce'
  <2>1. \A u \in Task : promises'[u] = "none" => phase'[u] = "uncalled"
    BY <1>1 DEF InvWorker, SentOnce, vars
  <2>2. \A i \in 1 .. Len(toWorker') :
            phase'[toWorker'[i]] = "uncalled" /\ promises'[toWorker'[i]] # "none"
    BY <1>1, <1>3, <1>5 DEF InvWorker, SentOnce, vars
  <2>3. \A i, j \in 1 .. Len(toWorker') : toWorker'[i] = toWorker'[j] => i = j
    BY <1>3, <1>5 DEF InvWorker, SentOnce
  <2> QED BY <2>1, <2>2, <2>3 DEF SentOnce
<1>8. AnswersInOrder' /\ OkIsStored'
  BY <1>1 DEF InvWorker, AnswersInOrder, OkIsStored, Stored, vars
<1> QED BY <1>2, <1>6, <1>7, <1>8 DEF InvWorker

LEMMA TakesUpInv ==
    ASSUME InvWorker, TakesUp
    PROVE  InvWorker'
<1> DEFINE t == Head(toWorker)
<1>1. /\ toWorker \in Seq(Task) /\ toWorker # <<>>
      /\ Add(t) /\ toWorker' = Tail(toWorker)
      /\ UNCHANGED <<promises, responseHandlers, toMain, responses, received, worker, errors>>
  BY DEF TakesUp, NextCall, InvWorker, TypeOKWorker
<1>2. /\ t = toWorker[1] /\ t \in Task /\ 1 \in 1 .. Len(toWorker)
      /\ toWorker' \in Seq(Task)
      /\ \A i \in 1 .. Len(toWorker') :
            /\ i \in Nat /\ i + 1 \in 1 .. Len(toWorker) /\ i + 1 # 1
            /\ toWorker'[i] = toWorker[i + 1] /\ toWorker'[i] \in Task
  BY <1>1
<1> HIDE DEF t
<1>3. InvQueue'
  BY <1>1, <1>2, AddInv DEF InvWorker
<1>4. /\ seen' = seen /\ storage' = storage /\ settled' = settled
      /\ phase'[t] \in {"scheduled", "pending"} /\ promises[t] # "none"
      /\ \A u \in Task \ {t} : phase'[u] = phase[u]
  BY <1>1, <1>2 DEF Add, Enqueue, InvWorker, InvQueue, TypeOK, SentOnce
<1>5. TypeOKWorker'
  BY <1>1, <1>2, <1>4 DEF InvWorker, TypeOKWorker
<1>6. SentOnce'
  <2>1. \A u \in Task : promises'[u] = "none" => phase'[u] = "uncalled"
    BY <1>1, <1>4 DEF InvWorker, SentOnce
  <2>2. \A i \in 1 .. Len(toWorker') :
            phase'[toWorker'[i]] = "uncalled" /\ promises'[toWorker'[i]] # "none"
    BY <1>1, <1>2, <1>4 DEF InvWorker, SentOnce
  <2>3. \A i, j \in 1 .. Len(toWorker') : toWorker'[i] = toWorker'[j] => i + 1 = j + 1
    BY <1>2 DEF InvWorker, SentOnce
  <2> QED BY <1>2, <2>1, <2>2, <2>3 DEF SentOnce
<1>7. AnswersInOrder'
  BY <1>1, <1>4 DEF InvWorker, AnswersInOrder
<1>8. OkIsStored'
  BY <1>1, <1>4 DEF InvWorker, OkIsStored, Stored
<1> QED BY <1>3, <1>5, <1>6, <1>7, <1>8 DEF InvWorker

\* What is in storage stays there: a handler writes back what it read, which is
\* still all there is, and its own effect.
LEMMA StorageKeeps ==
    ASSUME InvQueue, NEW t \in Task, Begin(t) \/ Resolve(t) \/ Reject(t) \/ Complete(t)
    PROVE  /\ \A u \in Task : u \in Stored => u \in Stored'
           /\ Resolve(t) => t \in Stored'
<1>1. storage \in Seq(Task)
  BY DEF InvQueue, TypeOK
<1>2. CASE storage' = Append(seen[t], t) /\ (Resolve(t) \/ Reject(t))
  <2>1. storage' = Append(storage, t)
    BY <1>2 DEF Resolve, Reject, InvQueue, WhatWasReadHolds
  <2>2. /\ Len(storage') = Len(storage) + 1 /\ Len(storage) \in Nat
        /\ \A i \in 1 .. Len(storage) : storage'[i] = storage[i] /\ i \in 1 .. Len(storage')
        /\ storage'[Len(storage) + 1] = t /\ Len(storage) + 1 \in 1 .. Len(storage')
    BY <1>1, <2>1, AppendIs
  <2> QED BY <2>2 DEF Stored
<1>3. CASE storage' = storage /\ ~Resolve(t)
  BY <1>3 DEF Stored
<1> QED BY <1>2, <1>3 DEF Begin, Resolve, Reject, Complete

LEMMA RunsInv ==
    ASSUME InvWorker, NEW t \in Task, Runs(t)
    PROVE  InvWorker'
<1>1. /\ Begin(t) \/ Resolve(t) \/ Reject(t) \/ Complete(t)
      /\ UNCHANGED workerVars
  BY DEF Runs
<1>2. InvQueue'
  BY <1>1, HandlerInv, CompleteInv DEF InvWorker
<1>3. \A u \in Task : u \in Stored => u \in Stored'
  BY <1>1, StorageKeeps DEF InvWorker
<1>4. phase[t] # "uncalled" /\ \A u \in Task : phase[u] = "uncalled" => phase'[u] = "uncalled"
  <2>1. CASE Complete(t) /\ pendingTasks # <<>>
    <3>1. Head(pendingTasks) \in Task /\ phase[Head(pendingTasks)] = "pending"
      BY <2>1, TailWaits DEF InvWorker, InvQueue, TypeOK
    <3> QED BY <2>1, <3>1 DEF Complete, StartPendingTask, InvWorker, InvQueue, TypeOK
  <2>2. CASE Complete(t) /\ pendingTasks = <<>>
    BY <2>2 DEF Complete, StartPendingTask, InvWorker, InvQueue, TypeOK
  <2>3. CASE Begin(t) \/ Resolve(t) \/ Reject(t)
    BY <2>3 DEF Begin, Resolve, Reject, InvWorker, InvQueue, TypeOK
  <2> QED BY <1>1, <2>1, <2>2, <2>3
<1>5. SentOnce'
  BY <1>1, <1>4 DEF InvWorker, SentOnce, workerVars, TypeOKWorker
<1>6. \A u \in Task : phase'[u] = "resolved" => u \in Stored'
  <2>1. CASE Resolve(t)
    <3>1. t \in Stored' /\ \A u \in Task \ {t} : phase'[u] = phase[u]
      BY <2>1, StorageKeeps DEF Resolve, InvWorker, InvQueue, TypeOK
    <3> QED BY <1>3, <3>1 DEF InvWorker, OkIsStored
  <2>2. CASE ~Resolve(t)
    <3>1. \A u \in Task : phase'[u] = "resolved" => phase[u] = "resolved"
      <4>1. pendingTasks # <<>> => Head(pendingTasks) \in Task
        BY TailWaits DEF InvWorker, InvQueue, TypeOK
      <4> QED BY <1>1, <2>2, <4>1
              DEF Begin, Reject, Complete, StartPendingTask, InvWorker, InvQueue, TypeOK
    <3> QED BY <1>3, <3>1 DEF InvWorker, OkIsStored
  <2> QED BY <2>1, <2>2
<1> DEFINE Answer == [task : Task, ok : BOOLEAN]
<1>7. \/ settled' = settled
      \/ settled' = Append(settled, Outcome(t)) /\ Outcome(t) \in Answer
         /\ Outcome(t).task = t /\ (Outcome(t).ok => phase[t] = "resolved")
  BY <1>1 DEF Begin, Resolve, Reject, Complete, Outcome
<1>8. settled \in Seq(Answer)
  BY DEF InvWorker, InvQueue, TypeOK
<1>9. \A o \in Answer : o.task \in Task
  OBVIOUS
<1> HIDE DEF Answer
<1>10. /\ Len(settled) \in Nat /\ Len(settled') \in Nat /\ Len(settled) <= Len(settled')
       /\ \A i \in 1 .. Len(settled) : settled'[i] = settled[i] /\ settled[i].task \in Task
       /\ \A i \in 1 .. Len(settled') :
             \/ i \in 1 .. Len(settled)
             \/ settled'[i] = Outcome(t) /\ Outcome(t).task = t
                /\ (Outcome(t).ok => phase[t] = "resolved")
  <2>1. CASE settled' = settled
    <3>1. \A i \in 1 .. Len(settled) : settled[i] \in Answer
      BY <1>8
    <3> QED BY <1>8, <1>9, <2>1, <3>1
  <2>2. CASE settled' # settled
    <3>1. /\ Len(settled') = Len(settled) + 1 /\ Len(settled) \in Nat
          /\ \A i \in 1 .. Len(settled) : settled'[i] = settled[i] /\ settled[i] \in Answer
          /\ settled'[Len(settled) + 1] = Outcome(t)
      BY <1>7, <1>8, <2>2, AppendIs
    <3>2. \A i \in 1 .. Len(settled') : i \in 1 .. Len(settled) \/ i = Len(settled) + 1
      BY <3>1
    <3> QED BY <1>7, <1>9, <2>2, <3>1, <3>2
  <2> QED BY <2>1, <2>2
<1>11. TypeOKWorker'
  BY <1>1, <1>10 DEF InvWorker, TypeOKWorker, workerVars
<1>12. AnswersInOrder'
  <2>1. \A i \in 1 .. Len(toMain) : received + i \in 1 .. Len(settled)
    BY <1>10 DEF InvWorker, TypeOKWorker, AnswersInOrder
  <2> QED BY <1>1, <1>10, <2>1 DEF InvWorker, AnswersInOrder, workerVars
<1>13. OkIsStored'
  <2>1. \A i \in 1 .. Len(settled') : settled'[i].ok => settled'[i].task \in Stored'
    <3> SUFFICES ASSUME NEW i \in 1 .. Len(settled'), settled'[i].ok
                 PROVE  settled'[i].task \in Stored'
      OBVIOUS
    <3>1. CASE i \in 1 .. Len(settled)
      BY <1>3, <1>10, <3>1 DEF InvWorker, OkIsStored
    <3>2. CASE settled'[i] = Outcome(t) /\ Outcome(t).task = t /\ phase[t] = "resolved"
      BY <1>3, <3>2 DEF InvWorker, OkIsStored
    <3> QED BY <1>10, <3>1, <3>2
  <2>2. \A u \in Task : promises'[u] = "resolved" => u \in Stored'
    BY <1>1, <1>3 DEF InvWorker, OkIsStored, workerVars
  <2> QED BY <1>6, <2>1, <2>2 DEF OkIsStored
<1> QED BY <1>2, <1>5, <1>11, <1>12, <1>13 DEF InvWorker

LEMMA RespondInv ==
    ASSUME InvWorker, Respond
    PROVE  InvWorker'
<1> DEFINE Response == [token : Task, ok : BOOLEAN]
           outcome == settled[responses + 1]
<1>1. /\ responses < Len(settled) /\ responses' = responses + 1
      /\ UNCHANGED <<vars, promises, responseHandlers, toWorker, received, worker, errors>>
  BY DEF Respond
<1>2. /\ responses \in Nat /\ received \in Nat /\ received <= responses /\ Len(settled) \in Nat
      /\ toMain \in Seq(Response) /\ Len(toMain) \in Nat
      /\ outcome \in [task : Task, ok : BOOLEAN]
  <2>1. settled \in Seq([task : Task, ok : BOOLEAN])
    BY DEF InvWorker, InvQueue, TypeOK
  <2>2. responses \in Nat /\ received \in Nat /\ received <= responses /\ Len(settled) \in Nat
    BY <2>1 DEF InvWorker, TypeOKWorker
  <2>3. toMain \in Seq(Response) /\ Len(toMain) \in Nat
    BY DEF InvWorker, TypeOKWorker
  <2>4. outcome \in [task : Task, ok : BOOLEAN]
    <3>1. responses + 1 \in 1 .. Len(settled)
      BY <1>1, <2>2
    <3> DEFINE Answer == [task : Task, ok : BOOLEAN]
    <3>2. settled \in Seq(Answer)
      BY <2>1
    <3> HIDE DEF Answer
    <3>3. outcome \in Answer
      BY <3>1, <3>2
    <3> QED BY <3>3 DEF Answer
  <2> QED BY <2>2, <2>3, <2>4
<1>3. PICK ok \in BOOLEAN :
          /\ toMain' = Append(toMain, [token |-> outcome.task, ok |-> ok])
          /\ ok => outcome.ok
  <2>1. outcome.ok \in BOOLEAN /\ outcome = settled[responses + 1]
    BY <1>2
  <2>2. PICK ok \in {outcome.ok, FALSE} :
            toMain' = Append(toMain, [token |-> outcome.task, ok |-> ok])
    BY DEF Respond
  <2>3. ok \in BOOLEAN /\ (ok => outcome.ok)
    BY <2>1
  <2> QED BY <2>2, <2>3
<1> DEFINE answer == [token |-> outcome.task, ok |-> ok]
<1>4. answer \in Response /\ answer.token = outcome.task /\ answer.ok = ok
  BY <1>2
<1> HIDE DEF Response, answer
<1>5. /\ toMain' \in Seq(Response) /\ Len(toMain') = Len(toMain) + 1
      /\ \A i \in 1 .. Len(toMain) : toMain'[i] = toMain[i]
      /\ toMain'[Len(toMain) + 1] = answer
  BY <1>2, <1>3, <1>4, AppendIs DEF answer
<1>6. InvQueue'
  BY <1>1, NextQueue DEF InvWorker
<1>7. TypeOKWorker'
  BY <1>1, <1>2, <1>5 DEF InvWorker, TypeOKWorker, vars, Response
<1>8. AnswersInOrder'
  <2>1. Len(toMain) = responses - received /\ received' = received /\ settled' = settled
    BY <1>1 DEF InvWorker, AnswersInOrder, vars
  <2>2. \A i \in 1 .. Len(toMain') : i \in 1 .. Len(toMain) \/ i = Len(toMain) + 1
    BY <1>2, <1>5
  <2>3. \A i \in 1 .. Len(toMain) :
            /\ toMain'[i].token = settled'[received' + i].task
            /\ toMain'[i].ok => settled'[received' + i].ok
    BY <1>5, <2>1 DEF InvWorker, AnswersInOrder
  <2>4. received' + (Len(toMain) + 1) = responses + 1
    BY <1>2, <2>1
  <2>5. /\ toMain'[Len(toMain) + 1].token = settled'[received' + (Len(toMain) + 1)].task
        /\ toMain'[Len(toMain) + 1].ok => settled'[received' + (Len(toMain) + 1)].ok
    BY <1>3, <1>4, <1>5, <2>1, <2>4
  <2> QED BY <1>1, <1>2, <1>5, <2>1, <2>2, <2>3, <2>5 DEF AnswersInOrder
<1>9. SentOnce' /\ OkIsStored'
  BY <1>1 DEF InvWorker, SentOnce, OkIsStored, Stored, vars
<1> QED BY <1>6, <1>7, <1>8, <1>9 DEF InvWorker

\* The caller is told of its own operation, if it still waits.
LEMMA ReceiveInv ==
    ASSUME InvWorker, Receive
    PROVE  InvWorker'
<1> DEFINE Response == [token : Task, ok : BOOLEAN]
           answer == Head(toMain)
<1>1. /\ toMain # <<>> /\ toMain' = Tail(toMain) /\ received' = received + 1
      /\ promises' = [t \in Task |->
             IF t \in HandlerOf(answer) /\ promises[t] = "pending"
             THEN IF answer.ok THEN "resolved" ELSE "rejected"
             ELSE promises[t]]
      /\ responseHandlers' = responseHandlers \ HandlerOf(answer)
      /\ UNCHANGED <<vars, toWorker, responses, worker, errors>>
  BY DEF Receive, AfterFirst
<1>2. /\ responses \in Nat /\ received \in Nat /\ received <= responses /\ Len(settled) \in Nat
      /\ toMain \in Seq(Response) /\ Len(toMain) = responses - received
  BY DEF InvWorker, InvQueue, TypeOK, TypeOKWorker, AnswersInOrder
<1> HIDE DEF Response
<1>3. /\ toMain' \in Seq(Response) /\ Len(toMain') = Len(toMain) - 1 /\ Len(toMain) > 0
      /\ \A i \in 1 .. Len(toMain') : toMain'[i] = toMain[i + 1] /\ i + 1 \in 1 .. Len(toMain)
      /\ answer = toMain[1] /\ 1 \in 1 .. Len(toMain) /\ answer \in Response
  BY <1>1, <1>2
<1>4. /\ answer.token = settled[received + 1].task
      /\ answer.ok => settled[received + 1].ok
      /\ received + 1 \in 1 .. Len(settled)
  BY <1>2, <1>3 DEF InvWorker, AnswersInOrder, TypeOKWorker
<1>5. InvQueue'
  BY <1>1, NextQueue DEF InvWorker
<1>6. TypeOKWorker'
  BY <1>1, <1>2, <1>3 DEF InvWorker, TypeOKWorker, vars, Response
<1>7. SentOnce'
  <2>1. \A u \in Task : promises'[u] = "none" <=> promises[u] = "none"
    BY <1>1
  <2>2. \A i \in 1 .. Len(toWorker) : toWorker[i] \in Task
    BY DEF InvWorker, TypeOKWorker
  <2> QED BY <1>1, <2>1, <2>2 DEF InvWorker, SentOnce, vars
<1>8. AnswersInOrder'
  <2> SUFFICES ASSUME NEW i \in 1 .. Len(toMain')
               PROVE  /\ toMain'[i].token = settled'[received' + i].task
                      /\ toMain'[i].ok => settled'[received' + i].ok
    BY <1>1, <1>2, <1>3 DEF AnswersInOrder
  <2>1. received' + i = received + (i + 1) /\ settled' = settled
    BY <1>1, <1>2, <1>3 DEF vars
  <2>2. toMain'[i] = toMain[i + 1] /\ i + 1 \in 1 .. Len(toMain)
    BY <1>3
  <2> QED BY <2>1, <2>2 DEF InvWorker, AnswersInOrder
<1>9. OkIsStored'
  <2>1. \A u \in Task : u \in Stored' <=> u \in Stored
    BY <1>1 DEF Stored, vars
  <2>2. \A u \in Task : promises'[u] = "resolved" => u \in Stored
    BY <1>1, <1>4 DEF HandlerOf, InvWorker, OkIsStored
  <2>3. \A i \in 1 .. Len(settled) : settled[i].ok => settled[i].task \in Stored'
    BY <1>1 DEF InvWorker, OkIsStored, Stored, vars
  <2> QED BY <1>1, <2>1, <2>2, <2>3 DEF InvWorker, OkIsStored, vars
<1> QED BY <1>5, <1>6, <1>7, <1>8, <1>9 DEF InvWorker

LEMMA AbortInv ==
    ASSUME InvWorker, ErrorEvent \/ WorkerError \/ WorkerExit
    PROVE  InvWorker'
<1>1. /\ UNCHANGED <<vars, toWorker, toMain, responses, received>>
      /\ responseHandlers' \subseteq Task
      /\ promises' \in [Task -> {"none", "pending", "resolved", "rejected"}]
      /\ \A u \in Task : promises'[u] \in {promises[u], "rejected"}
      /\ \A u \in Task : promises'[u] = "none" <=> promises[u] = "none"
      /\ worker' \in {"runs", "exited"} /\ errors' \in [raised : BOOLEAN, handled : BOOLEAN]
  <2> USE DEF InvWorker, TypeOKWorker
  <2>1. CASE ErrorEvent
    BY <2>1 DEF ErrorEvent, AllRejected
  <2>2. CASE WorkerError
    BY <2>2 DEF WorkerError
  <2>3. CASE WorkerExit
    BY <2>3 DEF WorkerExit
  <2> QED BY <2>1, <2>2, <2>3
<1>2. InvQueue'
  BY <1>1, NextQueue DEF InvWorker
<1>3. TypeOKWorker'
  BY <1>1 DEF InvWorker, TypeOKWorker, vars
<1>4. SentOnce'
  <2>1. \A i \in 1 .. Len(toWorker) : toWorker[i] \in Task
    BY DEF InvWorker, TypeOKWorker
  <2> QED BY <1>1, <2>1 DEF InvWorker, SentOnce, vars
<1>5. AnswersInOrder' /\ OkIsStored'
  BY <1>1 DEF InvWorker, AnswersInOrder, OkIsStored, Stored, vars
<1> QED BY <1>2, <1>3, <1>4, <1>5 DEF InvWorker

LEMMA NextInvWorker == InvWorker /\ [NextWorker]_allVars => InvWorker'
<1> SUFFICES ASSUME InvWorker, [NextWorker]_allVars PROVE InvWorker'
  OBVIOUS
<1>1. CASE UNCHANGED allVars
  <2>1. InvQueue'
    BY <1>1, NextQueue DEF InvWorker, allVars
  <2> QED BY <1>1, <2>1 DEF allVars, vars, workerVars, InvWorker, TypeOKWorker, SentOnce,
                        AnswersInOrder, OkIsStored, Stored
<1>2. CASE NextWorker
  BY <1>2, ExecInv, RunsInv, TakesUpInv, RespondInv, ReceiveInv, AbortInv DEF NextWorker
<1> QED BY <1>1, <1>2

\* Each response in the channel to the main program is of a call, and the worker
\* has sent no more of them than operations have settled.
THEOREM WorkerTypeCorrect == SpecWorker => [](TypeOK /\ TypeOKWorker)
<1>1. InvWorker => TypeOK /\ TypeOKWorker
  BY DEF InvWorker, InvQueue
<1> QED BY <1>1, InitInvWorker, NextInvWorker, PTL DEF SpecWorker

\* However messages, aborts and the end of the worker fall between its steps, the
\* operations in the worker run one at a time.
THEOREM WorkerMutualExclusion == SpecWorker => []OneAtATime
<1>1. InvWorker => OneAtATime
  BY DEF InvWorker, InvQueue
<1> QED BY <1>1, InitInvWorker, NextInvWorker, PTL DEF SpecWorker

\* Whoever is told that a call succeeded finds its effect in storage, although
\* other calls were aborted while their responses were under way.
THEOREM AnsweredIsStored == SpecWorker => []ResolvedIsStored
<1>1. InvWorker => ResolvedIsStored
  <2> SUFFICES ASSUME InvWorker PROVE ResolvedIsStored
    OBVIOUS
  <2>1. DOMAIN storage = 1 .. Len(storage)
    BY DEF InvWorker, InvQueue, TypeOK
  <2> QED BY <2>1 DEF InvWorker, OkIsStored, Stored, ResolvedIsStored
<1> QED BY <1>1, InitInvWorker, NextInvWorker, PTL DEF SpecWorker

\* In a worker, too, the queue executes the calls in the order it takes them up,
\* each in a single step.
THEOREM WorkerQueueRefinement == SpecWorker => ImplementsOperationQueue
<1>1. InitWorker => Dispatcher!Init
  BY InitRefines DEF InitWorker
<1>2. InvWorker /\ InvWorker' /\ [NextWorker]_allVars => [Dispatcher!Next]_(Dispatcher!vars)
  BY StepRefines, WorkerStepOfQueue DEF InvWorker
<1> QED BY <1>1, <1>2, InitInvWorker, NextInvWorker, PTL
        DEF SpecWorker, ImplementsOperationQueue, Dispatcher!Spec

-----------------------------------------------------------------------------
(***************************************************************************)
(* The refinement, seen from the main program: a call that is still a      *)
(* message waits behind those in the queue, and an outcome is given back   *)
(* when its response is received.                                          *)
(***************************************************************************)
LEMMA CallsAreTasks == InvQueue => Calls \in Seq(Task)
<1> SUFFICES ASSUME InvQueue PROVE Calls \in Seq(Task)
  OBVIOUS
<1>1. pendingTasks \in Seq(Task)
  BY DEF InvQueue, TypeOK
<1>2. Executing # {} => The(Executing) \in Task
  BY DEF The, Executing
<1> QED BY <1>1, <1>2, CallFirst DEF Calls

\* Calls that are under way behind those in the queue.
LEMMA Behind ==
    ASSUME NEW a \in Seq(Task), NEW b \in Seq(Task)
    PROVE  /\ \A t \in Task : a \o Append(b, t) = Append(a \o b, t)
           /\ b # <<>> => Append(a, Head(b)) \o Tail(b) = a \o b
           /\ a # <<>> => a \o b # <<>> /\ Head(a \o b) = Head(a) /\ Tail(a \o b) = Tail(a) \o b
           /\ \A i \in 1 .. Len(a \o b) :
                 \/ \E j \in 1 .. Len(a) : (a \o b)[i] = a[j]
                 \/ \E j \in 1 .. Len(b) : (a \o b)[i] = b[j]
<1>1. b # <<>> => Append(a, Head(b)) \o Tail(b) = a \o b
  OBVIOUS
<1>2. a # <<>> => a \o b # <<>> /\ Head(a \o b) = Head(a) /\ Tail(a \o b) = Tail(a) \o b
  OBVIOUS
<1>3. \A t \in Task : a \o Append(b, t) = Append(a \o b, t)
  OBVIOUS
<1>4. \A i \in 1 .. Len(a \o b) :
          \/ \E j \in 1 .. Len(a) : (a \o b)[i] = a[j]
          \/ \E j \in 1 .. Len(b) : (a \o b)[i] = b[j]
  <2> SUFFICES ASSUME NEW i \in 1 .. Len(a \o b), i \notin 1 .. Len(a)
               PROVE  \E j \in 1 .. Len(b) : (a \o b)[i] = b[j]
    OBVIOUS
  <2>1. i - Len(a) \in 1 .. Len(b) /\ (a \o b)[i] = b[i - Len(a)]
    OBVIOUS
  <2> QED BY <2>1
<1> QED BY <1>1, <1>2, <1>3, <1>4

LEMMA QueueUnmoved ==
    ASSUME UNCHANGED vars
    PROVE  Calls' = Calls /\ Outcomes' = Outcomes /\ storage' = storage
  BY DEF vars, Calls, Outcomes, Outcome, Executing, Executed, The

LEMMA ExecCalls ==
    ASSUME InvWorker, NEW t \in Task, Exec(t)
    PROVE  Remote!Call(t) \/ UNCHANGED Remote!vars
<1>1. Calls' = Calls /\ Outcomes' = Outcomes /\ storage' = storage /\ received' = received
  BY QueueUnmoved DEF Exec
<1>2. CASE toWorker' = toWorker
  BY <1>1, <1>2 DEF Remote!vars
<1>3. CASE toWorker' = Append(toWorker, t)
  <2>1. promises[t] = "none" /\ phase[t] = "uncalled"
    BY DEF Exec, InvWorker, SentOnce
  <2>2. /\ \A i \in 1 .. Len(Calls) : Calls[i] # t
        /\ \A i \in 1 .. Len(Outcomes) : Outcomes[i].task # t
    BY <2>1, NotCalledYet DEF InvWorker
  <2>3. \A i \in 1 .. Len(toWorker) : toWorker[i] # t
    BY <2>1 DEF InvWorker, SentOnce
  <2>4. Calls \in Seq(Task) /\ toWorker \in Seq(Task)
    BY CallsAreTasks DEF InvWorker, TypeOKWorker
  <2>5. /\ Calls \o Append(toWorker, t) = Append(Calls \o toWorker, t)
        /\ \A i \in 1 .. Len(Calls \o toWorker) : (Calls \o toWorker)[i] # t
    BY <2>2, <2>3, <2>4, Behind
  <2> QED BY <1>1, <1>3, <2>2, <2>5 DEF Remote!Call
<1> QED BY <1>2, <1>3 DEF Exec

LEMMA TakesUpStutters ==
    ASSUME InvWorker, InvWorker', TakesUp
    PROVE  UNCHANGED Remote!vars
<1> DEFINE t == Head(toWorker)
<1>1. /\ toWorker \in Seq(Task) /\ toWorker # <<>> /\ t \in Task
      /\ Add(t) /\ toWorker' = Tail(toWorker) /\ received' = received
  BY DEF TakesUp, NextCall, InvWorker, TypeOKWorker
<1>2. Dispatcher!Call(t)
  BY <1>1, AddCalls DEF InvWorker
<1>3. Calls' = Append(Calls, t) /\ Outcomes' = Outcomes /\ storage' = storage
  BY <1>2 DEF Dispatcher!Call
<1>4. Append(Calls, t) \o Tail(toWorker) = Calls \o toWorker
  BY <1>1, Behind, CallsAreTasks DEF InvWorker
<1> QED BY <1>1, <1>3, <1>4 DEF Remote!vars

LEMMA RunsExecutes ==
    ASSUME InvWorker, InvWorker', NEW t \in Task, Runs(t)
    PROVE  (\E ok \in BOOLEAN : Remote!Execute(ok)) \/ UNCHANGED Remote!vars
<1>1. /\ Begin(t) \/ Resolve(t) \/ Reject(t) \/ Complete(t)
      /\ toWorker' = toWorker /\ received' = received
      /\ InvQueue /\ InvQueue'
  BY DEF Runs, workerVars, InvWorker
<1>2. CASE Begin(t)
  <2>1. UNCHANGED Dispatcher!vars
    BY <1>1, <1>2, BeginStutters
  <2> QED BY <1>1, <2>1 DEF Dispatcher!vars, Remote!vars
<1>3. CASE Complete(t)
  <2>1. Dispatcher!Reply
    BY <1>1, <1>3, CompleteReplies
  <2> QED BY <1>1, <2>1 DEF Dispatcher!Reply, Remote!vars
<1>4. CASE Resolve(t) \/ Reject(t)
  <2>1. PICK ok \in BOOLEAN : Dispatcher!Execute(ok)
    BY <1>1, <1>4, SettlingExecutes
  <2>2. Calls \in Seq(Task) /\ toWorker \in Seq(Task)
    BY CallsAreTasks DEF InvWorker, TypeOKWorker
  <2>3. /\ Calls # <<>> /\ Calls' = Tail(Calls)
        /\ Outcomes' = Append(Outcomes, [task |-> Head(Calls), ok |-> ok])
        /\ storage' = Append(storage, Head(Calls)) \/ (~ok /\ storage' = storage)
    BY <2>1 DEF Dispatcher!Execute
  <2>4. /\ Calls \o toWorker # <<>> /\ Head(Calls \o toWorker) = Head(Calls)
        /\ Tail(Calls \o toWorker) = Tail(Calls) \o toWorker
    BY <2>2, <2>3, Behind
  <2>5. Remote!Execute(ok)
    BY <1>1, <2>3, <2>4 DEF Remote!Execute
  <2> QED BY <2>5
<1> QED BY <1>1, <1>2, <1>3, <1>4

LEMMA ReceiveReplies ==
    ASSUME InvWorker, Receive
    PROVE  Remote!Reply
<1>1. /\ toMain # <<>> /\ received' = received + 1 /\ toWorker' = toWorker
      /\ Calls' = Calls /\ Outcomes' = Outcomes /\ storage' = storage
  BY QueueUnmoved DEF Receive
<1>2. Len(toMain) = responses - received /\ Len(toMain) \in Nat /\ Len(toMain) # 0
  BY <1>1 DEF InvWorker, AnswersInOrder, TypeOKWorker
<1>3. settled \in Seq([task : Task, ok : BOOLEAN]) /\ Len(settled) \in Nat
  BY DEF InvWorker, InvQueue, TypeOK
<1>4. received < Len(settled)
  BY <1>2, <1>3 DEF InvWorker, TypeOKWorker
<1>5. Len(Outcomes) \in Nat /\ Len(settled) <= Len(Outcomes)
  <2>1. CASE Executed = {}
    BY <1>3, <2>1 DEF Outcomes
  <2>2. CASE Executed # {}
    <3>1. Outcome(The(Executed)) \in [task : Task, ok : BOOLEAN]
      BY <2>2 DEF The, Executed, Outcome
    <3> QED BY <1>3, <2>2, <3>1, AppendIs DEF Outcomes
  <2> QED BY <2>1, <2>2
<1>6. received < Len(Outcomes)
  BY <1>3, <1>4, <1>5 DEF InvWorker, TypeOKWorker
<1> QED BY <1>1, <1>6 DEF Remote!Reply

\* The main program's dispatcher over messages to a worker is the same abstract
\* queue: operations are executed one by one, each in a single step, in the order
\* exec was called, and what is received are their outcomes in that order; a call
\* is in the channel or in the worker's queue, never lost between the two.
THEOREM RemoteRefinement == SpecWorker => ImplementsRemotely
<1>1. InitWorker => Remote!Init
  <2> SUFFICES ASSUME InitWorker PROVE Remote!Init
    OBVIOUS
  <2>1. Dispatcher!Init
    BY InitRefines DEF InitWorker
  <2>2. Calls \o toWorker = <<>>
    BY <2>1 DEF Dispatcher!Init, InitWorker
  <2> QED BY <2>1, <2>2 DEF Dispatcher!Init, Remote!Init, InitWorker
<1>2. InvWorker /\ InvWorker' /\ [NextWorker]_allVars => [Remote!Next]_(Remote!vars)
  <2> SUFFICES ASSUME InvWorker, InvWorker', [NextWorker]_allVars
               PROVE  Remote!Next \/ UNCHANGED Remote!vars
    OBVIOUS
  <2>1. CASE UNCHANGED allVars
    BY <2>1, QueueUnmoved DEF allVars, workerVars, Remote!vars
  <2>2. ASSUME NEW t \in Task, Exec(t) PROVE Remote!Next \/ UNCHANGED Remote!vars
    BY <2>2, ExecCalls DEF Remote!Next
  <2>3. ASSUME NEW t \in Task, Runs(t) PROVE Remote!Next \/ UNCHANGED Remote!vars
    BY <2>3, RunsExecutes DEF Remote!Next
  <2>4. CASE TakesUp
    BY <2>4, TakesUpStutters
  <2>5. CASE Receive
    BY <2>5, ReceiveReplies DEF Remote!Next
  <2>6. CASE Respond \/ ErrorEvent \/ WorkerError \/ WorkerExit
    BY <2>6, QueueUnmoved DEF Respond, ErrorEvent, WorkerError, WorkerExit, Remote!vars
  <2> QED BY <2>1, <2>2, <2>3, <2>4, <2>5, <2>6 DEF NextWorker
<1> QED BY <1>1, <1>2, InitInvWorker, NextInvWorker, PTL
        DEF SpecWorker, ImplementsRemotely, Remote!Spec
=============================================================================
