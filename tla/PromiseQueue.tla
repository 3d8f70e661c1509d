---------------------------- MODULE PromiseQueue ----------------------------
(***************************************************************************)
(* SerializingMethodDispatcher over its PromiseQueue                       *)
(* (src/src/Library/Dispatcher/MethodDispatcher.ts,                        *)
(* src/src/Library/Scheduling/PromiseQueue.ts).  A task is one call of     *)
(* exec.  It goes from the queue to a microtask that calls the handler,    *)
(* the handler runs over several turns of the event loop, its promise      *)
(* settles, and a callback settles the caller's promise and starts the     *)
(* next task.  Between any two of these, other code may call exec.         *)
(*                                                                         *)
(* The handler stands for any operation that reads storage and, some turns *)
(* later, writes back what it makes of it.                                 *)
(***************************************************************************)
EXTENDS Sequences, Naturals

CONSTANT Task

VARIABLES pendingTasks, isIdle,
          phase,    \* where each task is
          seen,     \* what a running handler has read of storage
          storage,  \* the operations whose effect is in storage
          settled   \* the callers' promises that were settled, in order

vars == <<pendingTasks, isIdle, phase, seen, storage, settled>>

Phase == {"uncalled", "pending", "scheduled", "running", "resolved", "rejected", "settled"}

\* Started by the queue, and its caller not answered yet.
Active(t) == phase[t] \in {"scheduled", "running", "resolved", "rejected"}

Init ==
    /\ pendingTasks = <<>>
    /\ isIdle = TRUE
    /\ phase = [t \in Task |-> "uncalled"]
    /\ seen = [t \in Task |-> <<>>]
    /\ storage = <<>>
    /\ settled = <<>>

\* add: start the task if nothing is running, or put it in the queue.
\* startPromiseFunc's own catch is never entered: the starter it calls only
\* makes a promise.
AddWhileBusy(t) ==  \* mutant: isIdle is left as it was
    /\ phase' = [phase EXCEPT ![t] = IF isIdle THEN "scheduled" ELSE "pending"]
    /\ pendingTasks' = IF isIdle THEN pendingTasks ELSE Append(pendingTasks, t)
    /\ UNCHANGED isIdle

Enqueue(t) ==
    /\ phase' = [phase EXCEPT ![t] = IF isIdle THEN "scheduled" ELSE "pending"]
    /\ pendingTasks' = IF isIdle THEN pendingTasks ELSE Append(pendingTasks, t)
    /\ isIdle' = FALSE

Add(t) ==
    /\ phase[t] = "uncalled"
    /\ Enqueue(t)
    /\ UNCHANGED <<seen, storage, settled>>

\* The microtask calls the handler, which reads storage.
Begin(t) ==
    /\ phase[t] = "scheduled"
    /\ phase' = [phase EXCEPT ![t] = "running"]
    /\ seen' = [seen EXCEPT ![t] = storage]
    /\ UNCHANGED <<pendingTasks, isIdle, storage, settled>>

Resolve(t) ==
    /\ phase[t] = "running"
    /\ phase' = [phase EXCEPT ![t] = "resolved"]
    /\ storage' = Append(seen[t], t)
    /\ UNCHANGED <<pendingTasks, isIdle, seen, settled>>

\* The handler throws, before it writes or between its writes (ResetFails of
\* LocalDBOperations), or there is no handler of that name.
Reject(t) ==
    /\ phase[t] = "running"
    /\ phase' = [phase EXCEPT ![t] = "rejected"]
    /\ storage' \in {storage, Append(seen[t], t)}
    /\ UNCHANGED <<pendingTasks, isIdle, seen, settled>>

\* startPendingTask
Peek(t) ==  \* mutant: the next task stays in the queue
    IF pendingTasks = <<>>
    THEN /\ isIdle' = TRUE
         /\ phase' = [phase EXCEPT ![t] = "settled"]
         /\ UNCHANGED pendingTasks
    ELSE /\ phase' = [phase EXCEPT ![t] = "settled", ![Head(pendingTasks)] = "scheduled"]
         /\ UNCHANGED <<isIdle, pendingTasks>>

StartNewest(t) ==  \* mutant: the task that waits shortest
    IF pendingTasks = <<>>
    THEN /\ isIdle' = TRUE
         /\ phase' = [phase EXCEPT ![t] = "settled"]
         /\ UNCHANGED pendingTasks
    ELSE /\ phase' = [phase EXCEPT ![t] = "settled",
                                   ![pendingTasks[Len(pendingTasks)]] = "scheduled"]
         /\ pendingTasks' = SubSeq(pendingTasks, 1, Len(pendingTasks) - 1)
         /\ UNCHANGED isIdle

StartPendingTask(t) ==
    IF pendingTasks = <<>>
    THEN /\ isIdle' = TRUE
         /\ phase' = [phase EXCEPT ![t] = "settled"]
         /\ UNCHANGED pendingTasks
    ELSE /\ phase' = [phase EXCEPT ![t] = "settled", ![Head(pendingTasks)] = "scheduled"]
         /\ pendingTasks' = Tail(pendingTasks)
         /\ UNCHANGED isIdle

\* What the caller of t is told.
Outcome(t) == [task |-> t, ok |-> phase[t] = "resolved"]

\* The callback of the task's promise.
Complete(t) ==
    /\ phase[t] \in {"resolved", "rejected"}
    /\ settled' = Append(settled, Outcome(t))
    /\ StartPendingTask(t)
    /\ UNCHANGED <<seen, storage>>

Next == \E t \in Task : Add(t) \/ Begin(t) \/ Resolve(t) \/ Reject(t) \/ Complete(t)

(***************************************************************************)
(* Fairness.  Microtasks and promise callbacks run.  A handler settles:    *)
(* this is what the storage adapters owe the queue, and a request that is  *)
(* never answered blocks the database for good.                            *)
(***************************************************************************)
Spec ==
    /\ Init
    /\ [][Next]_vars
    /\ \A t \in Task : /\ WF_vars(Begin(t))
                       /\ WF_vars(Resolve(t) \/ Reject(t))
                       /\ WF_vars(Complete(t))

-----------------------------------------------------------------------------

TypeOK ==
    /\ pendingTasks \in Seq(Task)
    /\ \A i \in 1 .. Len(pendingTasks) : phase[pendingTasks[i]] = "pending"
    /\ \A i, j \in 1 .. Len(pendingTasks) : pendingTasks[i] = pendingTasks[j] => i = j
    /\ isIdle \in BOOLEAN
    /\ phase \in [Task -> Phase]
    /\ seen \in [Task -> Seq(Task)]
    /\ storage \in Seq(Task)
    /\ settled \in Seq([task : Task, ok : BOOLEAN])

\* No two operations are under way at once, however the calls of exec fall
\* between the microtasks that start and finish them: the flag isIdle says
\* "busy" from before a task is scheduled until after its caller is answered.
OneAtATime == \A t, u \in Task : Active(t) /\ Active(u) => t = u

\* The callers see operations executed one by one, in the order of their calls,
\* and none lost: the read and the write of a task count as a single step, taken
\* at the write.
Executing == {t \in Task : phase[t] \in {"scheduled", "running"}}
Executed  == {t \in Task : phase[t] \in {"resolved", "rejected"}}
The(S) == CHOOSE t \in S : TRUE

Calls == IF Executing = {} THEN pendingTasks ELSE <<The(Executing)>> \o pendingTasks
Outcomes == IF Executed = {} THEN settled ELSE Append(settled, Outcome(The(Executed)))

Dispatcher == INSTANCE OperationQueue WITH
    calls    <- Calls,
    executed <- Outcomes,
    replies  <- Len(settled)

ImplementsOperationQueue == Dispatcher!Spec
=============================================================================
