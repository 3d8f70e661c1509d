-------------------------- MODULE WorkerDispatcher --------------------------
(***************************************************************************)
(* The dispatcher when the operations run in a worker: the calls go to it  *)
(* as messages, each under a token, and the responses come back as         *)
(* messages (src/src/Library/Dispatcher/TokenizedDispatcher.ts,            *)
(* src/src/DB/LocalDB/Workers).  In the worker is the PromiseQueue of a    *)
(* database.  A task is a call and its token.                              *)
(***************************************************************************)
EXTENDS PromiseQueue

VARIABLES promises,         \* of exec, in the main program
          responseHandlers, \* the tokens that wait for a response
          toWorker, toMain, \* messages under way
          responses,        \* how many the worker has sent
          received,         \* how many the main program has received
          worker,           \* "runs", "exited"
          errors            \* "error" events, not handled yet and handled

workerVars == <<promises, responseHandlers, toWorker, toMain, responses, received, worker, errors>>
allVars == <<vars, workerVars>>

InitWorker ==
    /\ Init
    /\ promises = [t \in Task |-> "none"]
    /\ responseHandlers = {}
    /\ toWorker = <<>> /\ toMain = <<>>
    /\ responses = 0 /\ received = 0
    /\ worker = "runs"
    /\ errors = [raised |-> FALSE, handled |-> FALSE]

-----------------------------------------------------------------------------

\* exec: the handler of the response, then the message.
Exec(t) ==
    /\ promises[t] = "none"
    /\ responseHandlers' = responseHandlers \cup {t}
    /\ \/ /\ worker = "runs"
          /\ toWorker' = Append(toWorker, t)
          /\ promises' = [promises EXCEPT ![t] = "pending"]
          /\ UNCHANGED errors
       \/ /\ worker = "exited"   \* the channel is closed: an "error" event follows
          /\ errors' = [errors EXCEPT !.raised = TRUE]
          /\ promises' = [promises EXCEPT ![t] = "pending"]
          /\ UNCHANGED toWorker
       \/ /\ promises' = [promises EXCEPT ![t] = "rejected"]   \* the call cannot be encoded
          /\ UNCHANGED <<toWorker, errors>>
    /\ UNCHANGED <<vars, toMain, responses, received, worker>>

LatestCall == toWorker[Len(toWorker)]  \* mutant: the message that came last

NextCall == Head(toWorker)

\* The worker takes up a message, and adds the call to the queue.
TakesUp ==
    /\ worker = "runs" /\ toWorker # <<>>
    /\ Add(NextCall)
    /\ toWorker' = Tail(toWorker)
    /\ UNCHANGED <<promises, responseHandlers, toMain, responses, received, worker, errors>>

Runs(t) ==
    /\ worker = "runs"
    /\ Begin(t) \/ Resolve(t) \/ Reject(t) \/ Complete(t)
    /\ UNCHANGED workerVars

\* A result that cannot be sent goes out as an error.
Respond ==
    /\ worker = "runs" /\ responses < Len(settled)
    /\ \E ok \in {settled[responses + 1].ok, FALSE} :
          toMain' = Append(toMain, [token |-> settled[responses + 1].task, ok |-> ok])
    /\ responses' = responses + 1
    /\ UNCHANGED <<vars, promises, responseHandlers, toWorker, received, worker, errors>>

-----------------------------------------------------------------------------

OldestHandler(response) ==  \* mutant: whatever call waits
    IF responseHandlers = {} THEN {} ELSE {CHOOSE t \in responseHandlers : TRUE}

HandlerOf(response) == responseHandlers \cap {response.token}

StaysQueued == toMain  \* mutant: delivered again

AfterFirst == Tail(toMain)

\* announceResponse: a response nobody waits for is ignored.
Receive ==
    /\ toMain # <<>>
    /\ toMain' = AfterFirst
    /\ received' = received + 1
    /\ LET response == Head(toMain)
       IN  /\ promises' = [t \in Task |->
                  IF t \in HandlerOf(response) /\ promises[t] = "pending"
                  THEN IF response.ok THEN "resolved" ELSE "rejected"
                  ELSE promises[t]]
           /\ responseHandlers' = responseHandlers \ HandlerOf(response)
    /\ UNCHANGED <<vars, toWorker, responses, worker, errors>>

NobodyTold == promises  \* mutant: the handlers are dropped, not called

\* abortAllPendingOperations
AllRejected ==
    [t \in Task |->
        IF t \in responseHandlers /\ promises[t] = "pending" THEN "rejected" ELSE promises[t]]

ErrorEvent ==
    /\ errors.raised
    /\ errors' = [raised |-> FALSE, handled |-> TRUE]
    /\ promises' = AllRejected
    /\ responseHandlers' = {}
    /\ UNCHANGED <<vars, toWorker, toMain, responses, received, worker>>

\* An exception nobody caught in the worker, which goes on.
WorkerError ==
    /\ worker = "runs" /\ ~errors.handled
    /\ errors' = [errors EXCEPT !.raised = TRUE]
    /\ UNCHANGED <<vars, promises, responseHandlers, toWorker, toMain, responses, received, worker>>

\* The process ends.  Nobody listens to its "exit" event.
WorkerExit ==
    /\ worker = "runs"
    /\ worker' = "exited"
    /\ UNCHANGED <<vars, promises, responseHandlers, toWorker, toMain, responses, received, errors>>

NextWorker ==
    \/ \E t \in Task : Exec(t) \/ Runs(t)
    \/ TakesUp \/ Respond \/ Receive \/ ErrorEvent \/ WorkerError \/ WorkerExit

\* Messages arrive, the worker runs while it lives, its handlers settle.
SpecWorker ==
    /\ InitWorker
    /\ [][NextWorker]_allVars
    /\ WF_allVars(TakesUp) /\ WF_allVars(Respond) /\ WF_allVars(Receive) /\ WF_allVars(ErrorEvent)
    /\ \A t \in Task : WF_allVars(Runs(t))

-----------------------------------------------------------------------------

TypeOKWorker ==
    /\ promises \in [Task -> {"none", "pending", "resolved", "rejected"}]
    /\ responseHandlers \subseteq Task
    /\ toWorker \in Seq(Task)
    /\ toMain \in Seq([token : Task, ok : BOOLEAN])
    /\ responses \in 0 .. Len(settled) /\ received \in 0 .. responses
    /\ worker \in {"runs", "exited"}
    /\ errors \in [raised : BOOLEAN, handled : BOOLEAN]

\* A caller is told that its operation succeeded only if it is in storage: no
\* response reaches another caller, although calls are aborted while their
\* responses are under way.
ResolvedIsStored ==
    \A t \in Task : promises[t] = "resolved" => \E i \in DOMAIN storage : storage[i] = t

\* Every call is answered, also when another one's exception aborts it, unless
\* the worker's process has ended.
EveryCallAnswered ==
    \A t \in Task :
        promises[t] = "pending" ~> (promises[t] # "pending" \/ worker = "exited")

\* Seen through the messages, the operations are still executed one by one, in
\* the order exec was called, and answered in that order; an abort only hides an
\* answer.
Remote == INSTANCE OperationQueue WITH
    calls    <- Calls \o toWorker,
    executed <- Outcomes,
    replies  <- received

ImplementsRemotely == Remote!Spec
=============================================================================
