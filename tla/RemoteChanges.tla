---------------------------- MODULE RemoteChanges ----------------------------
(***************************************************************************)
(* Continuous synchronization: pullRemoteChanges with `continuous', of     *)
(* src/src/DB/LocalDB/LocalDB.ts.  A loop polls with a GET that the server *)
(* answers when it has news, or opens a websocket and commits the messages *)
(* that come (openRawWebsocketReader, src/src/DB/Client/Client.ts), and    *)
(* starts over, later each time, when the network fails.                   *)
(*                                                                         *)
(* The server's content is a log of revisions, numbered by their commit    *)
(* times.  What is committed is the last revision of each key in a range   *)
(* of them (LocalDBOperations.commitRemoteEntries).                        *)
(***************************************************************************)
EXTENDS HTTPClient

CONSTANTS Key, KeyOf,      \* the key of each revision
          MaxRevisions, MaxFailures,
          InitialDelay, MaxDelay,
          CommitFails,     \* where committing what came may fail: "poll", "socket"
          OldQueueLasts    \* may messages wait for longer than a retry?

ASSUME RevisionAssumption == MaxRevisions \in Nat /\ KeyOf \in [1 .. MaxRevisions -> Key]

ASSUME RequestAssumption == Request # {}

ASSUME DelayAssumption ==
    InitialDelay \in Nat /\ MaxDelay \in Nat /\ InitialDelay <= MaxDelay

VARIABLES server,        \* the commit time of the last revision of the server
          store,         \* of each key: the revision in RemoteEntries, 0 for none
          lastModified,
          isClosed,
          continuousRemoteChangesSyncRunning,
          loop,          \* where the loop is, and over which requests
          errorDelayTime,
          connections,   \* of each websocket: up to where it got, its handlerQueue
          failures       \* how many there were

dbVars == <<store, lastModified>>
loopVars == <<loop, errorDelayTime, continuousRemoteChangesSyncRunning>>
vars == <<httpVars, server, dbVars, isClosed, loopVars, connections, failures>>

The == CHOOSE r \in Request : TRUE   \* the loop's GET

ContentAt(time) ==
    [k \in Key |->
        LET its == {n \in 1 .. time : KeyOf[n] = k}
        IN  IF its = {} THEN 0 ELSE CHOOSE n \in its : \A m \in its : m <= n]

\* commitSerializedRemoteEntries of a message: revisions of a range of times.
\* The entry of another revision is replaced, be it newer.
Commit(message) ==
    /\ store' = [k \in Key |->
            LET its == {n \in message.after + 1 .. message.upTo : KeyOf[n] = k}
            IN  IF its = {} THEN store[k] ELSE CHOOSE n \in its : \A m \in its : m <= n]
    /\ lastModified' = message.upTo

Goes(at) == loop' = [loop EXCEPT !.at = at]

-----------------------------------------------------------------------------

StartSync ==
    /\ ~isClosed /\ ~continuousRemoteChangesSyncRunning
    /\ continuousRemoteChangesSyncRunning' = TRUE
    /\ \E socket \in BOOLEAN : loop' = [loop EXCEPT !.at = "start", !.useWebSocket = socket]
    /\ UNCHANGED <<httpVars, server, dbVars, isClosed, errorDelayTime, connections, failures>>

Unused == {w \in Socket : requests[w] = "unsent"}

\* The head of both loops: the metadata are read, and sent.
Ask ==
    /\ loop.at = "start" /\ ~isClosed
    /\ IF loop.useWebSocket
       THEN \E w \in Unused :
               /\ SendRequest(w)
               /\ loop' = [loop EXCEPT !.at = "connected", !.socket = w, !.after = lastModified]
               /\ connections' = [connections EXCEPT ![w].upTo = lastModified]
       ELSE /\ SendRequest(The)
            /\ loop' = [loop EXCEPT !.at = "polling", !.after = lastModified]
            /\ UNCHANGED connections
    /\ UNCHANGED <<server, dbVars, isClosed, errorDelayTime, failures,
                   continuousRemoteChangesSyncRunning>>

StopWhenClosed ==
    /\ loop.at = "start" /\ isClosed
    /\ Goes("ended")
    /\ UNCHANGED <<httpVars, server, dbVars, isClosed, errorDelayTime, connections, failures,
                   continuousRemoteChangesSyncRunning>>

\* Both loops' catch.
Catch(error) ==
    /\ \/ (isClosed \/ error = "PromiseCanceledError") /\ Goes("ended")
       \/ ~isClosed /\ error \in {"NetworkError", "HTTPError"} /\ Goes("delayed")
       \/ ~isClosed /\ error = "Error" /\ Goes("failed")
    /\ UNCHANGED errorDelayTime

Pending == {w \in Socket : connections[w].queue # <<>>}

MayStart ==  \* mutant: by another call of pullRemoteChanges
    ~continuousRemoteChangesSyncRunning

MayRetry == OldQueueLasts \/ Pending = {}

DoubledForEver(delay) == delay * 2  \* mutant: no maximum

Doubled(delay) == IF delay * 2 < MaxDelay THEN delay * 2 ELSE MaxDelay

\* errorDelayTime has passed, and is doubled for the next time.  A message that
\* was handled meanwhile has reset it.
Retry ==
    /\ loop.at = "delayed"
    /\ MayRetry
    /\ Goes("start")
    /\ errorDelayTime' = Doubled(errorDelayTime)
    /\ UNCHANGED <<httpVars, server, dbVars, isClosed, connections, failures,
                   continuousRemoteChangesSyncRunning>>

-----------------------------------------------------------------------------

\* An error status counts as a failure.
Counted(r) ==
    /\ failures' = IF requests[r] # requests'[r] /\ requests'[r] = "HTTPError" THEN failures + 1 ELSE failures
    /\ failures' <= MaxFailures

\* The server answers a poll when there is news, with all that there is.
PollAnswered ==
    /\ loop.at = "polling" /\ requests[The] = "active"
    /\ server > loop.after
    /\ Response(The)
    /\ Counted(The)
    /\ loop' = [loop EXCEPT !.upTo = server]
    /\ UNCHANGED <<server, dbVars, isClosed, errorDelayTime, connections,
                   continuousRemoteChangesSyncRunning>>

\* pullRemoteChangessOnce, from the response to the next turn of the loop.
PollDone ==
    /\ loop.at = "polling" /\ requests[The] = "resolved"
    /\ IF isClosed THEN Goes("start") /\ errorDelayTime' = InitialDelay /\ UNCHANGED dbVars
       ELSE \/ /\ Commit([after |-> loop.after, upTo |-> loop.upTo])
               /\ Goes("start")
               /\ errorDelayTime' = InitialDelay
            \/ /\ "poll" \in CommitFails
               /\ Catch("Error") /\ UNCHANGED dbVars
    /\ UNCHANGED <<httpVars, server, isClosed, connections, failures,
                   continuousRemoteChangesSyncRunning>>

PollFailed ==
    /\ loop.at = "polling" /\ requests[The] \in Errors
    /\ Catch(requests[The])
    /\ UNCHANGED <<httpVars, server, dbVars, isClosed, connections, failures,
                   continuousRemoteChangesSyncRunning>>

-----------------------------------------------------------------------------

\* onmessage: the server sends what is new, the client queues it.
Receive(w) ==
    /\ requests[w] = "active" /\ connections[w].upTo < server
    /\ connections' = [connections EXCEPT ![w] =
            [upTo |-> server, queue |-> Append(@.queue, [after |-> @.upTo, upTo |-> server])]]
    /\ UNCHANGED <<httpVars, server, dbVars, isClosed, loopVars, failures>>

Newest(w) == connections[w].queue[Len(connections[w].queue)]  \* mutant: the last one first

First(w) == connections[w].queue[1]

AfterFirst(w) == Tail(connections[w].queue)

\* The handler of the queue's first message.  When it fails, the connection is
\* closed and its promise rejected; messages behind it are handled all the same.
HandleMessage(w) ==
    /\ connections[w].queue # <<>>
    /\ connections' = [connections EXCEPT ![w].queue = AfterFirst(w)]
    /\ \/ /\ ~isClosed
          /\ Commit(First(w))
          /\ errorDelayTime' = InitialDelay
          /\ UNCHANGED <<requests, loop>>
       \/ /\ isClosed \/ "socket" \in CommitFails
          /\ requests' = [requests EXCEPT ![w] = IF @ = "active" THEN "closing" ELSE @]
          /\ IF loop.at = "connected" /\ loop.socket = w
             THEN Catch(IF isClosed THEN "PromiseCanceledError" ELSE "Error")
             ELSE UNCHANGED <<loop, errorDelayTime>>
          /\ UNCHANGED dbVars
    /\ UNCHANGED <<platform, handlers, signal, server, isClosed, failures,
                   continuousRemoteChangesSyncRunning>>

\* onerror and onclose: by the network, the server, or after webSocket.close().
SocketCloses(w) ==
    /\ \/ requests[w] = "active" /\ failures < MaxFailures /\ failures' = failures + 1
       \/ requests[w] = "closing" /\ UNCHANGED failures
    /\ Ends(w, "NetworkError")
    /\ IF loop.at = "connected" /\ loop.socket = w
       THEN Catch("NetworkError") ELSE UNCHANGED <<loop, errorDelayTime>>
    /\ UNCHANGED <<server, dbVars, isClosed, connections, continuousRemoteChangesSyncRunning>>

\* connectionPromise.cancel, by the abort handler.
SocketAborts ==
    /\ Abort
    /\ IF loop.at = "connected" /\ loop.socket \in signal.calls /\ requests[loop.socket] = "active"
       THEN Catch("PromiseCanceledError") ELSE UNCHANGED <<loop, errorDelayTime>>
    /\ UNCHANGED <<server, dbVars, isClosed, connections, failures,
                   continuousRemoteChangesSyncRunning>>

-----------------------------------------------------------------------------

\* Other requests of the client: a push, a pull on request.
Others == Request \ {The}

OtherRequest(r) ==
    /\ \/ requests[r] = "unsent" /\ SendRequest(r)
       \/ Response(r)
    /\ Counted(r)
    /\ UNCHANGED <<server, dbVars, isClosed, loopVars, connections>>

Progress(r) ==
    /\ Body(r) \/ AbortEvent(r)
    /\ Counted(r)
    /\ UNCHANGED <<server, dbVars, isClosed, loopVars, connections>>

\* The loop's GET is sent without a timeout.
Failure(r) ==
    /\ failures < MaxFailures
    /\ failures' = failures + 1
    /\ RequestFails(r) \/ (r # The /\ RequestTimesOut(r))
    /\ UNCHANGED <<server, dbVars, isClosed, loopVars, connections>>

ClientAborts ==
    /\ AbortActiveRequests
    /\ failures < MaxFailures
    /\ failures' = failures + 1
    /\ UNCHANGED <<server, dbVars, isClosed, loopVars, connections>>

ServerCommits ==
    /\ server < MaxRevisions
    /\ server' = server + 1
    /\ UNCHANGED <<httpVars, dbVars, isClosed, loopVars, connections, failures>>

\* close leaves requests and websockets as they are.
Close ==
    /\ ~isClosed
    /\ isClosed' = TRUE
    /\ UNCHANGED <<httpVars, server, dbVars, loopVars, connections, failures>>

Init ==
    /\ InitHTTP
    /\ server = 0
    /\ store = [k \in Key |-> 0] /\ lastModified = 0
    /\ isClosed = FALSE
    /\ continuousRemoteChangesSyncRunning = FALSE
    /\ loop = [at |-> "idle", useWebSocket |-> FALSE, socket |-> The, after |-> 0, upTo |-> 0]
    /\ errorDelayTime = InitialDelay
    /\ connections = [w \in Socket |-> [upTo |-> 0, queue |-> <<>>]]
    /\ failures = 0

Loop == Ask \/ StopWhenClosed \/ Retry \/ PollDone \/ PollFailed

Next ==
    \/ StartSync \/ Loop \/ PollAnswered \/ SocketAborts \/ ClientAborts \/ ServerCommits \/ Close
    \/ \E w \in Socket : Receive(w) \/ HandleMessage(w) \/ SocketCloses(w)
    \/ \E r \in Request : Progress(r) \/ Failure(r)
    \/ \E r \in Others : OtherRequest(r)

(***************************************************************************)
(* Fairness: the loop goes on, the server answers a poll and sends what is *)
(* new, what has come is handled, and a socket that is closing closes.     *)
(***************************************************************************)
Spec ==
    /\ Init
    /\ [][Next]_vars
    /\ WF_vars(Loop) /\ WF_vars(PollAnswered) /\ WF_vars(SocketAborts)
    /\ \A w \in Socket :
          /\ WF_vars(Receive(w)) /\ WF_vars(HandleMessage(w))
          /\ WF_vars(requests[w] = "closing" /\ SocketCloses(w))
    /\ \A r \in Request : WF_vars(Progress(r))

-----------------------------------------------------------------------------

TypeOK ==
    /\ TypeOKHTTP
    /\ server \in 0 .. MaxRevisions
    /\ store \in [Key -> 0 .. MaxRevisions]
    /\ lastModified \in 0 .. MaxRevisions
    /\ isClosed \in BOOLEAN
    /\ continuousRemoteChangesSyncRunning \in BOOLEAN
    /\ loop.at \in {"idle", "start", "polling", "connected", "delayed", "ended", "failed"}
    /\ errorDelayTime \in InitialDelay .. MaxDelay

\* lastModified, which the next request asks from, says what is in the store:
\* each revision up to it was committed, and none was replaced by an older one.
StoreIsAsOfLastModified == store = ContentAt(lastModified)

\* As long as synchronization goes on, what the server commits is fetched,
\* whatever connections break in between.
CatchesUp ==
    <>[](loop.at \in {"idle", "ended", "failed"} \/ store = ContentAt(server))
=============================================================================
