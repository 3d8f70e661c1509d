------------------------ MODULE RemoteChanges_proofs ------------------------
(***************************************************************************)
(* Proofs about a client's requests and continuous synchronization, for    *)
(* any number of requests, websockets, revisions and failures.             *)
(***************************************************************************)
EXTENDS RemoteChanges, TLAPS, WellFoundedInduction

-----------------------------------------------------------------------------
(***************************************************************************)
(* The requests and the signal source.  A handler is in the list once, and *)
(* only while its request is under way.                                    *)
(***************************************************************************)
Connection == Request \cup Socket

Over == {"unsent"} \cup Settled

HandlersOnce == \A i, j \in 1 .. Len(handlers) : handlers[i] = handlers[j] => i = j

OnlyRunningSubscribe == \A i \in 1 .. Len(handlers) : requests[handlers[i]] \notin Over

SignalCallsOne ==
    /\ signal.at \in Nat
    /\ signal # NoSignal => \E r \in Connection : signal.calls = {r}

InvHTTP ==
    /\ TypeOKHTTP
    /\ HandlersOnce
    /\ OnlyRunningSubscribe
    /\ SignalCallsOne

\* What a step may do to the requests, whoever takes it.
Finishes(r) ==
    requests[r] \notin Over /\ \E phase \in Phases \ {"unsent"} : Ends(r, phase)

Sends(r) == requests[r] \in Over /\ SendRequest(r)

Suffers(r) ==
    /\ requests[r] \notin Over
    /\ \E phase \in Phases \ Over : requests' = [requests EXCEPT ![r] = phase]
    /\ UNCHANGED <<platform, handlers, signal>>

StepHTTP ==
    \/ \E r \in Connection : Finishes(r) \/ Sends(r) \/ Suffers(r)
    \/ Abort \/ AbortActiveRequests
    \/ UNCHANGED httpVars

\* A handler that is there once is the first of its kind, and all up to it stay.
LEMMA UnsubscribedIs ==
    ASSUME handlers \in Seq(Connection), HandlersOnce, NEW r
    PROVE  /\ Unsubscribed(handlers, r) \in Seq(Connection)
           /\ Len(Unsubscribed(handlers, r)) \in Nat
           /\ Len(Unsubscribed(handlers, r)) <= Len(handlers)
           /\ \A i \in 1 .. Len(Unsubscribed(handlers, r)) :
                 /\ i \in 1 .. Len(handlers)
                 /\ Unsubscribed(handlers, r)[i] = handlers[i]
                 /\ handlers[i] # r
<1>1. CASE ~Contains(handlers, r)
  <2>1. Unsubscribed(handlers, r) = handlers
    BY <1>1 DEF Unsubscribed
  <2> QED BY <1>1, <2>1 DEF Contains
<1>2. CASE Contains(handlers, r)
  <2> PICK n \in 1 .. Len(handlers) : handlers[n] = r
    BY <1>2 DEF Contains
  <2>1. {i \in 1 .. Len(handlers) : handlers[i] = r} = {n}
    BY DEF HandlersOnce
  <2>2. Min({n}) = n
    BY DEF Min
  <2>3. SelectInSeq(handlers, LAMBDA h : h = r) = n
    BY <2>1, <2>2 DEF SelectInSeq
  <2>4. Unsubscribed(handlers, r) = SubSeq(handlers, 1, n - 1)
    BY <1>2, <2>3 DEF Unsubscribed
  <2>5. /\ SubSeq(handlers, 1, n - 1) \in Seq(Connection)
        /\ Len(SubSeq(handlers, 1, n - 1)) = n - 1
        /\ \A i \in 1 .. n - 1 : SubSeq(handlers, 1, n - 1)[i] = handlers[i]
    OBVIOUS
  <2>6. \A i \in 1 .. n - 1 : i \in 1 .. Len(handlers) /\ i # n
    OBVIOUS
  <2> QED BY <2>4, <2>5, <2>6 DEF HandlersOnce
<1> QED BY <1>1, <1>2

LEMMA TakesOne ==
    ASSUME NEW list \in Seq(Connection), NEW n \in Nat, n >= 1, NEW active
    PROVE  /\ Takes(list, n, active).at \in Nat
           /\ Takes(list, n, active).calls \subseteq Connection
           /\ Takes(list, n, active) # NoSignal
                 => \E r \in Connection : Takes(list, n, active).calls = {r}
<1>1. CASE n <= Len(list)
  <2>1. list[n] \in Connection
    BY <1>1
  <2> QED BY <1>1, <2>1 DEF Takes
<1>2. CASE ~(n <= Len(list))
  BY <1>2 DEF Takes, NoSignal
<1> QED BY <1>1, <1>2

LEMMA FinishesInv ==
    ASSUME InvHTTP, NEW r \in Connection, Finishes(r)
    PROVE  InvHTTP'
<1> PICK phase \in Phases \ {"unsent"} : Ends(r, phase)
  BY DEF Finishes
<1>1. /\ requests' = [requests EXCEPT ![r] = phase] /\ requests \in [Connection -> Phases]
      /\ handlers' = Unsubscribed(handlers, r) /\ handlers \in Seq(Connection)
      /\ UNCHANGED <<platform, signal>>
  BY DEF Ends, InvHTTP, TypeOKHTTP, Connection
<1>2. /\ handlers' \in Seq(Connection)
      /\ \A i \in 1 .. Len(handlers') :
            i \in 1 .. Len(handlers) /\ handlers'[i] = handlers[i] /\ handlers[i] # r
  BY <1>1, UnsubscribedIs DEF InvHTTP
<1>3. TypeOKHTTP'
  BY <1>1, <1>2 DEF InvHTTP, TypeOKHTTP, Connection
<1>4. HandlersOnce' /\ SignalCallsOne'
  BY <1>1, <1>2 DEF InvHTTP, HandlersOnce, SignalCallsOne
<1>5. OnlyRunningSubscribe'
  <2>1. \A i \in 1 .. Len(handlers') : requests'[handlers'[i]] = requests[handlers[i]]
    BY <1>1, <1>2
  <2> QED BY <1>2, <2>1 DEF InvHTTP, OnlyRunningSubscribe
<1> QED BY <1>3, <1>4, <1>5 DEF InvHTTP

LEMMA SendsInv ==
    ASSUME InvHTTP, NEW r \in Connection, Sends(r)
    PROVE  InvHTTP'
<1>1. /\ requests' = [requests EXCEPT ![r] = "active"] /\ requests \in [Connection -> Phases]
      /\ handlers' = handlers \/ handlers' = Append(handlers, r)
      /\ handlers \in Seq(Connection)
      /\ UNCHANGED <<platform, signal>> /\ requests[r] \in Over
  BY DEF Sends, SendRequest, InvHTTP, TypeOKHTTP, Connection
<1>2. \A i \in 1 .. Len(handlers) : handlers[i] \in Connection /\ handlers[i] # r
  BY <1>1 DEF InvHTTP, OnlyRunningSubscribe
<1>3. /\ handlers' \in Seq(Connection)
      /\ \A i \in 1 .. Len(handlers') :
            \/ i \in 1 .. Len(handlers) /\ handlers'[i] = handlers[i]
            \/ i = Len(handlers) + 1 /\ handlers'[i] = r
  BY <1>1
<1>4. TypeOKHTTP'
  BY <1>1, <1>3 DEF InvHTTP, TypeOKHTTP, Connection, Phases
<1>5. HandlersOnce' /\ SignalCallsOne'
  BY <1>1, <1>2, <1>3 DEF InvHTTP, HandlersOnce, SignalCallsOne
<1>6. OnlyRunningSubscribe'
  <2>1. requests'[r] = "active" /\ "active" \notin Over
    BY <1>1 DEF Over, Settled, Errors
  <2>2. \A i \in 1 .. Len(handlers) : requests'[handlers[i]] = requests[handlers[i]]
    BY <1>1, <1>2
  <2> QED BY <1>3, <2>1, <2>2 DEF InvHTTP, OnlyRunningSubscribe
<1> QED BY <1>4, <1>5, <1>6 DEF InvHTTP

LEMMA SuffersInv ==
    ASSUME InvHTTP, NEW r \in Connection, Suffers(r)
    PROVE  InvHTTP'
<1> PICK phase \in Phases \ Over : requests' = [requests EXCEPT ![r] = phase]
  BY DEF Suffers
<1>1. UNCHANGED <<platform, handlers, signal>> /\ requests \in [Connection -> Phases]
      /\ handlers \in Seq(Connection)
  BY DEF Suffers, InvHTTP, TypeOKHTTP, Connection
<1>2. TypeOKHTTP' /\ HandlersOnce' /\ SignalCallsOne'
  BY <1>1 DEF InvHTTP, TypeOKHTTP, HandlersOnce, SignalCallsOne, Connection
<1>3. OnlyRunningSubscribe'
  <2>1. \A i \in 1 .. Len(handlers) : handlers[i] \in Connection
    BY <1>1
  <2> QED BY <1>1, <2>1 DEF InvHTTP, OnlyRunningSubscribe
<1> QED BY <1>2, <1>3 DEF InvHTTP

\* The call of one handler: the request ends at once, will end, or is over.
LEMMA AbortInv ==
    ASSUME InvHTTP, Abort
    PROVE  InvHTTP' /\ \A u \in Connection : requests[u] \in Over => requests'[u] = requests[u]
<1>1. PICK r \in Connection : signal.calls = {r}
  BY DEF Abort, InvHTTP, SignalCallsOne
<1> DEFINE called == CHOOSE u \in signal.calls : TRUE
<1>2. called = r
  BY <1>1
<1> DEFINE aborted == r \in Request /\ platform = "xhr" /\ Active(r)
<1>3. /\ requests' = [requests EXCEPT ![r] =
             IF r \in Socket /\ requests[r] = "active" THEN "closing"
             ELSE IF ~Active(r) THEN requests[r]
             ELSE IF aborted THEN "PromiseCanceledError" ELSE "aborting"]
      /\ handlers' = IF aborted THEN Unsubscribed(handlers, r) ELSE handlers
      /\ signal' = Takes(handlers', signal.at + 1, signal.active)
      /\ platform' = platform
  <2> DEFINE closed == called \in Request /\ platform = "xhr" /\ Active(called)
  <2>1. /\ requests' = [requests EXCEPT ![called] =
               IF called \in Socket /\ requests[called] = "active" THEN "closing"
               ELSE IF ~Active(called) THEN requests[called]
               ELSE IF closed THEN "PromiseCanceledError" ELSE "aborting"]
        /\ handlers' = IF closed THEN Unsubscribed(handlers, called) ELSE handlers
        /\ signal' = Takes(handlers', signal.at + 1, signal.active)
        /\ platform' = platform
    BY DEF Abort
  <2> HIDE DEF called
  <2> QED BY <1>2, <2>1 DEF Active
<1>4. requests \in [Connection -> Phases] /\ handlers \in Seq(Connection) /\ signal.at \in Nat
  BY DEF InvHTTP, TypeOKHTTP, SignalCallsOne, Connection
<1>5. Active(r) => requests[r] \notin Over
  <2>1. Active(r) => requests[r] \in {"active", "body", "hangs"}
    BY DEF Active
  <2> QED BY <2>1 DEF Over, Settled, Errors
<1>6. "active" \notin Over /\ "closing" \notin Over /\ "aborting" \notin Over
      /\ {"closing", "aborting", "PromiseCanceledError"} \subseteq Phases
  BY DEF Over, Phases, Settled, Errors
<1>7. /\ handlers' \in Seq(Connection)
      /\ \A i \in 1 .. Len(handlers') :
            i \in 1 .. Len(handlers) /\ handlers'[i] = handlers[i] /\ (aborted => handlers[i] # r)
  BY <1>3, <1>4, UnsubscribedIs DEF InvHTTP
<1>8. TypeOKHTTP' /\ SignalCallsOne'
  <2>1. requests' \in [Connection -> Phases]
    BY <1>3, <1>4, <1>6
  <2>2. /\ signal'.at \in Nat /\ signal'.calls \subseteq Connection
        /\ signal' # NoSignal => \E u \in Connection : signal'.calls = {u}
    BY <1>3, <1>4, <1>7, TakesOne
  <2> QED BY <1>3, <1>7, <2>1, <2>2 DEF InvHTTP, TypeOKHTTP, SignalCallsOne, Connection
<1>9. HandlersOnce'
  BY <1>7 DEF InvHTTP, HandlersOnce
<1>10. OnlyRunningSubscribe'
  <2> SUFFICES ASSUME NEW i \in 1 .. Len(handlers') PROVE requests'[handlers'[i]] \notin Over
    BY DEF OnlyRunningSubscribe
  <2>1. i \in 1 .. Len(handlers) /\ handlers'[i] = handlers[i] /\ handlers[i] \in Connection
    BY <1>4, <1>7
  <2>2. requests[handlers[i]] \notin Over
    BY <2>1 DEF InvHTTP, OnlyRunningSubscribe
  <2>3. CASE handlers[i] # r
    BY <1>3, <1>4, <2>1, <2>2, <2>3
  <2>4. CASE handlers[i] = r
    BY <1>3, <1>4, <1>6, <1>7, <2>1, <2>2, <2>4
  <2> QED BY <2>3, <2>4
<1>11. \A u \in Connection : requests[u] \in Over => requests'[u] = requests[u]
  BY <1>3, <1>4, <1>5, <1>6
<1> QED BY <1>8, <1>9, <1>10, <1>11 DEF InvHTTP

LEMMA StepInvHTTP ==
    ASSUME InvHTTP, StepHTTP
    PROVE  InvHTTP'
<1>1. CASE AbortActiveRequests
  <2> DEFINE active == {r \in Connection : Active(r)}
  <2>1. /\ UNCHANGED <<platform, requests, handlers>> /\ handlers \in Seq(Connection)
        /\ signal' = Takes(handlers, 1, active)
    BY <1>1 DEF AbortActiveRequests, InvHTTP, TypeOKHTTP, Connection
  <2> HIDE DEF active
  <2>2. /\ signal'.at \in Nat /\ signal'.calls \subseteq Connection
        /\ signal' # NoSignal => \E r \in Connection : signal'.calls = {r}
    BY <2>1, TakesOne
  <2> QED BY <2>1, <2>2 DEF InvHTTP, TypeOKHTTP, HandlersOnce, OnlyRunningSubscribe,
                            SignalCallsOne, Connection
<1>2. CASE UNCHANGED httpVars
  BY <1>2 DEF httpVars, InvHTTP, TypeOKHTTP, HandlersOnce, OnlyRunningSubscribe, SignalCallsOne
<1> QED BY <1>1, <1>2, FinishesInv, SendsInv, SuffersInv, AbortInv DEF StepHTTP

\* Only sending starts a request.
LEMMA OverStaysOver ==
    ASSUME InvHTTP, NEW r \in Connection, requests[r] \in Over,
           \/ \E u \in Connection : Finishes(u) \/ Suffers(u) \/ (u # r /\ Sends(u))
           \/ Abort \/ AbortActiveRequests
           \/ UNCHANGED httpVars
    PROVE  requests'[r] = requests[r]
<1>1. requests \in [Connection -> Phases]
  BY DEF InvHTTP, TypeOKHTTP, Connection
<1>2. ASSUME NEW u \in Connection, Finishes(u) \/ Suffers(u) \/ (u # r /\ Sends(u))
      PROVE  requests'[r] = requests[r]
  BY <1>1, <1>2 DEF Finishes, Ends, Sends, SendRequest, Suffers
<1> QED BY <1>2, AbortInv DEF AbortActiveRequests, httpVars

-----------------------------------------------------------------------------
(***************************************************************************)
(* The revisions of a range, and the last one of them.                     *)
(***************************************************************************)
Times == 0 .. MaxRevisions

Message == [after : Times, upTo : Times]

LEMMA LastExists ==
    ASSUME NEW n \in Nat, NEW S, S \subseteq 1 .. n, S # {}
    PROVE  /\ (CHOOSE m \in S : \A k \in S : k <= m) \in S
           /\ \E m \in S : \A k \in S : k <= m
<1> DEFINE T == {n - k : k \in S}
<1>1. T \subseteq Nat /\ T # {}
  <2>1. \A k \in S : n - k \in Nat /\ n - k \in T
    OBVIOUS
  <2> QED BY <2>1
<1>2. PICK x \in T : \A y \in T : ~(<<y, x>> \in OpToRel(<, Nat))
  BY <1>1, WFMin, NatLessThanWellFounded
<1>3. \A y \in T : ~(y < x)
  BY <1>1, <1>2 DEF OpToRel
<1>4. PICK m \in S : x = n - m
  OBVIOUS
<1>5. \A k \in S : k <= m
  <2> TAKE k \in S
  <2>1. n - k \in T
    OBVIOUS
  <2> QED BY <1>3, <1>4, <2>1
<1> QED BY <1>5

LEMMA CommitIs ==
    ASSUME store \in [Key -> Times], NEW message \in Message, Commit(message)
    PROVE  store' \in [Key -> Times] /\ lastModified' = message.upTo /\ lastModified' \in Times
<1>1. /\ MaxRevisions \in Nat /\ message.after \in Times /\ message.upTo \in Times
      /\ lastModified' = message.upTo
  BY RevisionAssumption DEF Message, Commit
<1>2. ASSUME NEW k \in Key, NEW S, S \subseteq message.after + 1 .. message.upTo, S # {}
      PROVE  (CHOOSE n \in S : \A m \in S : m <= n) \in Times
  <2>1. S \subseteq 1 .. MaxRevisions
    BY <1>1, <1>2 DEF Times
  <2> DEFINE last == CHOOSE n \in S : \A m \in S : m <= n
  <2>2. last \in S
    BY <1>1, <1>2, <2>1, LastExists
  <2> HIDE DEF last
  <2>3. last \in Times
    BY <1>1, <2>1, <2>2 DEF Times
  <2> QED BY <2>3 DEF last
<1>3. ASSUME NEW k \in Key PROVE store'[k] \in Times
  <2> DEFINE its == {n \in message.after + 1 .. message.upTo : KeyOf[n] = k}
  <2>1. store'[k] = IF its = {} THEN store[k] ELSE CHOOSE n \in its : \A m \in its : m <= n
    BY DEF Commit
  <2>2. its \subseteq message.after + 1 .. message.upTo
    OBVIOUS
  <2> HIDE DEF its
  <2>3. CASE its = {}
    BY <2>1, <2>3
  <2>4. CASE its # {}
    BY <1>2, <2>1, <2>2, <2>4
  <2> QED BY <2>3, <2>4
<1>4. store' = [k \in Key |-> store'[k]]
  BY DEF Commit
<1> QED BY <1>1, <1>3, <1>4

(***************************************************************************)
(* The loop.  Its GET is sent again only after it is over, and only one    *)
(* loop runs at a time.                                                    *)
(***************************************************************************)
Places == {"idle", "start", "polling", "connected", "delayed", "ended", "failed"}

TypeOKLoop ==
    /\ TypeOK
    /\ loop \in [at : Places, useWebSocket : BOOLEAN, socket : Connection,
                 after : Times, upTo : Times]
    /\ connections \in [Socket -> [upTo : Times, queue : Seq(Message)]]

GetIsOver == loop.at # "polling" => requests[The] \in Over

StartedOnce == loop.at # "idle" => continuousRemoteChangesSyncRunning

InvLoop ==
    /\ InvHTTP
    /\ TypeOKLoop
    /\ GetIsOver
    /\ StartedOnce

LEMMA TheIsRequest == The \in Request /\ The \in Connection /\ The \notin Socket
  BY RequestAssumption, SocketAssumption DEF The, Connection

LEMMA InitLoop == Init => InvLoop
<1> SUFFICES ASSUME Init PROVE InvLoop
  OBVIOUS
<1>1. MaxRevisions \in Nat /\ 0 \in Times
  BY RevisionAssumption DEF Times
<1>2. /\ platform \in Platforms /\ requests = [r \in Connection |-> "unsent"]
      /\ handlers = <<>> /\ signal = [at |-> 0, calls |-> {}, active |-> {}]
  BY DEF Init, InitHTTP, Connection, NoSignal
<1>3. "unsent" \in Phases /\ "unsent" \in Over
  BY DEF Phases, Over
<1>4. InvHTTP
  <2>1. TypeOKHTTP
    BY <1>2, <1>3 DEF TypeOKHTTP, Connection
  <2>2. Len(handlers) = 0 /\ signal = NoSignal /\ signal.at \in Nat
    BY <1>2 DEF NoSignal
  <2> QED BY <2>1, <2>2 DEF InvHTTP, HandlersOnce, OnlyRunningSubscribe, SignalCallsOne
<1>5. TypeOKLoop
  <2>1. <<>> \in Seq(Message)
    OBVIOUS
  <2>2. loop \in [at : Places, useWebSocket : BOOLEAN, socket : Connection,
                  after : Times, upTo : Times]
    BY <1>1, TheIsRequest DEF Init, Places
  <2>3. connections \in [Socket -> [upTo : Times, queue : Seq(Message)]]
    BY <1>1, <2>1 DEF Init
  <2>4. TypeOK
    <3>1. errorDelayTime \in InitialDelay .. MaxDelay
      BY DelayAssumption DEF Init
    <3>2. store \in [Key -> Times] /\ lastModified \in Times /\ server \in Times
      BY <1>1 DEF Init
    <3> QED BY <1>4, <3>1, <3>2 DEF Init, TypeOK, InvHTTP, Times
  <2> QED BY <2>2, <2>3, <2>4 DEF TypeOKLoop
<1>6. GetIsOver /\ StartedOnce
  BY <1>2, <1>3, TheIsRequest DEF Init, GetIsOver, StartedOnce
<1> QED BY <1>4, <1>5, <1>6 DEF InvLoop

\* Where the loop goes after an error; the rest of it stays.
LEMMA CatchIs ==
    ASSUME TypeOKLoop, NEW error \in Errors, Catch(error)
    PROVE  /\ \E at \in {"ended", "delayed", "failed"} :
                 loop' = [loop EXCEPT !.at = at] /\ (isClosed => at = "ended")
           /\ UNCHANGED errorDelayTime
<1>1. UNCHANGED errorDelayTime
  BY DEF Catch
<1>2. Goes("ended") \/ (~isClosed /\ (Goes("delayed") \/ Goes("failed")))
  BY DEF Catch
<1> QED BY <1>1, <1>2 DEF Goes

\* What the steps of a request do to it.
LEMMA RequestsStep ==
    ASSUME InvHTTP
    PROVE  /\ \A r \in Request : Progress(r) \/ Failure(r) => Finishes(r) \/ Suffers(r)
           /\ \A r \in Others : OtherRequest(r) => Sends(r) \/ Finishes(r)
           /\ PollAnswered => Finishes(The)
<1>1. /\ requests \in [Connection -> Phases]
      /\ {"active", "body", "aborting"} \cap Over = {}
      /\ {"resolved", "HTTPError", "NetworkError", "PromiseCanceledError", "body"}
            \subseteq Phases \ {"unsent"}
      /\ "hangs" \in Phases \ Over /\ "Error" \in Phases \ {"unsent"} /\ "unsent" \in Over
  BY DEF InvHTTP, TypeOKHTTP, Connection, Over, Phases, Settled, Errors
<1>2. ASSUME NEW r \in Request, Response(r) \/ Body(r) \/ RequestFails(r) \/ AbortEvent(r)
      PROVE  Finishes(r)
  <2>1. r \in Connection
    BY DEF Connection
  <2>2. requests[r] \notin Over
    BY <1>1, <1>2, <2>1 DEF Response, Body, RequestFails, AbortEvent
  <2>3. \E phase \in Phases \ {"unsent"} : Ends(r, phase)
    BY <1>1, <1>2 DEF Response, Body, RequestFails, AbortEvent
  <2> QED BY <2>2, <2>3 DEF Finishes
<1>3. ASSUME NEW r \in Request, RequestTimesOut(r) PROVE Suffers(r)
  BY <1>1, <1>3 DEF RequestTimesOut, Suffers, Connection
<1>4. \A r \in Request : Progress(r) \/ Failure(r) => Finishes(r) \/ Suffers(r)
  BY <1>2, <1>3 DEF Progress, Failure
<1>5. \A r \in Others : OtherRequest(r) => Sends(r) \/ Finishes(r)
  BY <1>1, <1>2 DEF OtherRequest, Sends, Others
<1>6. PollAnswered => Finishes(The)
  BY <1>2, TheIsRequest DEF PollAnswered
<1> QED BY <1>4, <1>5, <1>6

\* What each step does to the requests.
LEMMA NextIsStepHTTP ==
    ASSUME InvLoop, [Next]_vars
    PROVE  StepHTTP
<1>1. /\ requests \in [Connection -> Phases]
      /\ {"active", "body", "aborting", "closing"} \cap Over = {}
      /\ {"resolved", "HTTPError", "NetworkError", "PromiseCanceledError", "body", "closing"}
            \subseteq Phases \ {"unsent"}
      /\ "closing" \in Phases \ Over /\ "hangs" \in Phases \ Over /\ "Error" \in Phases \ {"unsent"}
      /\ "unsent" \in Over
  BY DEF InvLoop, InvHTTP, TypeOKHTTP, Connection, Over, Phases, Settled, Errors
<1>2. ASSUME NEW w \in Socket, HandleMessage(w) PROVE StepHTTP
  <2>1. UNCHANGED <<platform, handlers, signal>> /\ w \in Connection
    BY <1>2 DEF HandleMessage, Connection
  <2>2. \/ requests' = requests
        \/ requests[w] = "active" /\ requests' = [requests EXCEPT ![w] = "closing"]
    <3>1. \/ requests' = requests
          \/ requests' = [requests EXCEPT ![w] =
                 IF requests[w] = "active" THEN "closing" ELSE requests[w]]
      BY <1>2 DEF HandleMessage
    <3>2. [requests EXCEPT ![w] = requests[w]] = requests
      BY <1>1, <2>1
    <3>3. CASE requests[w] = "active"
      BY <3>1, <3>3
    <3>4. CASE requests[w] # "active"
      BY <3>1, <3>2, <3>4
    <3> QED BY <3>3, <3>4
  <2>3. requests' = requests \/ Suffers(w)
    BY <1>1, <2>1, <2>2 DEF Suffers
  <2> QED BY <2>1, <2>3 DEF StepHTTP, httpVars
<1>3. ASSUME NEW w \in Socket, SocketCloses(w) PROVE Finishes(w)
  BY <1>1, <1>3 DEF SocketCloses, Finishes
<1>4. ASSUME Ask PROVE \E r \in Connection : Sends(r)
  <2>1. requests[The] \in Over
    BY <1>4 DEF Ask, InvLoop, GetIsOver
  <2> QED BY <1>1, <1>4, <2>1, TheIsRequest DEF Ask, Unused, Sends, Connection
<1>5. ASSUME StartSync \/ StopWhenClosed \/ Retry \/ PollDone \/ PollFailed \/ ServerCommits \/ Close
       PROVE  UNCHANGED httpVars
  BY <1>5 DEF StartSync, StopWhenClosed, Retry, PollDone, PollFailed, ServerCommits, Close
<1>6. ASSUME NEW w \in Socket, Receive(w) PROVE UNCHANGED httpVars
  BY <1>6 DEF Receive
<1>7. ASSUME UNCHANGED vars PROVE UNCHANGED httpVars
  BY <1>7 DEF vars
<1>8. Others \subseteq Request /\ Request \subseteq Connection /\ Socket \subseteq Connection
  BY DEF Others, Connection
<1>9. InvHTTP
  BY DEF InvLoop
<1> QED BY <1>2, <1>3, <1>4, <1>5, <1>6, <1>7, <1>8, <1>9, RequestsStep, TheIsRequest
        DEF Next, Loop, StepHTTP, SocketAborts, ClientAborts

-----------------------------------------------------------------------------
(***************************************************************************)
(* The steps of the loop.                                                  *)
(***************************************************************************)
LoopType == [at : Places, useWebSocket : BOOLEAN, socket : Connection,
             after : Times, upTo : Times]

ConnectionsType == [Socket -> [upTo : Times, queue : Seq(Message)]]

LoopIs ==
    /\ store \in [Key -> Times] /\ lastModified \in Times /\ server \in Times
    /\ loop \in LoopType /\ connections \in ConnectionsType
    /\ isClosed \in BOOLEAN /\ continuousRemoteChangesSyncRunning \in BOOLEAN
    /\ errorDelayTime \in InitialDelay .. MaxDelay
    /\ StartedOnce

LEMMA LoopIsLoop ==
    ASSUME InvHTTP
    PROVE  TypeOKLoop /\ StartedOnce <=> LoopIs
  BY DEF TypeOKLoop, TypeOK, LoopIs, LoopType, ConnectionsType, Times, InvHTTP, Places

\* An error ends the loop or delays it.
LEMMA CatchLoop ==
    ASSUME InvLoop, NEW error \in Errors, Catch(error),
           UNCHANGED <<server, dbVars, isClosed, continuousRemoteChangesSyncRunning>>,
           connections' \in ConnectionsType, loop.at # "idle"
    PROVE  LoopIs' /\ loop'.at \in {"ended", "delayed", "failed"}
<1>1. LoopIs
  BY LoopIsLoop DEF InvLoop
<1>2. PICK at \in {"ended", "delayed", "failed"} : loop' = [loop EXCEPT !.at = at]
  BY CatchIs DEF InvLoop
<1>3. loop' \in LoopType /\ loop'.at = at /\ errorDelayTime' \in InitialDelay .. MaxDelay
  BY <1>1, <1>2, CatchIs DEF InvLoop, LoopIs, LoopType, Places
<1> QED BY <1>1, <1>3 DEF LoopIs, StartedOnce, dbVars

LEMMA AskLoop ==
    ASSUME InvLoop, Ask
    PROVE  LoopIs' /\ (loop'.at # "polling" => requests'[The] = requests[The])
<1>1. LoopIs
  BY LoopIsLoop DEF InvLoop
<1>2. loop.at = "start" /\ UNCHANGED <<server, dbVars, isClosed, errorDelayTime,
                                       continuousRemoteChangesSyncRunning>>
  BY DEF Ask
<1>3. /\ loop' \in LoopType /\ connections' \in ConnectionsType
      /\ loop'.at \in {"connected", "polling"}
      /\ loop'.at = "connected" => requests'[The] = requests[The]
  <2>1. CASE loop.useWebSocket
    <3>1. PICK w \in Unused :
             /\ SendRequest(w)
             /\ loop' = [loop EXCEPT !.at = "connected", !.socket = w, !.after = lastModified]
             /\ connections' = [connections EXCEPT ![w].upTo = lastModified]
      BY <2>1 DEF Ask
    <3>2. w \in Socket /\ w \in Connection /\ w # The
      BY TheIsRequest DEF Unused, Connection
    <3>3. connections[w] \in [upTo : Times, queue : Seq(Message)]
      BY <1>1, <3>2 DEF LoopIs, ConnectionsType
    <3>4. connections' \in ConnectionsType
      BY <1>1, <3>1, <3>2, <3>3 DEF LoopIs, ConnectionsType
    <3>5. requests'[The] = requests[The]
      BY <3>1, <3>2, TheIsRequest DEF SendRequest, InvLoop, InvHTTP, TypeOKHTTP
    <3> QED BY <1>1, <3>1, <3>2, <3>4, <3>5 DEF LoopIs, LoopType, Places
  <2>2. CASE ~loop.useWebSocket
    BY <1>1, <2>2 DEF Ask, LoopIs, LoopType, Places
  <2> QED BY <2>1, <2>2
<1> QED BY <1>1, <1>2, <1>3 DEF LoopIs, StartedOnce, dbVars

LEMMA PollLoop ==
    ASSUME InvLoop, PollAnswered \/ PollDone \/ PollFailed
    PROVE  LoopIs' /\ (loop'.at # "polling" => requests'[The] \in Over)
<1>1. LoopIs /\ loop.at = "polling"
  BY LoopIsLoop DEF InvLoop, PollAnswered, PollDone, PollFailed
<1>2. InitialDelay \in InitialDelay .. MaxDelay
  BY DelayAssumption
<1>3. CASE PollAnswered
  <2>1. loop' = [loop EXCEPT !.upTo = server]
        /\ UNCHANGED <<server, dbVars, isClosed, errorDelayTime, connections,
                       continuousRemoteChangesSyncRunning>>
    BY <1>3 DEF PollAnswered
  <2>2. loop' \in LoopType /\ loop'.at = "polling"
    BY <1>1, <2>1 DEF LoopIs, LoopType
  <2> QED BY <1>1, <2>1, <2>2 DEF LoopIs, StartedOnce, dbVars
<1>4. CASE PollFailed
  <2>1. /\ requests[The] \in Errors /\ Catch(requests[The])
        /\ UNCHANGED <<httpVars, server, dbVars, isClosed, connections,
                       continuousRemoteChangesSyncRunning>>
    BY <1>4 DEF PollFailed
  <2>2. LoopIs'
    BY <1>1, <2>1, CatchLoop DEF LoopIs
  <2> QED BY <2>1, <2>2 DEF Over, Settled, httpVars
<1>5. CASE PollDone
  <2>1. /\ requests[The] = "resolved"
        /\ UNCHANGED <<httpVars, server, isClosed, connections, continuousRemoteChangesSyncRunning>>
    BY <1>5 DEF PollDone
  <2>2. requests'[The] \in Over
    BY <2>1 DEF httpVars, Over, Settled
  <2>3. CASE Goes("start") /\ errorDelayTime' = InitialDelay /\ UNCHANGED dbVars
    <3>1. loop' \in LoopType
      BY <1>1, <2>3 DEF Goes, LoopIs, LoopType, Places
    <3> QED BY <1>1, <1>2, <2>1, <2>2, <2>3, <3>1 DEF LoopIs, StartedOnce, dbVars
  <2>4. CASE /\ Commit([after |-> loop.after, upTo |-> loop.upTo])
             /\ Goes("start") /\ errorDelayTime' = InitialDelay
    <3>1. loop' \in LoopType
      BY <1>1, <2>4 DEF Goes, LoopIs, LoopType, Places
    <3>2. [after |-> loop.after, upTo |-> loop.upTo] \in Message
      BY <1>1 DEF LoopIs, LoopType, Message
    <3>3. store' \in [Key -> Times] /\ lastModified' \in Times
      BY <1>1, <2>4, <3>2, CommitIs DEF LoopIs
    <3> QED BY <1>1, <1>2, <2>1, <2>2, <2>4, <3>1, <3>3 DEF LoopIs, StartedOnce
  <2>5. CASE Catch("Error") /\ UNCHANGED dbVars
    <3>1. "Error" \in Errors
      BY DEF Errors
    <3> QED BY <1>1, <2>1, <2>2, <2>5, <3>1, CatchLoop DEF LoopIs
  <2> QED BY <1>5, <2>3, <2>4, <2>5 DEF PollDone
<1> QED BY <1>3, <1>4, <1>5

LEMMA SocketLoop ==
    ASSUME InvLoop, NEW w \in Socket, Receive(w) \/ HandleMessage(w) \/ SocketCloses(w)
    PROVE  LoopIs' /\ (loop'.at = loop.at \/ loop'.at # "idle") /\ requests'[The] = requests[The]
           /\ (loop'.at # "polling" => loop.at # "polling")
<1>1. LoopIs
  BY LoopIsLoop DEF InvLoop
<1>2. connections[w] \in [upTo : Times, queue : Seq(Message)]
  BY <1>1 DEF LoopIs, ConnectionsType
<1>3. InitialDelay \in InitialDelay .. MaxDelay
  BY DelayAssumption
<1>4. requests \in [Connection -> Phases] /\ The \in Connection /\ The # w
  BY TheIsRequest DEF InvLoop, InvHTTP, TypeOKHTTP, Connection
<1>5. "PromiseCanceledError" \in Errors /\ "Error" \in Errors /\ "NetworkError" \in Errors
  BY DEF Errors
<1>6. CASE Receive(w)
  <2>1. [after |-> connections[w].upTo, upTo |-> server] \in Message
    BY <1>1, <1>2 DEF LoopIs, Message
  <2>2. /\ connections' = [connections EXCEPT ![w] =
              [upTo |-> server, queue |-> Append(connections[w].queue,
                    [after |-> connections[w].upTo, upTo |-> server])]]
        /\ UNCHANGED <<httpVars, server, dbVars, isClosed, loopVars>>
    BY <1>6 DEF Receive
  <2>3. connections' \in ConnectionsType
    BY <1>1, <1>2, <2>1, <2>2 DEF LoopIs, ConnectionsType
  <2> QED BY <1>1, <2>2, <2>3 DEF LoopIs, StartedOnce, dbVars, loopVars, httpVars
<1>7. CASE HandleMessage(w)
  <2>1. /\ connections[w].queue # <<>> /\ connections[w].queue \in Seq(Message)
        /\ connections' = [connections EXCEPT ![w].queue = Tail(connections[w].queue)]
        /\ UNCHANGED <<server, isClosed, continuousRemoteChangesSyncRunning>>
    BY <1>2, <1>7 DEF HandleMessage, AfterFirst
  <2>2. Tail(connections[w].queue) \in Seq(Message) /\ connections[w].queue[1] \in Message
    BY <2>1
  <2>3. connections' \in ConnectionsType
    BY <1>1, <1>2, <2>1, <2>2 DEF LoopIs, ConnectionsType
  <2>4. requests'[The] = requests[The]
    BY <1>4, <1>7 DEF HandleMessage
  <2>5. CASE /\ Commit(First(w)) /\ errorDelayTime' = InitialDelay /\ UNCHANGED loop
    <3>1. store' \in [Key -> Times] /\ lastModified' \in Times
      BY <1>1, <2>2, <2>5, CommitIs DEF LoopIs, First
    <3> QED BY <1>1, <1>3, <2>1, <2>3, <2>4, <2>5, <3>1 DEF LoopIs, StartedOnce
  <2>6. CASE UNCHANGED <<loop, errorDelayTime>> /\ UNCHANGED dbVars
    BY <1>1, <2>1, <2>3, <2>4, <2>6 DEF LoopIs, StartedOnce, dbVars
  <2>7. CASE /\ loop.at = "connected" /\ UNCHANGED dbVars
             /\ Catch(IF isClosed THEN "PromiseCanceledError" ELSE "Error")
    <3>1. (IF isClosed THEN "PromiseCanceledError" ELSE "Error") \in Errors
      BY <1>5
    <3> QED BY <2>1, <2>3, <2>4, <2>7, <3>1, CatchLoop
  <2> QED BY <1>7, <2>5, <2>6, <2>7 DEF HandleMessage
<1>8. CASE SocketCloses(w)
  <2>1. /\ Ends(w, "NetworkError")
        /\ UNCHANGED <<server, dbVars, isClosed, connections, continuousRemoteChangesSyncRunning>>
    BY <1>8 DEF SocketCloses
  <2>2. requests'[The] = requests[The]
    BY <1>4, <2>1 DEF Ends
  <2>3. CASE loop.at = "connected" /\ Catch("NetworkError")
    BY <1>1, <1>5, <2>1, <2>2, <2>3, CatchLoop DEF LoopIs
  <2>4. CASE UNCHANGED <<loop, errorDelayTime>>
    BY <1>1, <2>1, <2>2, <2>4 DEF LoopIs, StartedOnce, dbVars
  <2> QED BY <1>8, <2>3, <2>4 DEF SocketCloses
<1> QED BY <1>6, <1>7, <1>8

\* Steps that leave connections and store as they are.
LEMMA OtherLoop ==
    ASSUME InvLoop,
           \/ StartSync \/ StopWhenClosed \/ Retry \/ SocketAborts \/ ClientAborts \/ ServerCommits \/ Close
           \/ \E r \in Request : Progress(r) \/ Failure(r)
           \/ \E r \in Others : OtherRequest(r)
           \/ UNCHANGED vars
    PROVE  LoopIs' /\ (loop'.at # "polling" => loop.at # "polling")
<1>1. LoopIs
  BY LoopIsLoop DEF InvLoop
<1>2. CASE StartSync
  <2>1. /\ ~continuousRemoteChangesSyncRunning /\ continuousRemoteChangesSyncRunning' = TRUE
        /\ UNCHANGED <<server, dbVars, isClosed, errorDelayTime, connections>>
        /\ \E socket \in BOOLEAN : loop' = [loop EXCEPT !.at = "start", !.useWebSocket = socket]
    BY <1>2 DEF StartSync
  <2>2. loop.at = "idle" /\ loop' \in LoopType /\ loop'.at = "start"
    BY <1>1, <2>1 DEF LoopIs, StartedOnce, LoopType, Places
  <2> QED BY <1>1, <2>1, <2>2 DEF LoopIs, StartedOnce, dbVars
<1>3. CASE StopWhenClosed \/ Retry
  <2>1. /\ loop.at \in {"start", "delayed"} /\ (Goes("ended") \/ Goes("start"))
        /\ UNCHANGED <<server, dbVars, isClosed, connections, continuousRemoteChangesSyncRunning>>
        /\ errorDelayTime' \in {errorDelayTime, Doubled(errorDelayTime)}
    BY <1>3 DEF StopWhenClosed, Retry
  <2>2. loop' \in LoopType
    BY <1>1, <2>1 DEF Goes, LoopIs, LoopType, Places
  <2>3. Doubled(errorDelayTime) \in InitialDelay .. MaxDelay
    BY <1>1, DelayAssumption DEF Doubled, LoopIs
  <2> QED BY <1>1, <2>1, <2>2, <2>3 DEF LoopIs, StartedOnce, dbVars
<1>4. CASE SocketAborts
  <2>1. UNCHANGED <<server, dbVars, isClosed, connections, continuousRemoteChangesSyncRunning>>
    BY <1>4 DEF SocketAborts
  <2>2. CASE loop.at = "connected" /\ Catch("PromiseCanceledError")
    <3>1. "PromiseCanceledError" \in Errors
      BY DEF Errors
    <3> QED BY <1>1, <2>1, <2>2, <3>1, CatchLoop DEF LoopIs
  <2>3. CASE UNCHANGED <<loop, errorDelayTime>>
    BY <1>1, <2>1, <2>3 DEF LoopIs, StartedOnce, dbVars
  <2> QED BY <1>4, <2>2, <2>3 DEF SocketAborts
<1>5. CASE ServerCommits
  <2>1. server < MaxRevisions /\ server' = server + 1
        /\ UNCHANGED <<dbVars, isClosed, loopVars, connections>>
    BY <1>5 DEF ServerCommits
  <2>2. server' \in Times
    BY <1>1, <2>1, RevisionAssumption DEF LoopIs, Times
  <2> QED BY <1>1, <2>1, <2>2 DEF LoopIs, StartedOnce, dbVars, loopVars
<1>6. CASE Close
  BY <1>1, <1>6 DEF Close, LoopIs, StartedOnce, dbVars, loopVars
<1>7. ASSUME UNCHANGED <<server, dbVars, isClosed, loopVars, connections>>
      PROVE  LoopIs' /\ loop' = loop
  BY <1>1, <1>7 DEF LoopIs, StartedOnce, dbVars, loopVars
<1>8. CASE \/ ClientAborts \/ UNCHANGED vars
           \/ \E r \in Request : Progress(r) \/ Failure(r)
           \/ \E r \in Others : OtherRequest(r)
  <2>1. UNCHANGED <<server, dbVars, isClosed, loopVars, connections>>
    BY <1>8 DEF ClientAborts, vars, Progress, Failure, OtherRequest
  <2> QED BY <1>7, <2>1
<1> QED BY <1>2, <1>3, <1>4, <1>5, <1>6, <1>8

LEMMA NextLoop == InvLoop /\ [Next]_vars => InvLoop'
<1> SUFFICES ASSUME InvLoop, [Next]_vars PROVE InvLoop'
  OBVIOUS
<1>1. StepHTTP /\ InvHTTP'
  BY NextIsStepHTTP, StepInvHTTP DEF InvLoop
<1>2. LoopIs'
  BY AskLoop, PollLoop, SocketLoop, OtherLoop DEF Next, Loop
<1>3. GetIsOver'
  <2>1. CASE PollAnswered \/ PollDone \/ PollFailed
    BY <2>1, PollLoop DEF GetIsOver
  <2>2. CASE Ask
    <3>1. loop.at = "start"
      BY <2>2 DEF Ask
    <3> QED BY <2>2, <3>1, AskLoop DEF InvLoop, GetIsOver
  <2>3. CASE \E w \in Socket : Receive(w) \/ HandleMessage(w) \/ SocketCloses(w)
    BY <2>3, SocketLoop DEF InvLoop, GetIsOver
  <2>4. CASE \/ StartSync \/ StopWhenClosed \/ Retry \/ SocketAborts \/ ClientAborts
             \/ ServerCommits \/ Close
             \/ \E r \in Request : Progress(r) \/ Failure(r)
             \/ \E r \in Others : OtherRequest(r)
             \/ UNCHANGED vars
    <3>1. loop'.at # "polling" => loop.at # "polling"
      BY <2>4, OtherLoop
    <3>2. \/ \E u \in Connection : Finishes(u) \/ Suffers(u) \/ (u # The /\ Sends(u))
          \/ Abort \/ AbortActiveRequests
          \/ UNCHANGED httpVars
      <4>1. CASE \E r \in Request : Progress(r) \/ Failure(r)
        BY <4>1, RequestsStep DEF InvLoop, Connection
      <4>2. CASE \E r \in Others : OtherRequest(r)
        BY <4>2, RequestsStep DEF InvLoop, Connection, Others
      <4>3. CASE SocketAborts \/ ClientAborts
        BY <4>3 DEF SocketAborts, ClientAborts
      <4>4. CASE StartSync \/ StopWhenClosed \/ Retry \/ ServerCommits \/ Close \/ UNCHANGED vars
        BY <4>4 DEF StartSync, StopWhenClosed, Retry, ServerCommits, Close, vars
      <4> QED BY <2>4, <4>1, <4>2, <4>3, <4>4
    <3> QED BY <3>1, <3>2, OverStaysOver, TheIsRequest DEF InvLoop, GetIsOver
  <2> QED BY <2>1, <2>2, <2>3, <2>4 DEF Next, Loop
<1>4. (TypeOKLoop /\ StartedOnce)'
  BY <1>1, <1>2 DEF TypeOKLoop, TypeOK, LoopIs, LoopType, ConnectionsType, Times, InvHTTP, Places
<1> QED BY <1>1, <1>3, <1>4 DEF InvLoop

-----------------------------------------------------------------------------
(***************************************************************************)
(* What is in the store, while the messages of a lost websocket come       *)
(* before the loop's next turn and those that came are committed.  One     *)
(* websocket at most is open or has messages waiting, and these follow     *)
(* each other without a gap, the first of them from lastModified on; the   *)
(* GET asked from lastModified.                                            *)
(***************************************************************************)
ActiveOne ==
    \A w \in Socket : requests[w] = "active" => loop.at = "connected" /\ loop.socket = w

PendingOne ==
    \A w \in Socket :
        connections[w].queue # <<>> =>
            loop.socket = w /\ loop.at \notin {"idle", "start", "polling"}

Follow(queue, from, upTo) ==
    /\ queue = <<>> => upTo = from
    /\ queue # <<>> => queue[1].after = from /\ queue[Len(queue)].upTo = upTo
    /\ \A i \in 1 .. Len(queue) : queue[i].after <= queue[i].upTo
    /\ \A i \in 1 .. Len(queue) - 1 : queue[i].upTo = queue[i + 1].after

MessagesFollow ==
    \A w \in Socket :
        requests[w] = "active" \/ connections[w].queue # <<>> =>
            Follow(connections[w].queue, lastModified, connections[w].upTo)

AskedFromHere ==
    loop.at = "polling" =>
        /\ loop.after = lastModified
        /\ requests[The] \in {"body", "resolved"} => loop.after <= loop.upTo

InvStore ==
    /\ StoreIsAsOfLastModified
    /\ ~isClosed => ActiveOne /\ PendingOne /\ MessagesFollow /\ AskedFromHere

LEMMA InitStore == Init => InvStore
<1> SUFFICES ASSUME Init PROVE InvStore
  OBVIOUS
<1>1. StoreIsAsOfLastModified
  <2>1. \A k \in Key : {n \in 1 .. 0 : KeyOf[n] = k} = {}
    OBVIOUS
  <2> QED BY <2>1 DEF Init, StoreIsAsOfLastModified, ContentAt
<1>2. \A w \in Socket : requests[w] = "unsent" /\ connections[w].queue = <<>>
  BY DEF Init, InitHTTP
<1>3. loop.at = "idle"
  BY DEF Init
<1> QED BY <1>1, <1>2, <1>3
        DEF InvStore, ActiveOne, PendingOne, MessagesFollow, AskedFromHere

\* The last of some numbers is the last of more of them, the others being less.
LEMMA SameLast ==
    ASSUME NEW n \in Nat, NEW S, NEW T, S \subseteq T, T \subseteq 1 .. n, S # {},
           \A i \in T \ S : \A j \in S : i < j
    PROVE  (CHOOSE m \in S : \A k \in S : k <= m) = (CHOOSE m \in T : \A k \in T : k <= m)
<1> DEFINE last == CHOOSE m \in S : \A k \in S : k <= m
           lastOfAll == CHOOSE m \in T : \A k \in T : k <= m
<1>1. PICK x \in S : \A k \in S : k <= x
  BY LastExists
<1>2. x \in T /\ \A k \in T : k <= x
  BY <1>1
<1>3. last \in S /\ \A k \in S : k <= last
  BY <1>1
<1>4. lastOfAll \in T /\ \A k \in T : k <= lastOfAll
  BY <1>2
<1> HIDE DEF last, lastOfAll
<1>5. last = x /\ lastOfAll = x
  BY <1>1, <1>2, <1>3, <1>4
<1> QED BY <1>5 DEF last, lastOfAll

\* Committing the revisions that follow the store's brings it up to their end.
LEMMA CommitFollows ==
    ASSUME StoreIsAsOfLastModified, lastModified \in Times, NEW message \in Message,
           message.after = lastModified, message.after <= message.upTo, Commit(message)
    PROVE  StoreIsAsOfLastModified'
<1> DEFINE Early(k) == {n \in 1 .. message.after : KeyOf[n] = k}
           Late(k)  == {n \in message.after + 1 .. message.upTo : KeyOf[n] = k}
           All(k)   == {n \in 1 .. message.upTo : KeyOf[n] = k}
           Latest(S) == CHOOSE n \in S : \A m \in S : m <= n
<1>1. /\ message.after \in Nat /\ message.upTo \in Nat /\ lastModified' = message.upTo
      /\ message.upTo <= MaxRevisions /\ MaxRevisions \in Nat
  BY RevisionAssumption DEF Message, Times, Commit
<1>2. \A k \in Key : store[k] = IF Early(k) = {} THEN 0 ELSE Latest(Early(k))
  BY DEF StoreIsAsOfLastModified, ContentAt
<1>3. /\ store' = [k \in Key |-> store'[k]]
      /\ \A k \in Key : store'[k] = IF Late(k) = {} THEN store[k] ELSE Latest(Late(k))
  BY DEF Commit
<1>4. ASSUME NEW k \in Key PROVE store'[k] = IF All(k) = {} THEN 0 ELSE Latest(All(k))
  <2>1. All(k) = Early(k) \cup Late(k)
    BY <1>1
  <2>2. Late(k) \subseteq All(k) /\ All(k) \subseteq 1 .. message.upTo
    BY <1>1
  <2>3. \A i \in All(k) \ Late(k) : \A j \in Late(k) : i < j
    BY <1>1
  <2> HIDE DEF Early, Late, All
  <2>4. CASE Late(k) = {}
    <3>1. All(k) = Early(k)
      BY <2>1, <2>4
    <3> QED BY <1>2, <1>3, <2>4, <3>1
  <2>5. CASE Late(k) # {}
    <3>1. Latest(Late(k)) = Latest(All(k))
      BY <1>1, <2>2, <2>3, <2>5, SameLast
    <3>2. All(k) # {}
      BY <2>2, <2>5
    <3> HIDE DEF Latest
    <3> QED BY <1>3, <2>5, <3>1, <3>2
  <2> QED BY <2>4, <2>5
<1>5. ContentAt(message.upTo) = [k \in Key |-> IF All(k) = {} THEN 0 ELSE Latest(All(k))]
  BY DEF ContentAt
<1> HIDE DEF All, Latest
<1>6. store' = ContentAt(message.upTo)
  BY <1>3, <1>4, <1>5
<1>7. ContentAt(lastModified)' = ContentAt(message.upTo)
  BY <1>1 DEF ContentAt
<1> QED BY <1>6, <1>7 DEF StoreIsAsOfLastModified

\* The first message goes: the others still follow.
LEMMA FollowAfterFirst ==
    ASSUME NEW queue \in Seq(Message), queue # <<>>, NEW from, NEW upTo, Follow(queue, from, upTo)
    PROVE  Follow(Tail(queue), queue[1].upTo, upTo)
<1>1. /\ Tail(queue) \in Seq(Message) /\ Len(queue) \in Nat /\ Len(Tail(queue)) = Len(queue) - 1
      /\ \A i \in 1 .. Len(queue) - 1 : Tail(queue)[i] = queue[i + 1]
  OBVIOUS
<1>2. /\ queue[Len(queue)].upTo = upTo
      /\ \A i \in 1 .. Len(queue) : queue[i].after <= queue[i].upTo
      /\ \A i \in 1 .. Len(queue) - 1 : queue[i].upTo = queue[i + 1].after
  BY DEF Follow
<1>3. CASE Len(queue) = 1
  <2>1. Tail(queue) = <<>> /\ Len(<<>>) = 0
    BY <1>1, <1>3
  <2>2. Follow(<<>>, upTo, upTo)
    BY <2>1 DEF Follow
  <2> QED BY <1>2, <1>3, <2>1, <2>2
<1>4. CASE Len(queue) > 1
  <2>1. /\ Tail(queue) # <<>>
        /\ 1 \in 1 .. Len(queue) - 1 /\ Len(queue) - 1 \in 1 .. Len(queue) - 1
    <3>1. Len(Tail(queue)) # Len(<<>>)
      BY <1>1, <1>4
    <3>2. Tail(queue) # <<>>
      BY <3>1
    <3>3. 1 \in 1 .. Len(queue) - 1 /\ Len(queue) - 1 \in 1 .. Len(queue) - 1
      BY <1>1, <1>4
    <3> QED BY <3>2, <3>3
  <2>2. Tail(queue)[1].after = queue[1].upTo
    BY <1>1, <1>2, <2>1
  <2>3. Tail(queue)[Len(Tail(queue))].upTo = upTo
    BY <1>1, <1>2, <2>1
  <2>4. \A i \in 1 .. Len(Tail(queue)) : Tail(queue)[i].after <= Tail(queue)[i].upTo
    <3> TAKE i \in 1 .. Len(Tail(queue))
    <3>1. i + 1 \in 1 .. Len(queue) /\ Tail(queue)[i] = queue[i + 1]
      BY <1>1
    <3> QED BY <1>2, <3>1
  <2>5. \A i \in 1 .. Len(Tail(queue)) - 1 : Tail(queue)[i].upTo = Tail(queue)[i + 1].after
    <3> TAKE i \in 1 .. Len(Tail(queue)) - 1
    <3>1. /\ i + 1 \in 1 .. Len(queue) - 1 /\ i \in 1 .. Len(queue) - 1
          /\ Tail(queue)[i] = queue[i + 1] /\ Tail(queue)[i + 1] = queue[(i + 1) + 1]
      BY <1>1
    <3> QED BY <1>2, <3>1
  <2> QED BY <2>1, <2>2, <2>3, <2>4, <2>5 DEF Follow
<1>5. Len(queue) # 0
  OBVIOUS
<1> QED BY <1>1, <1>3, <1>4, <1>5

\* A message that starts where the connection had got to follows the others.
LEMMA FollowAppend ==
    ASSUME NEW queue \in Seq(Message), NEW from, NEW upTo, Follow(queue, from, upTo),
           NEW message \in Message, message.after = upTo, message.after <= message.upTo
    PROVE  Follow(Append(queue, message), from, message.upTo)
<1> DEFINE more == Append(queue, message)
<1>1. /\ Len(queue) \in Nat /\ Len(more) = Len(queue) + 1 /\ more # <<>>
      /\ \A i \in 1 .. Len(queue) : more[i] = queue[i]
      /\ more[Len(queue) + 1] = message
  OBVIOUS
<1>2. more[Len(more)].upTo = message.upTo
  BY <1>1
<1>3. \A i \in 1 .. Len(more) : more[i].after <= more[i].upTo
  BY <1>1 DEF Follow
<1>4. CASE queue = <<>>
  <2>1. Len(queue) = 0 /\ upTo = from
    BY <1>4 DEF Follow
  <2> QED BY <1>1, <1>2, <1>3, <2>1 DEF Follow
<1>5. CASE queue # <<>>
  <2>1. 1 \in 1 .. Len(queue) /\ Len(queue) \in 1 .. Len(queue)
    BY <1>5
  <2>2. more[1].after = from
    BY <1>1, <1>5, <2>1 DEF Follow
  <2>3. \A i \in 1 .. Len(more) - 1 : more[i].upTo = more[i + 1].after
    <3> TAKE i \in 1 .. Len(more) - 1
    <3>1. CASE i = Len(queue)
      BY <1>1, <1>5, <2>1, <3>1 DEF Follow
    <3>2. CASE i # Len(queue)
      <4>1. i \in 1 .. Len(queue) - 1 /\ i \in 1 .. Len(queue) /\ i + 1 \in 1 .. Len(queue)
        BY <1>1, <3>2
      <4> QED BY <1>1, <4>1 DEF Follow
    <3> QED BY <3>1, <3>2
  <2> QED BY <1>1, <1>2, <1>3, <2>2, <2>3 DEF Follow
<1> QED BY <1>4, <1>5

-----------------------------------------------------------------------------
(***************************************************************************)
(* The steps.                                                              *)
(***************************************************************************)

\* Nothing is committed once the database is closed.
LEMMA ClosedStays ==
    ASSUME InvStore, isClosed, [Next]_vars
    PROVE  InvStore'
<1>1. isClosed' /\ UNCHANGED dbVars
  <2>1. ASSUME NEW w \in Socket, Receive(w) \/ HandleMessage(w) \/ SocketCloses(w)
        PROVE  isClosed' /\ UNCHANGED dbVars
    BY <2>1 DEF Receive, HandleMessage, SocketCloses
  <2>2. ASSUME NEW r \in Request, Progress(r) \/ Failure(r) \/ OtherRequest(r)
        PROVE  isClosed' /\ UNCHANGED dbVars
    BY <2>2 DEF Progress, Failure, OtherRequest
  <2>3. CASE Ask \/ StopWhenClosed \/ Retry \/ PollAnswered \/ PollDone \/ PollFailed
    BY <2>3 DEF Ask, StopWhenClosed, Retry, PollAnswered, PollDone, PollFailed
  <2>4. CASE StartSync \/ SocketAborts \/ ClientAborts \/ ServerCommits \/ Close \/ UNCHANGED vars
    BY <2>4 DEF StartSync, SocketAborts, ClientAborts, ServerCommits, Close, vars
  <2> QED BY <2>1, <2>2, <2>3, <2>4 DEF Next, Loop, Others
<1>2. StoreIsAsOfLastModified'
  BY <1>1 DEF InvStore, StoreIsAsOfLastModified, ContentAt, dbVars
<1> QED BY <1>1, <1>2 DEF InvStore

\* Steps that open no websocket, and that answer no GET of the loop.
LEMMA QuietStep ==
    ASSUME InvStore, ~isClosed, UNCHANGED <<dbVars, isClosed, loop, connections>>,
           \A w \in Socket : requests'[w] = "active" => requests[w] = "active",
           requests'[The] \in {"body", "resolved"} => requests[The] \in {"body", "resolved"}
    PROVE  InvStore'
<1>1. StoreIsAsOfLastModified'
  BY DEF InvStore, StoreIsAsOfLastModified, ContentAt, dbVars
<1>2. ActiveOne' /\ PendingOne' /\ MessagesFollow' /\ AskedFromHere'
  BY DEF InvStore, ActiveOne, PendingOne, MessagesFollow, AskedFromHere, dbVars
<1> QED BY <1>1, <1>2 DEF InvStore

\* Steps after which no websocket is open and no message waits, or of a loop that
\* ended or is delayed.
LEMMA RestStep ==
    ASSUME InvStore, ~isClosed, UNCHANGED <<dbVars, isClosed, connections>>,
           \A w \in Socket : requests'[w] # "active",
           loop'.at # "polling",
           \/ \A w \in Socket : connections[w].queue = <<>>
           \/ loop'.socket = loop.socket /\ loop'.at \notin {"idle", "start", "polling"}
    PROVE  InvStore'
<1>1. StoreIsAsOfLastModified'
  BY DEF InvStore, StoreIsAsOfLastModified, ContentAt, dbVars
<1>2. PendingOne'
  BY DEF InvStore, PendingOne
<1>3. ActiveOne' /\ MessagesFollow' /\ AskedFromHere'
  BY DEF InvStore, ActiveOne, MessagesFollow, AskedFromHere, dbVars
<1> QED BY <1>1, <1>2, <1>3 DEF InvStore

LEMMA AskStore ==
    ASSUME InvLoop, InvStore, ~isClosed, Ask
    PROVE  InvStore'
<1>1. loop.at = "start" /\ UNCHANGED <<dbVars, isClosed>> /\ requests \in [Connection -> Phases]
  BY DEF Ask, InvLoop, InvHTTP, TypeOKHTTP, Connection
<1>2. \A w \in Socket : requests[w] # "active" /\ connections[w].queue = <<>>
  BY <1>1 DEF InvStore, ActiveOne, PendingOne
<1>3. StoreIsAsOfLastModified'
  BY <1>1 DEF InvStore, StoreIsAsOfLastModified, ContentAt, dbVars
<1>4. loop \in LoopType /\ connections \in ConnectionsType
  BY LoopIsLoop DEF InvLoop, LoopIs
<1>5. CASE loop.useWebSocket
  <2>1. PICK w \in Unused :
           /\ SendRequest(w)
           /\ loop' = [loop EXCEPT !.at = "connected", !.socket = w, !.after = lastModified]
           /\ connections' = [connections EXCEPT ![w].upTo = lastModified]
    BY <1>5 DEF Ask
  <2>2. w \in Socket /\ w \in Connection /\ requests' = [requests EXCEPT ![w] = "active"]
    BY <2>1 DEF Unused, Connection, SendRequest
  <2>3. loop'.at = "connected" /\ loop'.socket = w
    BY <1>4, <2>1 DEF LoopType
  <2>4. \A u \in Socket : requests'[u] = "active" => u = w
    BY <1>1, <1>2, <2>2 DEF Connection
  <2>5. /\ \A u \in Socket : connections'[u].queue = <<>>
        /\ connections'[w].upTo = lastModified
    BY <1>2, <1>4, <2>1, <2>2 DEF ConnectionsType
  <2>6. Follow(<<>>, lastModified, lastModified)
    BY DEF Follow
  <2> QED BY <1>1, <1>3, <2>3, <2>4, <2>5, <2>6
          DEF InvStore, ActiveOne, PendingOne, MessagesFollow, AskedFromHere, dbVars
<1>6. CASE ~loop.useWebSocket
  <2>1. /\ requests' = [requests EXCEPT ![The] = "active"]
        /\ loop' = [loop EXCEPT !.at = "polling", !.after = lastModified]
        /\ connections' = connections
    BY <1>6 DEF Ask, SendRequest
  <2>2. loop'.at = "polling" /\ loop'.after = lastModified
    BY <1>4, <2>1 DEF LoopType
  <2>3. \A u \in Socket : requests'[u] # "active"
    BY <1>1, <1>2, <2>1, TheIsRequest DEF Connection
  <2>4. requests'[The] = "active"
    BY <1>1, <2>1, TheIsRequest
  <2> QED BY <1>1, <1>2, <1>3, <2>1, <2>2, <2>3, <2>4
          DEF InvStore, ActiveOne, PendingOne, MessagesFollow, AskedFromHere, dbVars
<1> QED BY <1>5, <1>6

LEMMA PollStore ==
    ASSUME InvLoop, InvStore, ~isClosed, PollAnswered \/ PollDone \/ PollFailed
    PROVE  InvStore'
<1>1. /\ loop.at = "polling" /\ isClosed' = isClosed /\ connections' = connections
      /\ requests \in [Connection -> Phases]
  BY DEF PollAnswered, PollDone, PollFailed, InvLoop, InvHTTP, TypeOKHTTP, Connection
<1>2. \A w \in Socket : requests[w] # "active" /\ connections[w].queue = <<>>
  BY <1>1 DEF InvStore, ActiveOne, PendingOne
<1>3. LoopIs /\ loop \in LoopType
  BY LoopIsLoop DEF InvLoop, LoopIs
<1>4. CASE PollAnswered
  <2>1. /\ Finishes(The) /\ UNCHANGED dbVars
        /\ loop' = [loop EXCEPT !.upTo = server] /\ server > loop.after
    BY <1>4, RequestsStep DEF PollAnswered, InvLoop
  <2>2. \A w \in Socket : requests'[w] = requests[w]
    BY <1>1, <2>1, TheIsRequest DEF Finishes, Ends, Connection
  <2>3. loop'.at = "polling" /\ loop'.after = loop.after /\ loop'.upTo = server
    BY <1>1, <1>3, <2>1 DEF LoopType
  <2>4. loop'.after <= loop'.upTo
    BY <1>3, <2>1, <2>3, RevisionAssumption DEF LoopIs, LoopType, Times
  <2>5. StoreIsAsOfLastModified'
    BY <2>1 DEF InvStore, StoreIsAsOfLastModified, ContentAt, dbVars
  <2> QED BY <1>1, <1>2, <2>1, <2>2, <2>3, <2>4, <2>5
          DEF InvStore, ActiveOne, PendingOne, MessagesFollow, AskedFromHere, dbVars
<1>5. CASE PollFailed
  <2>1. requests[The] \in Errors /\ Catch(requests[The]) /\ UNCHANGED <<httpVars, dbVars>>
    BY <1>5 DEF PollFailed
  <2>2. loop'.at \in {"ended", "delayed", "failed"}
    BY <1>3, <2>1, CatchIs DEF InvLoop, LoopType, Places
  <2>3. requests' = requests
    BY <2>1 DEF httpVars
  <2> QED BY <1>1, <1>2, <2>1, <2>2, <2>3, RestStep
<1>6. CASE PollDone
  <2>1. requests' = requests /\ requests[The] = "resolved"
    BY <1>6 DEF PollDone, httpVars
  <2>2. CASE Commit([after |-> loop.after, upTo |-> loop.upTo]) /\ Goes("start")
    <3> DEFINE message == [after |-> loop.after, upTo |-> loop.upTo]
    <3>1. /\ message \in Message /\ message.after = lastModified /\ message.after <= message.upTo
          /\ Commit(message)
      BY <1>1, <1>3, <2>1, <2>2 DEF InvStore, AskedFromHere, LoopType, Message
    <3> HIDE DEF message
    <3>2. StoreIsAsOfLastModified'
      BY <1>3, <3>1, CommitFollows DEF InvStore, LoopIs
    <3>3. loop'.at = "start"
      BY <1>3, <2>2 DEF Goes, LoopType
    <3> QED BY <1>1, <1>2, <2>1, <3>2, <3>3
            DEF InvStore, ActiveOne, PendingOne, MessagesFollow, AskedFromHere
  <2>3. CASE Catch("Error") /\ UNCHANGED dbVars
    <3>1. loop'.at \in {"ended", "delayed", "failed"}
      BY <1>3, <2>3, CatchIs DEF InvLoop, LoopType, Places, Errors
    <3> QED BY <1>1, <1>2, <2>1, <2>3, <3>1, RestStep
  <2> QED BY <1>6, <2>2, <2>3 DEF PollDone
<1> QED BY <1>4, <1>5, <1>6

LEMMA ReceiveStore ==
    ASSUME InvLoop, InvStore, ~isClosed, NEW w \in Socket, Receive(w)
    PROVE  InvStore'
<1>1. /\ requests[w] = "active" /\ connections[w].upTo < server
      /\ UNCHANGED <<httpVars, dbVars, isClosed, loop>>
      /\ connections' = [connections EXCEPT ![w] =
            [upTo |-> server, queue |-> Append(connections[w].queue,
                  [after |-> connections[w].upTo, upTo |-> server])]]
  BY DEF Receive, loopVars
<1>2. LoopIs /\ connections \in ConnectionsType
  BY LoopIsLoop DEF InvLoop, LoopIs
<1>3. /\ connections[w].queue \in Seq(Message) /\ connections[w].upTo \in Times /\ server \in Times
      /\ MaxRevisions \in Nat
  BY <1>2, RevisionAssumption DEF LoopIs, ConnectionsType
<1> DEFINE message == [after |-> connections[w].upTo, upTo |-> server]
<1>4. /\ message \in Message /\ message.after = connections[w].upTo /\ message.upTo = server
      /\ message.after <= message.upTo
  BY <1>1, <1>3 DEF Message, Times
<1>5. /\ connections'[w].queue = Append(connections[w].queue, message) /\ connections'[w].upTo = server
      /\ \A u \in Socket \ {w} : connections'[u] = connections[u]
  BY <1>1, <1>2 DEF ConnectionsType
<1>6. Follow(connections'[w].queue, lastModified, connections'[w].upTo)
  <2>1. Follow(connections[w].queue, lastModified, connections[w].upTo)
    BY <1>1 DEF InvStore, MessagesFollow
  <2> HIDE DEF message
  <2> QED BY <1>3, <1>4, <1>5, <2>1, FollowAppend
<1>7. loop.at = "connected" /\ loop.socket = w
  BY <1>1 DEF InvStore, ActiveOne
<1>8. StoreIsAsOfLastModified'
  BY <1>1 DEF InvStore, StoreIsAsOfLastModified, ContentAt, dbVars
<1> QED BY <1>1, <1>5, <1>6, <1>7, <1>8
        DEF InvStore, ActiveOne, PendingOne, MessagesFollow, AskedFromHere, dbVars, httpVars

LEMMA HandleMessageStore ==
    ASSUME InvLoop, InvStore, ~isClosed, "socket" \notin CommitFails,
           NEW w \in Socket, HandleMessage(w)
    PROVE  InvStore'
<1> DEFINE queue == connections[w].queue
<1>1. /\ queue # <<>> /\ Commit(queue[1])
      /\ connections' = [connections EXCEPT ![w].queue = Tail(queue)]
      /\ UNCHANGED <<requests, loop, isClosed>>
  BY DEF HandleMessage, First, AfterFirst
<1>2. LoopIs /\ connections \in ConnectionsType
  BY LoopIsLoop DEF InvLoop, LoopIs
<1>3. queue \in Seq(Message) /\ queue[1] \in Message
  <2>1. queue \in Seq(Message)
    BY <1>2 DEF ConnectionsType
  <2> HIDE DEF queue
  <2> QED BY <1>1, <2>1
<1>4. /\ connections'[w].queue = Tail(queue) /\ connections'[w].upTo = connections[w].upTo
      /\ \A u \in Socket \ {w} : connections'[u] = connections[u]
  BY <1>1, <1>2 DEF ConnectionsType
<1>5. /\ loop.socket = w /\ loop.at \notin {"idle", "start", "polling"}
      /\ Follow(queue, lastModified, connections[w].upTo)
  BY <1>1 DEF InvStore, PendingOne, MessagesFollow
<1>6. \A u \in Socket \ {w} : requests[u] # "active" /\ connections[u].queue = <<>>
  BY <1>5 DEF InvStore, ActiveOne, PendingOne
<1> HIDE DEF queue
<1>7. /\ queue[1].after = lastModified /\ queue[1].after <= queue[1].upTo
      /\ lastModified' = queue[1].upTo
  <2>1. 1 \in 1 .. Len(queue)
    BY <1>1, <1>3
  <2> QED BY <1>1, <1>5, <2>1 DEF Follow, Commit
<1>8. StoreIsAsOfLastModified'
  BY <1>1, <1>2, <1>3, <1>7, CommitFollows DEF InvStore, LoopIs
<1>9. Follow(connections'[w].queue, lastModified', connections'[w].upTo)
  BY <1>1, <1>3, <1>4, <1>5, <1>7, FollowAfterFirst
<1>10. ActiveOne' /\ AskedFromHere'
  BY <1>1, <1>5 DEF InvStore, ActiveOne, AskedFromHere
<1>11. PendingOne'
  BY <1>1, <1>4, <1>5, <1>6 DEF PendingOne
<1>12. MessagesFollow'
  BY <1>1, <1>4, <1>6, <1>9 DEF MessagesFollow
<1> QED BY <1>8, <1>10, <1>11, <1>12 DEF InvStore

LEMMA SocketEnds ==
    ASSUME InvLoop, InvStore, ~isClosed,
           (\E w \in Socket : SocketCloses(w)) \/ SocketAborts
    PROVE  InvStore'
<1>1. LoopIs /\ loop \in LoopType /\ requests \in [Connection -> Phases]
  BY LoopIsLoop DEF InvLoop, LoopIs, InvHTTP, TypeOKHTTP, Connection
<1>2. "NetworkError" \in Errors /\ "PromiseCanceledError" \in Errors
  BY DEF Errors
<1>3. ASSUME NEW error \in Errors, Catch(error)
      PROVE  loop'.socket = loop.socket /\ loop'.at \notin {"idle", "start", "polling"}
  BY <1>1, <1>3, CatchIs DEF InvLoop, LoopType, Places
<1>4. ASSUME NEW w \in Socket, SocketCloses(w) PROVE InvStore'
  <2>1. /\ requests' = [requests EXCEPT ![w] = "NetworkError"]
        /\ UNCHANGED <<dbVars, isClosed, connections>>
    BY <1>4 DEF SocketCloses, Ends
  <2>2. /\ requests'[The] = requests[The]
        /\ \A u \in Socket : requests'[u] = "active" => requests[u] = "active" /\ u # w
    BY <1>1, <2>1, TheIsRequest DEF Connection
  <2>3. CASE loop' = loop
    BY <2>1, <2>2, <2>3, QuietStep
  <2>4. CASE loop.at = "connected" /\ loop.socket = w /\ Catch("NetworkError")
    <3>1. \A u \in Socket : requests'[u] # "active"
      BY <2>2, <2>4 DEF InvStore, ActiveOne
    <3>2. loop'.socket = loop.socket /\ loop'.at \notin {"idle", "start", "polling"}
      BY <1>2, <1>3, <2>4
    <3> QED BY <2>1, <3>1, <3>2, RestStep
  <2> QED BY <1>4, <2>3, <2>4 DEF SocketCloses
<1>5. CASE SocketAborts
  <2>1. PICK r \in Connection : signal.calls = {r}
    BY <1>5 DEF SocketAborts, Abort, InvLoop, InvHTTP, SignalCallsOne
  <2>2. UNCHANGED <<dbVars, isClosed, connections>>
    BY <1>5 DEF SocketAborts
  <2>3. /\ \A u \in Connection \ {r} : requests'[u] = requests[u]
        /\ requests'[r] \in {requests[r], "closing", "PromiseCanceledError", "aborting"}
        /\ r \in Socket => requests'[r] # "active"
    <3> DEFINE called == CHOOSE u \in signal.calls : TRUE
    <3>1. called = r
      BY <2>1
    <3> DEFINE aborted == called \in Request /\ platform = "xhr" /\ Active(called)
    <3>2. requests' = [requests EXCEPT ![called] =
               IF called \in Socket /\ requests[called] = "active" THEN "closing"
               ELSE IF ~Active(called) THEN requests[called]
               ELSE IF aborted THEN "PromiseCanceledError" ELSE "aborting"]
      BY <1>5 DEF SocketAborts, Abort
    <3> HIDE DEF called, aborted
    <3>3. requests' = [requests EXCEPT ![r] =
               IF r \in Socket /\ requests[r] = "active" THEN "closing"
               ELSE IF ~Active(r) THEN requests[r]
               ELSE IF aborted THEN "PromiseCanceledError" ELSE "aborting"]
      BY <3>1, <3>2
    <3>4. CASE r \in Socket /\ requests[r] = "active"
      BY <1>1, <3>3, <3>4
    <3>5. CASE ~(r \in Socket /\ requests[r] = "active") /\ ~Active(r)
      BY <1>1, <3>3, <3>5
    <3>6. CASE ~(r \in Socket /\ requests[r] = "active") /\ Active(r)
      BY <1>1, <3>3, <3>6
    <3> QED BY <3>4, <3>5, <3>6
  <2>4. /\ \A u \in Socket : requests'[u] = "active" => requests[u] = "active" /\ u # r
        /\ requests'[The] \in {"body", "resolved"} => requests[The] \in {"body", "resolved"}
    BY <2>3, TheIsRequest DEF Connection
  <2>5. CASE loop' = loop
    BY <2>2, <2>4, <2>5, QuietStep
  <2>6. CASE loop.at = "connected" /\ loop.socket \in signal.calls /\ Catch("PromiseCanceledError")
    <3>1. \A u \in Socket : requests'[u] # "active"
      BY <2>1, <2>4, <2>6 DEF InvStore, ActiveOne
    <3>2. loop'.socket = loop.socket /\ loop'.at \notin {"idle", "start", "polling"}
      BY <1>2, <1>3, <2>6
    <3> QED BY <2>2, <3>1, <3>2, RestStep
  <2> QED BY <1>5, <2>5, <2>6 DEF SocketAborts
<1> QED BY <1>4, <1>5

\* The steps of requests other than the answer to the loop's GET.
LEMMA RequestsStore ==
    ASSUME InvLoop, InvStore, ~isClosed,
           \/ \E r \in Request : Progress(r) \/ Failure(r)
           \/ \E r \in Others : OtherRequest(r)
    PROVE  InvStore'
<1>1. UNCHANGED <<dbVars, isClosed, loop, connections>>
  BY DEF Progress, Failure, OtherRequest, loopVars
<1>2. requests \in [Connection -> Phases]
  BY DEF InvLoop, InvHTTP, TypeOKHTTP, Connection
<1>3. ASSUME NEW r \in Request, Progress(r) \/ Failure(r)
      PROVE  /\ \A w \in Socket : requests'[w] = requests[w]
             /\ requests'[The] \in {"body", "resolved"} => requests[The] \in {"body", "resolved"}
  <2>1. PICK phase :
           /\ requests' = [requests EXCEPT ![r] = phase]
           /\ phase \in {"body", "resolved"} => requests[r] = "body"
    BY <1>3 DEF Progress, Failure, Body, AbortEvent, RequestFails, RequestTimesOut, Ends
  <2> QED BY <1>2, <2>1, SocketAssumption, TheIsRequest DEF Connection
<1>4. ASSUME NEW r \in Others, OtherRequest(r)
      PROVE  /\ \A w \in Socket : requests'[w] = requests[w]
             /\ requests'[The] = requests[The]
  <2>1. r \in Connection /\ r # The /\ r \notin Socket
    BY SocketAssumption DEF Others, Connection
  <2>2. PICK phase : requests' = [requests EXCEPT ![r] = phase]
    BY <1>4 DEF OtherRequest, SendRequest, Response, Ends
  <2> QED BY <1>2, <2>1, <2>2, TheIsRequest DEF Connection
<1> QED BY <1>1, <1>3, <1>4, QuietStep

LEMMA OtherStore ==
    ASSUME InvLoop, InvStore, ~isClosed, ~OldQueueLasts,
           \/ StartSync \/ StopWhenClosed \/ Retry \/ ClientAborts \/ ServerCommits \/ Close
           \/ UNCHANGED vars
    PROVE  InvStore'
<1>1. loop \in LoopType /\ StartedOnce
  BY LoopIsLoop DEF InvLoop, LoopIs
<1>2. CASE StartSync
  <2>1. /\ UNCHANGED <<dbVars, isClosed, connections, requests>>
        /\ loop.at = "idle" /\ loop'.at = "start"
    BY <1>1, <1>2 DEF StartSync, StartedOnce, httpVars, LoopType
  <2>2. \A w \in Socket : requests[w] # "active" /\ connections[w].queue = <<>>
    BY <2>1 DEF InvStore, ActiveOne, PendingOne
  <2> QED BY <2>1, <2>2, RestStep
<1>3. CASE Retry
  <2>1. /\ UNCHANGED <<dbVars, isClosed, connections, requests>> /\ Pending = {}
        /\ loop.at = "delayed" /\ loop'.at = "start"
    BY <1>1, <1>3 DEF Retry, MayRetry, Goes, httpVars, LoopType
  <2>2. \A w \in Socket : requests[w] # "active" /\ connections[w].queue = <<>>
    BY <2>1 DEF InvStore, ActiveOne, Pending
  <2> QED BY <2>1, <2>2, RestStep
<1>4. CASE Close
  <2>1. isClosed' /\ UNCHANGED dbVars
    BY <1>4 DEF Close
  <2>2. StoreIsAsOfLastModified'
    BY <2>1 DEF InvStore, StoreIsAsOfLastModified, ContentAt, dbVars
  <2> QED BY <2>1, <2>2 DEF InvStore
<1>5. CASE ClientAborts \/ ServerCommits \/ UNCHANGED vars
  <2>1. UNCHANGED <<dbVars, isClosed, loop, connections, requests>>
    BY <1>5 DEF ClientAborts, AbortActiveRequests, ServerCommits, vars, httpVars, loopVars
  <2> QED BY <2>1, QuietStep
<1> QED BY <1>2, <1>3, <1>4, <1>5 DEF StopWhenClosed

LEMMA NextStore ==
    ASSUME ~OldQueueLasts, "socket" \notin CommitFails, InvLoop, InvStore, [Next]_vars
    PROVE  InvStore'
<1>1. CASE isClosed
  BY <1>1, ClosedStays
<1>2. CASE ~isClosed
  BY <1>2, AskStore, PollStore, ReceiveStore, HandleMessageStore, SocketEnds, RequestsStore,
     OtherStore DEF Next, Loop
<1> QED BY <1>1, <1>2

-----------------------------------------------------------------------------

\* What is pulled, what waits to be pulled and where the loop is keep their types,
\* and the delay between two attempts stays between its bounds, however often the
\* network fails.
THEOREM ChangesTypeCorrect == Spec => []TypeOK
<1>1. InvLoop => TypeOK
  BY DEF InvLoop, TypeOKLoop
<1> QED BY <1>1, InitLoop, NextLoop, PTL DEF Spec

\* A request that is over has no handler left in the signal source, on any
\* platform, although handlers unsubscribed after it take others with them: the
\* list does not grow with the requests that were made, and an abort calls none
\* that is over.
THEOREM NoHandlerIsLeft == Spec => []NoHandlerLeft
<1>1. InvLoop => NoHandlerLeft
  <2>1. Settled \subseteq Over
    BY DEF Over
  <2> QED BY <2>1 DEF InvLoop, InvHTTP, OnlyRunningSubscribe, NoHandlerLeft, Contains
<1> QED BY <1>1, InitLoop, NextLoop, PTL DEF Spec

\* As long as no message of a lost websocket waits longer than the retry, and
\* those that come are committed, the store is the server's content as of
\* lastModified: the next request, which asks from there, misses nothing, and no
\* revision was replaced by an older one, through reconnections, aborts, failed
\* polls and closing.
THEOREM StoreFollowsLastModified ==
    ASSUME ~OldQueueLasts, "socket" \notin CommitFails
    PROVE  Spec => []StoreIsAsOfLastModified
<1>1. InvLoop /\ InvStore /\ [Next]_vars => InvStore'
  BY NextStore
<1>2. InvStore => StoreIsAsOfLastModified
  BY DEF InvStore
<1> QED BY <1>1, <1>2, InitLoop, NextLoop, InitStore, PTL DEF Spec
=============================================================================
