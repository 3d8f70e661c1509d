----------------------------- MODULE HTTPClient -----------------------------
(***************************************************************************)
(* The requests of one client (src/src/Library/Base/HTTPClient.ts,         *)
(* src/src/DB/Client/Client.ts): how each comes to an end on the platform  *)
(* the program runs on, and the SignalSource they share, through which     *)
(* abortActiveRequests ends them.                                          *)
(***************************************************************************)
EXTENDS Naturals, Sequences, SequencesExt

CONSTANTS Request, Socket,   \* the HTTP requests and the websockets of the client
          Platforms,         \* among "node", "xhr", "fetch"
          Faults             \* failures that leave a request unsettled

ASSUME PlatformAssumption == Platforms \subseteq {"node", "xhr", "fetch"}

ASSUME SocketAssumption == Request \cap Socket = {}

VARIABLES platform,
          requests,   \* where each request is, and how its promise was settled
          handlers,   \* subscribedHandlers of the abort signal
          signal      \* what is left of a call of abortActiveRequests

httpVars == <<platform, requests, handlers, signal>>

Errors  == {"HTTPError", "NetworkError", "PromiseCanceledError", "Error"}
Settled == {"resolved"} \cup Errors

\* "body": the response has come, its body has not; "aborting": aborted, the
\* event has not fired; "hangs": nothing will happen any more.
Phases == {"unsent", "active", "body", "aborting", "closing", "hangs"} \cup Settled

Active(r) ==
    requests[r] \in {"active", "body"} \cup (IF platform = "node" THEN {"hangs"} ELSE {})

\* unsubscribe: the handler and, splice having no count, all that came later.
Kept(list, r) == list  \* mutant: not unsubscribed

Unsubscribed(list, r) ==
    IF Contains(list, r) THEN SubSeq(list, 1, SelectInSeq(list, LAMBDA h : h = r) - 1) ELSE list

Ends(r, phase) ==
    /\ requests' = [requests EXCEPT ![r] = phase]
    /\ handlers' = Unsubscribed(handlers, r)
    /\ UNCHANGED <<platform, signal>>

\* What fetch sends cannot be aborted.
SendRequest(r) ==
    /\ requests' = [requests EXCEPT ![r] = "active"]
    /\ handlers' = IF r \in Request /\ platform = "fetch" THEN handlers ELSE Append(handlers, r)
    /\ UNCHANGED <<platform, signal>>

\* requestAndErrorOnUnexpectedResponse: a status of 400 or more is an error.
\* XMLHttpRequest loads status and body at once.
Response(r) ==
    /\ r \in Request /\ requests[r] = "active"
    /\ \/ platform = "xhr" /\ \E phase \in {"resolved", "HTTPError"} : Ends(r, phase)
       \/ platform # "xhr" /\ Ends(r, "body")

\* A body that breaks off is an error with fetch; in Node nothing settles the
\* promise, as onResponse is not awaited.
Body(r) ==
    /\ requests[r] = "body"
    /\ \/ \E phase \in {"resolved", "HTTPError"} : Ends(r, phase)
       \/ "body fails" \in Faults /\ Ends(r, IF platform = "fetch" THEN "Error" ELSE "hangs")

RequestFails(r) ==
    /\ r \in Request /\ requests[r] = "active"
    /\ Ends(r, "NetworkError")

(***************************************************************************)
(* The timeout that is set: XMLHttpRequest gives the request up, and fires *)
(* an event nobody listens to; in Node the event is all there is, so a     *)
(* connection that went dead stays.                                        *)
(***************************************************************************)
RequestTimesOut(r) ==
    /\ "timeout" \in Faults
    /\ r \in Request /\ requests[r] = "active"
    /\ requests' = [requests EXCEPT ![r] = "hangs"]
    /\ UNCHANGED <<platform, handlers, signal>>

-----------------------------------------------------------------------------

NoSignal == [at |-> 0, calls |-> {}, active |-> {}]

\* signal(): the loop takes the handler at a place of the list, gives way, and
\* calls it; the list may have changed meanwhile.  `active' are the requests
\* that were when it began.
Takes(list, n, active) ==
    IF n <= Len(list) THEN [at |-> n, calls |-> {list[n]}, active |-> active] ELSE NoSignal

AbortActiveRequests ==
    /\ signal = NoSignal
    /\ signal' = Takes(handlers, 1, {r \in Request \cup Socket : Active(r)})
    /\ UNCHANGED <<platform, requests, handlers>>

\* The handler of a request that is over does nothing.  XMLHttpRequest fires its
\* event at once, Node before anything else runs, a websocket when it is closed.
Abort ==
    /\ signal # NoSignal
    /\ \A r \in Request : requests[r] # "aborting"
    /\ LET r == CHOOSE r \in signal.calls : TRUE
           aborted == r \in Request /\ platform = "xhr" /\ Active(r)
       IN  /\ requests' = [requests EXCEPT ![r] =
                  IF r \in Socket /\ @ = "active" THEN "closing"
                  ELSE IF ~Active(r) THEN @
                  ELSE IF aborted THEN "PromiseCanceledError" ELSE "aborting"]
           /\ handlers' = IF aborted THEN Unsubscribed(handlers, r) ELSE handlers
           /\ signal' = Takes(handlers', signal.at + 1, signal.active)
    /\ UNCHANGED platform

AbortEvent(r) ==
    /\ requests[r] = "aborting"
    /\ Ends(r, "PromiseCanceledError")

InitHTTP ==
    /\ platform \in Platforms
    /\ requests = [r \in Request \cup Socket |-> "unsent"]
    /\ handlers = <<>>
    /\ signal = NoSignal

TypeOKHTTP ==
    /\ platform \in Platforms
    /\ requests \in [Request \cup Socket -> Phases]
    /\ handlers \in Seq(Request \cup Socket)
    /\ signal.calls \subseteq Request \cup Socket

\* A request that is over has no handler left in the signal source: a later
\* abort does not touch it, and the list does not grow with every request.
NoHandlerLeft ==
    \A r \in Request \cup Socket : requests[r] \in Settled => ~Contains(handlers, r)
=============================================================================
