-------------------------- MODULE StorageOperation --------------------------
(***************************************************************************)
(* The state the adapters share: one call at a time, in several steps, any *)
(* of which a crash may follow.  `disk' is what outlives the program; each *)
(* adapter lays it out in its own way.                                     *)
(***************************************************************************)
EXTENDS ObjectStores

CONSTANT Faults   \* the failures an adapter does not recover from that may happen

VARIABLES isOpen,
          disk,
          conn,   \* what the connection to the storage engine remembers
          call, reply,
          run     \* how far the call is

vars == <<isOpen, disk, conn, call, reply, run>>

Idle == [at |-> "idle"]

\* The call of op is taken up.
Called(op) == call.op = op /\ run = Idle

Goes(state) ==
    /\ run' = state
    /\ UNCHANGED <<call, reply>>

Returns(r) ==
    /\ call' = NoCall
    /\ reply' = r
    /\ run' = Idle

\* Rejected before it did anything.
Rejected ==
    /\ run = Idle
    /\ Returns(Error)
    /\ UNCHANGED <<isOpen, disk, conn>>

StopsAt(connection) ==
    /\ isOpen' = FALSE
    /\ conn' = connection
    /\ call' = NoCall
    /\ run' = Idle
    /\ UNCHANGED <<disk, reply>>

\* The content when the entries of a transaction were stored one after another
\* up to the first that cannot be cloned.
StoredBeforeFailure(content, changes) ==
    LET targets == SetToSeq(Targets(changes))
        failures == {n \in 1 .. Len(targets) : EntryFor(changes, targets[n]) \in Uncloneable}
        stored[n \in 0 .. Len(targets)] ==
            IF n = 0 THEN content
            ELSE LET s == targets[n][1]
                     k == targets[n][2]
                 IN  [stored[n - 1] EXCEPT ![s] = Merged(@, [j \in {k} |-> changes[s][k]])]
    IN  stored[IF failures = {} THEN Len(targets)
               ELSE (CHOOSE n \in failures : \A m \in failures : n <= m) - 1]
=============================================================================
