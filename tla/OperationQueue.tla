--------------------------- MODULE OperationQueue ---------------------------
(***************************************************************************)
(* What a database asks of the dispatcher in front of its operations: they *)
(* are executed one at a time, each in a single step, in the order they    *)
(* were called in, and their results come back in that order.  The actions *)
(* of LocalDBOperations are atomic because of this.                        *)
(***************************************************************************)
EXTENDS Sequences, Naturals

CONSTANT Task   \* the operations that will be called, each once

VARIABLES calls,    \* called, not executed yet
          executed, \* executed, with their outcome
          storage,  \* the operations whose effect is in storage
          replies   \* how many outcomes were given back

vars == <<calls, executed, storage, replies>>

Init ==
    /\ calls = <<>>
    /\ executed = <<>>
    /\ storage = <<>>
    /\ replies = 0

Call(t) ==
    /\ \A i \in 1 .. Len(calls) : calls[i] # t
    /\ \A i \in 1 .. Len(executed) : executed[i].task # t
    /\ calls' = Append(calls, t)
    /\ UNCHANGED <<executed, storage, replies>>

\* A failed operation has no effect, or the part of it that came before it failed.
Execute(ok) ==
    /\ calls # <<>>
    /\ executed' = Append(executed, [task |-> Head(calls), ok |-> ok])
    /\ \/ storage' = Append(storage, Head(calls))
       \/ ~ok /\ storage' = storage
    /\ calls' = Tail(calls)
    /\ UNCHANGED replies

Reply ==
    /\ replies < Len(executed)
    /\ replies' = replies + 1
    /\ UNCHANGED <<calls, executed, storage>>

Next ==
    \/ \E t \in Task : Call(t)
    \/ \E ok \in BOOLEAN : Execute(ok)
    \/ Reply

Spec == Init /\ [][Next]_vars
=============================================================================
