--------------------------- MODULE StorageAdapter ---------------------------
(***************************************************************************)
(* What LocalDBOperations asks of a storage adapter: each call is one step *)
(* on the stored content or leaves it alone and is rejected, and a crash   *)
(* loses nothing.  Only a call that removes whole stores may remove them   *)
(* bit by bit, and be rejected, or cut short by a crash, after a part.     *)
(***************************************************************************)
EXTENDS ObjectStores

CONSTANT Calls   \* every call that may be made

VARIABLES isOpen, stores,
          call,   \* the call being served, NoCall if there is none
          reply   \* the outcome of the last call, Null while one is served

vars == <<isOpen, stores, call, reply>>

Init ==
    /\ isOpen = FALSE
    /\ stores = NoStores
    /\ call = NoCall
    /\ reply = Null

\* The dispatcher in front of the operations makes one call at a time.
Call(c) ==
    /\ call = NoCall
    /\ call' = c
    /\ reply' = Null
    /\ UNCHANGED <<isOpen, stores>>

Reply(r) ==
    /\ call' = NoCall
    /\ reply' = r

Open ==
    /\ call.op = "open"
    /\ isOpen' = TRUE
    /\ Reply(Done)
    /\ UNCHANGED stores

Close ==
    /\ call.op = "close"
    /\ isOpen' = FALSE
    /\ Reply(Done)
    /\ UNCHANGED stores

Destroy ==
    /\ call.op = "destroy"
    /\ isOpen' = FALSE
    /\ stores' = NoStores
    /\ Reply(Done)

Write ==
    /\ isOpen
    /\ call.op \in WriteOps
    /\ call.op = "set" => /\ \A t \in Targets(call.changes) : t[1] \in DOMAIN stores
                          /\ ~HasUncloneable(call.changes)
    /\ stores' = Effect(stores, call)
    /\ Reply(Done)
    /\ UNCHANGED isOpen

\* Where nothing is asked for, there may be no adapter open to answer.
Read ==
    /\ isOpen \/ AsksNothing(call)
    /\ call.op \in ReadOps
    /\ Reply(Answered(call, Result(stores, call)))
    /\ UNCHANGED <<isOpen, stores>>

\* Some of what is to be removed is gone; a destroyed adapter closes first.
Removable ==
    CASE call.op \in {"clearObjectStores", "deleteObjectStores"} -> call.names
      [] call.op = "destroy" -> DOMAIN stores
      [] OTHER -> {}

IsPartOf(rows, all) == DOMAIN rows \subseteq DOMAIN all /\ \A k \in DOMAIN rows : rows[k] = all[k]

RemovePart ==
    /\ call.op \in {"clearObjectStores", "deleteObjectStores", "destroy"}
    /\ DOMAIN stores' \subseteq DOMAIN stores
    /\ \A s \in DOMAIN stores :
          IF s \in DOMAIN stores' THEN IsPartOf(stores'[s], stores[s]) ELSE call.op = "destroy"
    /\ \A s \in DOMAIN stores \ Removable : stores'[s] = stores[s]
    /\ isOpen' = isOpen \/ (call.op = "destroy" /\ isOpen' = FALSE)
    /\ UNCHANGED <<call, reply>>

\* A rejected call may leave the adapter closed, and open may leave it open.
Reject ==
    /\ call # NoCall
    /\ isOpen' \in {isOpen, FALSE, call.op = "open"}
    /\ Reply(Error)
    /\ UNCHANGED stores

Crash ==
    /\ isOpen' = FALSE
    /\ call' = NoCall
    /\ UNCHANGED <<stores, reply>>

Next ==
    \/ \E c \in Calls : Call(c)
    \/ Open \/ Close \/ Destroy \/ Write \/ Read \/ RemovePart \/ Reject \/ Crash

Spec == Init /\ [][Next]_vars
=============================================================================
