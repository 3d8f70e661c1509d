---------------------------- MODULE WebSQLAdapter ----------------------------
(***************************************************************************)
(* src/src/DB/LocalDB/Storage Adapters/WebSQLAdapter.ts: the statements of *)
(* a call are queued in one transaction, which the browser commits, or     *)
(* rolls back and reports an error.  `disk' are the tables.                *)
(***************************************************************************)
EXTENDS SQLStatements

Content == disk

Open ==
    /\ Called("open")
    /\ \/ isOpen' = TRUE /\ Returns(Done)
       \/ ~isOpen /\ UNCHANGED isOpen /\ Returns(Error)
    /\ UNCHANGED <<disk, conn>>

Transact(statements) ==
    LET tables[n \in 0 .. Len(statements)] ==
            IF n = 0 THEN disk ELSE After(statements[n], tables[n - 1])
    IN  /\ \A n \in 1 .. Len(statements) : Executable(statements[n], tables[n - 1])
        /\ disk' = tables[Len(statements)]

NeverSettles == Goes([at |-> "unsettled"])  \* mutant: no error callback

Fails == Returns(Error)

\* transaction, or changeVersion where stores are created or deleted.
Write ==
    /\ call.op \in WriteOps
    /\ run = Idle /\ isOpen
    /\ \/ /\ call.op = "set" => ~HasUncloneable(call.changes)
          /\ Transact(Statements(call, disk))
          /\ Returns(Done)
       \/ UNCHANGED disk /\ Fails
    /\ UNCHANGED <<isOpen, conn>>

\* getObjectStoreNames passes no callback for a transaction that fails: its
\* promise never settles.
NamesTransactionFails ==
    /\ "read transaction fails" \in Faults
    /\ call.op \in {"getObjectStoreNames", "destroy"}
    /\ run = Idle /\ isOpen
    /\ Goes([at |-> "unsettled"])
    /\ UNCHANGED <<isOpen, disk, conn>>

\* No transaction is begun for no keys.
Read ==
    /\ call.op \in ReadOps
    /\ run = Idle
    /\ \/ AsksNothing(call) /\ Returns(Answered(call, <<>>))
       \/ /\ ~AsksNothing(call) /\ isOpen
          /\ \/ Answerable(call, disk) /\ Returns(Answered(call, Answer(call, disk)))
             \/ Returns(Error)
    /\ UNCHANGED <<isOpen, disk, conn>>

Close ==
    /\ Called("close")
    /\ isOpen' = FALSE
    /\ Returns(Done)
    /\ UNCHANGED <<disk, conn>>

\* The names, a transaction that drops the tables, close.
Destroy ==
    /\ Called("destroy") /\ isOpen
    /\ \/ Transact(Statements(call, disk)) /\ isOpen' = FALSE /\ Returns(Done)
       \/ UNCHANGED <<disk, isOpen>> /\ Returns(Error)
    /\ UNCHANGED conn

RejectClosed ==
    /\ ~isOpen /\ call.op \notin {"none", "open", "close"} /\ ~AsksNothing(call)
    /\ Rejected

Step == Open \/ Write \/ NamesTransactionFails \/ Read \/ Close \/ Destroy \/ RejectClosed

Crash == StopsAt(conn)

Init == disk = NoStores /\ conn = Null
=============================================================================
