-------------------------- MODULE NodeSQLiteAdapter --------------------------
(***************************************************************************)
(* src/src/DB/LocalDB/Storage Adapters/NodeSQLiteAdapter.ts: statements    *)
(* are run and awaited one by one.                                         *)
(*                                                                         *)
(* disk  the tables, as last committed;                                    *)
(* conn  the tables as the connection sees them while its transaction is   *)
(*       open, Null if none is.                                            *)
(***************************************************************************)
EXTENDS SQLStatements

Content == disk

\* A PRAGMA that fails rejects open and leaves the adapter open.
Open ==
    /\ Called("open")
    /\ \/ isOpen' = TRUE /\ Returns(Done)
       \/ ~isOpen /\ isOpen' \in BOOLEAN /\ Returns(Error)
    /\ UNCHANGED <<disk, conn>>

Visible == IF conn = Null THEN disk ELSE conn

Writes == WriteOps \cup {"destroy"}

\* BEGIN TRANSACTION: refused within a transaction.  Entries are encoded
\* before it.
BeginTransaction ==
    /\ call.op \in Writes
    /\ run = Idle /\ isOpen
    /\ \/ /\ conn = Null
          /\ call.op = "set" => ~HasUncloneable(call.changes)
          /\ conn' = disk
          /\ Goes([at |-> "statement", n |-> 1, all |-> Statements(call, disk)])
       \/ UNCHANGED conn /\ Returns(Error)
    /\ UNCHANGED <<isOpen, disk>>

RunStatement ==
    /\ run.at = "statement" /\ run.n <= Len(run.all)
    /\ Executable(run.all[run.n], conn)
    /\ conn' = After(run.all[run.n], conn)
    /\ Goes([run EXCEPT !.n = @ + 1])
    /\ UNCHANGED <<isOpen, disk>>

CommitTransaction ==
    /\ run.at = "statement" /\ run.n > Len(run.all)
    /\ disk' = conn
    /\ conn' = Null
    /\ IF call.op = "destroy" THEN Goes([at |-> "close"]) ELSE Returns(Done)
    /\ UNCHANGED isOpen

\* A statement or COMMIT fails: there is no ROLLBACK.
StatementFails ==
    /\ run.at = "statement"
    /\ "statement fails" \in Faults
    /\ Returns(Error)
    /\ UNCHANGED <<isOpen, disk, conn>>

\* runSQL, on the same connection.  No statement is run for no keys.
Read ==
    /\ call.op \in ReadOps
    /\ run = Idle
    /\ \/ AsksNothing(call) /\ Returns(Answered(call, <<>>))
       \/ /\ ~AsksNothing(call) /\ isOpen
          /\ \/ Answerable(call, Visible) /\ Returns(Answered(call, Answer(call, Visible)))
             \/ Returns(Error)
    /\ UNCHANGED <<isOpen, disk, conn>>

\* Closing the connection drops its transaction.  destroy then removes the
\* file.
Close ==
    /\ Called("close") \/ run.at = "close"
    /\ isOpen' = FALSE
    /\ conn' = Null
    /\ \/ /\ disk' = IF call.op = "destroy" THEN NoStores ELSE disk
          /\ Returns(Done)
       \/ isOpen /\ UNCHANGED disk /\ Returns(Error)

RejectClosed ==
    /\ ~isOpen /\ call.op \notin {"none", "open", "close"} /\ ~AsksNothing(call)
    /\ Rejected

Step ==
    \/ Open \/ BeginTransaction \/ RunStatement \/ CommitTransaction \/ StatementFails
    \/ Read \/ Close \/ RejectClosed

Crash == StopsAt(Null)

Init == disk = NoStores /\ conn = Null
=============================================================================
