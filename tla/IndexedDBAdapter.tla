-------------------------- MODULE IndexedDBAdapter --------------------------
(***************************************************************************)
(* src/src/DB/LocalDB/Storage Adapters/IndexedDBAdapter.ts.  Reads and     *)
(* writes are transactions of the browser.  Stores are created and deleted *)
(* by opening a newer version of the database, which waits until every     *)
(* other connection to it is closed, for four seconds at most.             *)
(*                                                                         *)
(* disk  the object stores;                                                *)
(* conn  other: another tab has the database open (no adapter closes its   *)
(*       connection because a newer version is asked for); late: a request *)
(*       to open a newer version was given up and still waits.             *)
(***************************************************************************)
EXTENDS StorageOperation

Content == disk

\* An adapter that changes versions has closed its connection, and will have
\* one again.
CanBeCalled == isOpen \/ run.at = "upgrade"

\* Requests to open wait for the one given up.
Open ==
    /\ Called("open")
    /\ isOpen \/ ~conn.late
    /\ \/ isOpen' = TRUE /\ Returns(Done)
       \/ ~isOpen /\ UNCHANGED isOpen /\ Returns(Error)
    /\ UNCHANGED <<disk, conn>>

NothingToDo ==
    \/ call.op = "createObjectStoresIfNeeded" /\ call.names \subseteq DOMAIN disk
    \/ call.op = "deleteObjectStores" /\ call.names \cap DOMAIN disk = {}

ChangeStores ==
    /\ call.op \in {"createObjectStoresIfNeeded", "deleteObjectStores"}
    /\ run = Idle /\ isOpen
    /\ IF NothingToDo THEN UNCHANGED isOpen /\ Returns(Done)
       ELSE isOpen' = FALSE /\ Goes([at |-> "upgrade", blocked |-> FALSE])
    /\ UNCHANGED <<disk, conn>>

Blocked ==
    /\ run.at = "upgrade" /\ ~run.blocked
    /\ conn.other /\ ~conn.late
    /\ Goes([at |-> "upgrade", blocked |-> TRUE])
    /\ UNCHANGED <<isOpen, disk, conn>>

\* The timer: the other connection is not closed, or the upgrade has not
\* begun.
Timeout ==
    /\ run.at = "upgrade" /\ run.blocked
    /\ conn' = [conn EXCEPT !.late = TRUE]
    /\ Returns(Error)
    /\ UNCHANGED <<isOpen, disk>>

\* The versionchange transaction, which may be aborted.
Upgrade ==
    /\ run.at = "upgrade"
    /\ ~conn.other /\ ~conn.late
    /\ \/ disk' = Effect(disk, call) /\ isOpen' = TRUE /\ Returns(Done)
       \/ UNCHANGED <<disk, isOpen>> /\ Returns(Error)
    /\ UNCHANGED conn

\* The upgrade that was given up begins, and its transaction is aborted.
AbortLateUpgrade ==
    /\ conn.late /\ ~conn.other
    /\ conn' = [conn EXCEPT !.late = FALSE]
    /\ UNCHANGED <<isOpen, disk, call, reply, run>>

OtherTab ==
    /\ \/ conn' = [conn EXCEPT !.other = FALSE]
       \/ /\ ~conn.late /\ run.at \notin {"upgrade", "delete"}
          /\ conn' = [conn EXCEPT !.other = TRUE]
    /\ UNCHANGED <<isOpen, disk, call, reply, run>>

-----------------------------------------------------------------------------

\* put throws on an entry that cannot be cloned, which does not abort the
\* transaction: what was put before is stored.
Set ==
    /\ Called("set") /\ isOpen
    /\ \/ /\ DOMAIN call.changes \subseteq DOMAIN disk
          /\ disk' = StoredBeforeFailure(disk, call.changes)
          /\ Returns(IF HasUncloneable(call.changes) THEN Error ELSE Done)
       \/ UNCHANGED disk /\ Returns(Error)
    /\ UNCHANGED <<isOpen, conn>>

ClearObjectStores ==
    /\ Called("clearObjectStores") /\ isOpen
    /\ \/ /\ call.names \subseteq DOMAIN disk
          /\ disk' = Emptied(disk, call.names)
          /\ Returns(Done)
       \/ UNCHANGED disk /\ Returns(Error)
    /\ UNCHANGED <<isOpen, conn>>

\* has is a get; getAll, getAllKeys, count and the cursor of createIterator
\* take the range of all keys.
Answer(c) ==
    IF c.op = "getObjectStoreNames" THEN DOMAIN disk
    ELSE IF c.op = "has"
    THEN LET got == Result(disk, [c EXCEPT !.op = "get"])
         IN  [i \in DOMAIN got |-> got[i] # Null]
    ELSE Result(disk, c)

\* has looks for no store when it has no keys to look for.
HasNothing == call.op = "has" /\ AsksNothing(call)

Read ==
    /\ call.op \in ReadOps
    /\ run = Idle /\ isOpen
    /\ \/ /\ call.op # "getObjectStoreNames" /\ ~HasNothing => call.store \in DOMAIN disk
          /\ Returns(Answered(call, Answer(call)))
       \/ ~HasNothing /\ Returns(Error)
    /\ UNCHANGED <<isOpen, disk, conn>>

Close ==
    /\ Called("close")
    /\ isOpen' = FALSE
    /\ Returns(Done)
    /\ UNCHANGED <<disk, conn>>

\* deleteDatabase waits for the other connections, without a limit.
Destroy ==
    /\ Called("destroy")
    /\ isOpen' = FALSE
    /\ Goes([at |-> "delete"])
    /\ UNCHANGED <<disk, conn>>

DeleteDatabase ==
    /\ run.at = "delete"
    /\ ~conn.other /\ ~conn.late
    /\ \/ disk' = NoStores /\ Returns(Done)
       \/ UNCHANGED disk /\ Returns(Error)
    /\ UNCHANGED <<isOpen, conn>>

RejectClosed ==
    /\ ~isOpen /\ call.op \notin {"none", "open", "close", "destroy"}
    /\ Rejected

Step ==
    \/ Open \/ ChangeStores \/ Blocked \/ Timeout \/ Upgrade
    \/ Set \/ ClearObjectStores \/ Read \/ Close \/ Destroy \/ DeleteDatabase \/ RejectClosed

Environment == AbortLateUpgrade \/ OtherTab

\* Closing the tab drops its requests.
Crash == StopsAt([conn EXCEPT !.late = FALSE])

Init == disk = NoStores /\ conn \in [other : BOOLEAN, late : {FALSE}]
=============================================================================
