--------------------------- MODULE LevelUpAdapter ---------------------------
(***************************************************************************)
(* src/src/DB/LocalDB/Storage Adapters/LevelUpAdapter.ts, over LevelDB: a  *)
(* put or a batch is atomic and may fail.                                  *)
(*                                                                         *)
(* disk.items  the records, under the prefix of a store and a key;         *)
(* disk.names  objectStoreNames in the record "@metadata".                 *)
(***************************************************************************)
EXTENDS StorageOperation

\* The records in the range from a store's prefix to the prefix and \uffff.
InRange(names) == {t \in DOMAIN disk.items : t[1] \in names}

GetRawValue(s, k) == EntryAt(disk.items, <<s, k>>)

Content ==
    [s \in disk.names |->
        [k \in {k \in Key : GetRawValue(s, k) # Null} |-> GetRawValue(s, k)]]

\* A batch of changes, Null standing for a deletion.
ExecBatch(batch) == disk' = [disk EXCEPT !.items = Merged(@, batch)]

PutNames(names) ==
    \/ disk' = [disk EXCEPT !.names = names] /\ Returns(Done)
    \/ UNCHANGED disk /\ Returns(Error)

Open ==
    /\ Called("open")
    /\ \/ isOpen' = TRUE /\ Returns(Done)
       \/ ~isOpen /\ UNCHANGED isOpen /\ Returns(Error)
    /\ UNCHANGED <<disk, conn>>

CreateObjectStoresIfNeeded ==
    /\ Called("createObjectStoresIfNeeded") /\ isOpen
    /\ PutNames(disk.names \cup call.names)
    /\ UNCHANGED <<isOpen, conn>>

\* deleteObjectStores clears first, in a batch of its own.
Clear ==
    /\ ExecBatch([t \in InRange(call.names) |-> Null])
    /\ IF call.op = "clearObjectStores" THEN Returns(Done) ELSE Goes([at |-> "put names"])

ClearObjectStores ==
    /\ call.op \in {"clearObjectStores", "deleteObjectStores"}
    /\ run = Idle /\ isOpen
    /\ \/ Clear
       \/ UNCHANGED disk /\ Returns(Error)
    /\ UNCHANGED <<isOpen, conn>>

EndDelete ==
    /\ run.at = "put names"
    /\ PutNames(disk.names \ call.names)
    /\ UNCHANGED <<isOpen, conn>>

Set ==
    /\ Called("set") /\ isOpen
    /\ \/ /\ DOMAIN call.changes \subseteq disk.names
          /\ ~HasUncloneable(call.changes)
          /\ ExecBatch([t \in Targets(call.changes) |-> EntryFor(call.changes, t)])
          /\ Returns(Done)
       \/ UNCHANGED disk /\ Returns(Error)
    /\ UNCHANGED <<isOpen, conn>>

\* A store that does not exist is one without records.
GetAll(s) == [k \in {t[2] : t \in InRange({s})} |-> disk.items[<<s, k>>]]

Answer(c) ==
    CASE c.op = "getObjectStoreNames" -> disk.names
      [] c.op = "get" -> [i \in DOMAIN c.keys |-> GetRawValue(c.store, c.keys[i])]
      [] c.op = "has" -> [i \in DOMAIN c.keys |-> GetRawValue(c.store, c.keys[i]) # Null]
      [] c.op \in {"getAll", "createIterator"} ->
           LET rows == GetAll(c.store)
               keys == InOrder(DOMAIN rows)
           IN  [i \in DOMAIN keys |-> <<keys[i], rows[keys[i]]>>]
      [] c.op = "getAllKeys" -> InOrder(DOMAIN GetAll(c.store))
      [] c.op = "count" -> Len(InOrder(DOMAIN GetAll(c.store)))

\* has looks at nothing but its keys.
HasNothing == call.op = "has" /\ AsksNothing(call)

\* Errors of the engine, and of the read stream, reject.
Read ==
    /\ call.op \in ReadOps
    /\ run = Idle
    /\ isOpen \/ HasNothing
    /\ \/ Returns(Answered(call, Answer(call)))
       \/ ~AsksNothing(call) /\ Returns(Error)
    /\ UNCHANGED <<isOpen, disk, conn>>

\* Also when closing fails, the adapter is closed.
Close ==
    /\ Called("close")
    /\ isOpen' = FALSE
    /\ Returns(Done) \/ (isOpen /\ Returns(Error))
    /\ UNCHANGED <<disk, conn>>

Destroy ==
    /\ Called("destroy") /\ isOpen
    /\ isOpen' = FALSE
    /\ Goes([at |-> "destroy"]) \/ Returns(Error)
    /\ UNCHANGED <<disk, conn>>

EndDestroy ==
    /\ run.at = "destroy"
    /\ \/ disk' = [items |-> [t \in {} |-> Null], names |-> {}] /\ Returns(Done)
       \/ UNCHANGED disk /\ Returns(Error)
    /\ UNCHANGED <<isOpen, conn>>

RejectClosed ==
    /\ ~isOpen /\ call.op \notin {"none", "open", "close"} /\ ~HasNothing
    /\ Rejected

Step ==
    \/ Open \/ CreateObjectStoresIfNeeded \/ ClearObjectStores \/ EndDelete
    \/ Set \/ Read \/ Close \/ Destroy \/ EndDestroy \/ RejectClosed

Crash == StopsAt(conn)

Init == disk = [items |-> [t \in {} |-> Null], names |-> {}] /\ conn = Null
=============================================================================
