-------------------------- MODULE WebStorageAdapter --------------------------
(***************************************************************************)
(* src/src/DB/LocalDB/Storage Adapters/WebStorageAdapter.ts.  The browser  *)
(* stores one string at a time, and setItem throws beyond its quota.  So   *)
(* set first stores a rollback record, the raw values it is about to       *)
(* replace, and removes it when all is written.                            *)
(*                                                                         *)
(* disk.items  the raw values, under the prefix of a store and a key;      *)
(* disk.names  objectStoreNames in the item "@metadata";                   *)
(* disk.record the item "@rollback", <<>> if there is none.                *)
(***************************************************************************)
EXTENDS StorageOperation

Item(t, items) == EntryAt(items, t)   \* getItem

PutItem(items, t, value) ==    \* setItem, or removeItem if the value is Null
    Merged(items, [u \in {t} |-> value])

\* Items whose raw key starts with the prefixes of these stores.
ItemsOf(names, items) == {t \in DOMAIN items : t[1] \in names}

(***************************************************************************)
(* What is stored: while there is a record, what it puts back.             *)
(***************************************************************************)
Recorded(t) == {disk.record[i] : i \in {i \in DOMAIN disk.record : disk.record[i].target = t}}

Restored(t) ==
    IF Recorded(t) # {} THEN (CHOOSE e \in Recorded(t) : TRUE).old ELSE Item(t, disk.items)

Content ==
    [s \in disk.names |->
        [k \in {k \in Key : Restored(<<s, k>>) # Null} |-> Restored(<<s, k>>)]]

-----------------------------------------------------------------------------

(***************************************************************************)
(* rollbackIfNeeded asks for the names of the stores, which throws in an   *)
(* adapter that is not open yet: with a record, open is always rejected.   *)
(***************************************************************************)
Open ==
    /\ Called("open")
    /\ IF disk.record = <<>> THEN isOpen' = TRUE /\ Returns(Done)
       ELSE IF isOpen THEN Goes([at |-> "restore", n |-> 1]) /\ UNCHANGED isOpen
       ELSE Returns(Error) /\ UNCHANGED isOpen
    /\ UNCHANGED <<disk, conn>>

PutNames(names) ==   \* the last step of create and delete
    \/ disk' = [disk EXCEPT !.names = names] /\ Returns(Done)
    \/ UNCHANGED disk /\ Returns(Error)

CreateObjectStoresIfNeeded ==
    /\ Called("createObjectStoresIfNeeded") /\ isOpen
    /\ PutNames(disk.names \cup call.names)
    /\ UNCHANGED <<isOpen, conn>>

\* Removes the items of the stores one by one, without a record.
Clears == IF call.op = "destroy" THEN disk.names ELSE call.names

StartClearing ==
    /\ call.op \in {"clearObjectStores", "deleteObjectStores", "destroy"}
    /\ run = Idle /\ isOpen
    /\ Goes([at |-> "clear"])
    /\ UNCHANGED <<isOpen, disk, conn>>

ClearItem ==
    /\ run.at = "clear"
    /\ \E t \in ItemsOf(Clears, disk.items) :
          disk' = [disk EXCEPT !.items = PutItem(@, t, Null)]
    /\ Goes(run)
    /\ UNCHANGED <<isOpen, conn>>

EndClearing ==
    /\ run.at = "clear"
    /\ ItemsOf(Clears, disk.items) = {}
    /\ CASE call.op = "clearObjectStores" -> UNCHANGED <<disk, isOpen>> /\ Returns(Done)
         [] call.op = "deleteObjectStores" -> PutNames(disk.names \ call.names) /\ UNCHANGED isOpen
         [] call.op = "destroy" ->
              \/ disk' = [disk EXCEPT !.names = {}] /\ isOpen' = FALSE /\ Returns(Done)
              \/ UNCHANGED <<disk, isOpen>> /\ Returns(Error)
    /\ UNCHANGED conn

-----------------------------------------------------------------------------

\* The rollback record, with the raw values as they are now.
Record ==
    LET targets == SetToSeq(Targets(call.changes))
    IN  [i \in DOMAIN targets |->
            [target |-> targets[i], old |-> Item(targets[i], disk.items)]]

StartSet ==
    /\ Called("set") /\ isOpen
    /\ \/ /\ DOMAIN call.changes \subseteq disk.names
          /\ disk' = [disk EXCEPT !.record = Record]
          /\ Goes([at |-> "write", n |-> 1])
       \/ Returns(Error) /\ UNCHANGED disk   \* an unknown store, or no room for the record
    /\ UNCHANGED <<isOpen, conn>>

WriteItem ==
    /\ run.at = "write" /\ run.n <= Len(disk.record)
    /\ LET target == disk.record[run.n].target
           new == EntryFor(call.changes, target)
       IN  \/ /\ new \notin Uncloneable
              /\ disk' = [disk EXCEPT !.items = PutItem(@, target, new)]
              /\ Goes([at |-> "write", n |-> run.n + 1])
           \/ /\ new # Null    \* encoding it, or setItem, throws
              /\ UNCHANGED disk
              /\ Goes([at |-> "restore", n |-> 1])
    /\ UNCHANGED <<isOpen, conn>>

KeepRecord == disk  \* mutant: the record is not removed

ClearRecord == [disk EXCEPT !.record = <<>>]

EndSet ==
    /\ run.at = "write" /\ run.n > Len(disk.record)
    /\ disk' = ClearRecord
    /\ Returns(Done)
    /\ UNCHANGED <<isOpen, conn>>

(***************************************************************************)
(* rollbackIfNeeded.  setItem may throw here too: the record then stays    *)
(* until the next set replaces it.                                         *)
(***************************************************************************)
KeptIfNew(items, entry) ==  \* mutant: a key that was not there stays
    IF entry.old = Null THEN items ELSE PutItem(items, entry.target, entry.old)

PutBack(items, entry) == PutItem(items, entry.target, entry.old)

RestoreItem ==
    /\ run.at = "restore" /\ run.n <= Len(disk.record)
    /\ LET entry == disk.record[run.n]
       IN  \/ /\ disk' = IF entry.target[1] \in disk.names
                         THEN [disk EXCEPT !.items = PutBack(@, entry)]
                         ELSE disk
              /\ Goes([at |-> "restore", n |-> run.n + 1])
           \/ /\ "rollback fails" \in Faults /\ entry.old # Null
              /\ UNCHANGED disk
              /\ Returns(Error)
    /\ UNCHANGED <<isOpen, conn>>

EndRestore ==
    /\ run.at = "restore" /\ run.n > Len(disk.record)
    /\ disk' = ClearRecord
    /\ isOpen' = TRUE
    /\ Returns(IF call.op = "open" THEN Done ELSE Error)
    /\ UNCHANGED conn

-----------------------------------------------------------------------------

GetAll(s) == [k \in {t[2] : t \in ItemsOf({s}, disk.items)} |-> disk.items[<<s, k>>]]

Answer(c) ==
    CASE c.op = "getObjectStoreNames" -> disk.names
      [] c.op \in {"get", "has"} ->
           [i \in DOMAIN c.keys |->
                LET raw == Item(<<c.store, c.keys[i]>>, disk.items)
                IN  IF c.op = "get" THEN raw ELSE raw # Null]
      [] c.op \in {"getAll", "createIterator"} ->
           LET rows == GetAll(c.store)
               keys == InOrder(DOMAIN rows)
           IN  [i \in DOMAIN keys |-> <<keys[i], rows[keys[i]]>>]
      [] c.op = "getAllKeys" -> InOrder(DOMAIN GetAll(c.store))
      [] c.op = "count" -> Len(InOrder(DOMAIN GetAll(c.store)))

\* Only get and has ask whether there is such a store.
Read ==
    /\ call.op \in ReadOps
    /\ run = Idle /\ isOpen
    /\ Returns(IF call.op \in {"get", "has"} /\ call.store \notin disk.names THEN Error
               ELSE Answered(call, Answer(call)))
    /\ UNCHANGED <<isOpen, disk, conn>>

Close ==
    /\ Called("close")
    /\ isOpen' = FALSE
    /\ Returns(Done)
    /\ UNCHANGED <<disk, conn>>

RejectClosed ==
    /\ ~isOpen /\ call.op \notin {"none", "open", "close"}
    /\ Rejected

Step ==
    \/ Open \/ CreateObjectStoresIfNeeded
    \/ StartClearing \/ ClearItem \/ EndClearing
    \/ StartSet \/ WriteItem \/ EndSet \/ RestoreItem \/ EndRestore
    \/ Read \/ Close \/ RejectClosed

Crash == StopsAt(conn)

Init == disk = [items |-> [t \in {} |-> Null], names |-> {}, record |-> <<>>] /\ conn = Null
=============================================================================
