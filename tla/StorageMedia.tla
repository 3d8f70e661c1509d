---------------------------- MODULE StorageMedia ----------------------------
(***************************************************************************)
(* A database on one of the storage media (LocalDBOperations.open): the    *)
(* dispatcher calls the medium's adapter, and the program may crash at any *)
(* moment and be started again.                                            *)
(***************************************************************************)
EXTENDS StorageOperation

CONSTANTS Medium, Calls

ASSUME MediumAssumption ==
    Medium \subseteq {"InMemory", "LocalStorage", "LevelDB", "SQLite", "WebSQL", "IndexedDB"}

ASSUME CallsAssumption ==
    \A c \in Calls :
        \/ c.op \in {"open", "close", "destroy", "getObjectStoreNames"}
        \/ /\ c.op \in {"createObjectStoresIfNeeded", "deleteObjectStores", "clearObjectStores"}
           /\ c.names \subseteq Store
        \/ c.op = "set" /\ c.changes \in Changes
        \/ c.op \in {"get", "has"} /\ c.store \in Store /\ c.keys \in Seq(Key)
        \/ c.op \in {"getAll", "getAllKeys", "count", "createIterator"} /\ c.store \in Store

VARIABLE medium

InMemory   == INSTANCE InMemoryAdapter
WebStorage == INSTANCE WebStorageAdapter
LevelDB    == INSTANCE LevelUpAdapter
SQLite     == INSTANCE NodeSQLiteAdapter
WebSQL     == INSTANCE WebSQLAdapter
IndexedDB  == INSTANCE IndexedDBAdapter

mediaVars == <<medium, vars>>

Init ==
    /\ medium \in Medium
    /\ isOpen = FALSE
    /\ call = NoCall
    /\ reply = Null
    /\ run = Idle
    /\ CASE medium = "InMemory" -> InMemory!Init
         [] medium = "LocalStorage" -> WebStorage!Init
         [] medium = "LevelDB" -> LevelDB!Init
         [] medium = "SQLite" -> SQLite!Init
         [] medium = "WebSQL" -> WebSQL!Init
         [] medium = "IndexedDB" -> IndexedDB!Init

Content ==
    CASE medium = "InMemory" -> InMemory!Content
      [] medium = "LocalStorage" -> WebStorage!Content
      [] medium = "LevelDB" -> LevelDB!Content
      [] medium = "SQLite" -> SQLite!Content
      [] medium = "WebSQL" -> WebSQL!Content
      [] medium = "IndexedDB" -> IndexedDB!Content

(***************************************************************************)
(* The calls that are made.  Some are not, of some media, by any code:     *)
(* this is where an adapter does not keep the contract.  An adapter in     *)
(* memory answers calls while it is closed.  In memory and in IndexedDB,   *)
(* entries before one that cannot be cloned are stored.  SQLite leaves its *)
(* transaction open when a table is missing.  The operations open their    *)
(* adapter first, create the stores they use, and store what they encode.  *)
(***************************************************************************)
KeepsContract(c) ==
    /\ medium = "InMemory" => isOpen \/ c.op = "open"
    /\ medium \in {"InMemory", "IndexedDB"} /\ c.op = "set" => ~HasUncloneable(c.changes)
    /\ medium = "SQLite" /\ c.op = "set" => DOMAIN c.changes \subseteq DOMAIN Content
    /\ medium = "SQLite" /\ c.op = "clearObjectStores" => c.names \subseteq DOMAIN Content

Call ==
    /\ call = NoCall
    /\ \E c \in Calls : KeepsContract(c) /\ call' = c
    /\ reply' = Null
    /\ UNCHANGED <<medium, isOpen, disk, conn, run>>

Serve ==
    /\ \/ medium = "InMemory" /\ InMemory!Step
       \/ medium = "LocalStorage" /\ WebStorage!Step
       \/ medium = "LevelDB" /\ LevelDB!Step
       \/ medium = "SQLite" /\ SQLite!Step
       \/ medium = "WebSQL" /\ WebSQL!Step
       \/ medium = "IndexedDB" /\ IndexedDB!Step
    /\ UNCHANGED medium

Crash ==
    /\ \/ medium = "LocalStorage" /\ WebStorage!Crash
       \/ medium = "LevelDB" /\ LevelDB!Crash
       \/ medium = "SQLite" /\ SQLite!Crash
       \/ medium = "WebSQL" /\ WebSQL!Crash
       \/ medium = "IndexedDB" /\ IndexedDB!Crash
    /\ UNCHANGED medium

OtherTabCloses == medium = "IndexedDB" /\ conn.other /\ IndexedDB!OtherTab /\ UNCHANGED medium

Environment == medium = "IndexedDB" /\ IndexedDB!Environment /\ UNCHANGED medium

Next == Call \/ Serve \/ Crash \/ Environment

(***************************************************************************)
(* Fairness: the storage engine answers, and a tab that keeps others from  *)
(* changing the stores is closed some day.                                 *)
(***************************************************************************)
Spec ==
    /\ Init
    /\ [][Next]_mediaVars
    /\ WF_mediaVars(Serve)
    /\ WF_mediaVars(OtherTabCloses)
    /\ WF_mediaVars(Environment)

-----------------------------------------------------------------------------

TypeOK ==
    /\ medium \in Medium
    /\ isOpen \in BOOLEAN
    /\ call \in Calls \cup {NoCall}
    /\ Content \in Contents

\* Between calls nothing is left over: no rollback record, no transaction.
NothingLeftOver ==
    call = NoCall =>
        /\ run = Idle
        /\ medium = "LocalStorage" /\ isOpen => disk.record = <<>>
        /\ medium = "SQLite" => conn = Null

\* A rollback record that a crash, or a failed rollback, left behind is applied
\* when the database is next opened.
RecordAppliedWhenOpened ==
    [][medium = "LocalStorage" /\ call.op = "open" /\ call' = NoCall /\ reply' # Null
        => isOpen' /\ disk'.record = <<>>]_mediaVars

\* Every call is answered, or cut short by a crash: an operation that waits for
\* its adapter does not block the dispatcher for good.
EveryRequestAnswered == call # NoCall ~> call = NoCall

\* Whatever the medium, the adapter serves its calls as StorageAdapter says:
\* sets are atomic, also when one of their writes fails or the program crashes
\* in the middle of them; reads answer what was stored; removing stores removes
\* nothing else.
Adapter == INSTANCE StorageAdapter WITH
    stores <- Content,
    isOpen <- isOpen \/ (medium = "IndexedDB" /\ run.at = "upgrade")

ImplementsStorageAdapter == Adapter!Spec
=============================================================================
