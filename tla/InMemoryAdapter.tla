--------------------------- MODULE InMemoryAdapter ---------------------------
(***************************************************************************)
(* src/src/DB/LocalDB/Storage Adapters/InMemoryAdapter.ts: `disk' is       *)
(* objectStores, which lives as long as the adapter.  Every operation runs *)
(* to its end once it is started, and none looks at isOpen.                *)
(***************************************************************************)
EXTENDS StorageOperation

Content == disk

Missing(names) == names \ DOMAIN disk

Open ==
    /\ Called("open")
    /\ isOpen' = TRUE
    /\ Returns(Done)
    /\ UNCHANGED <<disk, conn>>

ChangeStores ==
    /\ call.op \in {"createObjectStoresIfNeeded", "deleteObjectStores", "clearObjectStores"}
    /\ run = Idle
    /\ IF call.op = "clearObjectStores" /\ Missing(call.names) # {}
       THEN UNCHANGED disk /\ Returns(Error)
       ELSE disk' = Effect(disk, call) /\ Returns(Done)
    /\ UNCHANGED <<isOpen, conn>>

\* Clones and stores entry after entry: those before one that cannot be
\* cloned stay.
Set ==
    IF Missing(DOMAIN call.changes) # {} THEN UNCHANGED disk /\ Returns(Error)
    ELSE /\ disk' = StoredBeforeFailure(disk, call.changes)
         /\ Returns(IF HasUncloneable(call.changes) THEN Error ELSE Done)

Write ==
    /\ Called("set")
    /\ Set
    /\ UNCHANGED <<isOpen, conn>>

Read ==
    /\ call.op \in ReadOps
    /\ run = Idle
    /\ Returns(IF call.op # "getObjectStoreNames" /\ Missing({call.store}) # {} THEN Error
               ELSE Answered(call, Result(disk, call)))
    /\ UNCHANGED <<isOpen, disk, conn>>

Finish ==
    /\ call.op \in {"close", "destroy"}
    /\ run = Idle
    /\ isOpen' = FALSE
    /\ disk' = IF call.op = "destroy" THEN NoStores ELSE disk
    /\ Returns(Done)
    /\ UNCHANGED conn

Step == Open \/ ChangeStores \/ Write \/ Read \/ Finish

Init == disk = NoStores /\ conn = Null
=============================================================================
