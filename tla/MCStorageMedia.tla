--------------------------- MODULE MCStorageMedia ---------------------------
(***************************************************************************)
(* Two stores of two keys; transactions of at most two entries, in one     *)
(* store or in both.                                                       *)
(***************************************************************************)
EXTENDS StorageMedia

CONSTANTS v1, v2, bad, null

MCValue == {v1, v2, bad}
MCUncloneable == {bad}

Names == SUBSET Store \ {{}}

Row(k, v) == [j \in {k} |-> v]
In(s, rows) == [t \in {s} |-> rows]

Transactions ==
    {In(s, Row(k, v)) : s \in Store, k \in Key, v \in {v1, v2, Null}}
    \cup {In(s, Row(1, e[1]) @@ Row(2, e[2])) :
            s \in Store, e \in {<<v1, v2>>, <<Null, v1>>, <<v2, bad>>}}
    \cup {In(1, Row(1, e[1])) @@ In(2, Row(2, e[2])) :
            e \in {<<v1, v2>>, <<v2, Null>>, <<v1, bad>>}}

MCCalls ==
    {[op |-> o] : o \in {"open", "close", "destroy", "getObjectStoreNames"}}
    \cup {[op |-> o, names |-> n] :
            o \in {"createObjectStoresIfNeeded", "deleteObjectStores", "clearObjectStores"}, n \in Names}
    \cup {[op |-> "set", changes |-> t] : t \in Transactions}
    \cup {[op |-> o, store |-> s, keys |-> <<2, 1, 2>>] : o \in {"get", "has"}, s \in Store}
    \cup {[op |-> o, store |-> 1, keys |-> <<>>] : o \in {"get", "has"}}
    \cup {[op |-> o, store |-> s] : o \in {"getAll", "getAllKeys", "count", "createIterator"}, s \in Store}
=============================================================================
