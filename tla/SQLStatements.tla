---------------------------- MODULE SQLStatements ----------------------------
(***************************************************************************)
(* What the two SQL adapters share: an object store is a table, and each   *)
(* call that writes is a list of statements in one transaction.            *)
(***************************************************************************)
EXTENDS StorageOperation

\* CREATE TABLE IF NOT EXISTS, DROP TABLE IF EXISTS, DELETE FROM, and INSERT
\* (ON CONFLICT REPLACE) or DELETE FROM WHERE key=?.
Statements(c, tables) ==
    CASE c.op = "createObjectStoresIfNeeded" -> SetToSeq({[sql |-> "create", table |-> s] : s \in c.names})
      [] c.op = "deleteObjectStores" -> SetToSeq({[sql |-> "drop", table |-> s] : s \in c.names})
      [] c.op = "destroy" -> SetToSeq({[sql |-> "drop", table |-> s] : s \in DOMAIN tables})
      [] c.op = "clearObjectStores" -> SetToSeq({[sql |-> "empty", table |-> s] : s \in c.names})
      [] c.op = "set" ->
           LET targets == SetToSeq(Targets(c.changes))
           IN  [i \in DOMAIN targets |->
                    [sql |-> "row", table |-> targets[i][1], key |-> targets[i][2],
                     value |-> EntryFor(c.changes, targets[i])]]

\* CREATE and DROP do not mind a table that is there or not.
Executable(statement, tables) ==
    statement.sql \in {"empty", "row"} => statement.table \in DOMAIN tables

After(statement, tables) ==
    CASE statement.sql = "create" -> Created(tables, {statement.table})
      [] statement.sql = "drop" -> Deleted(tables, {statement.table})
      [] statement.sql = "empty" -> Emptied(tables, {statement.table})
      [] statement.sql = "row" ->
           [tables EXCEPT ![statement.table] = Merged(@, [k \in {statement.key} |-> statement.value])]

\* SELECT ... WHERE key=? OR key=? ... answers the rows that exist, in any
\* order: get and has find them by their keys.
Selected(rows, keys) == {<<k, rows[k]>> : k \in DOMAIN rows \cap {keys[i] : i \in DOMAIN keys}}

Found(selected, k) == {row[2] : row \in {row \in selected : row[1] = k}}

Ordered(rows) ==   \* SELECT ... ORDER BY key
    LET keys == InOrder(DOMAIN rows)
    IN  [i \in DOMAIN keys |-> <<keys[i], rows[keys[i]]>>]

\* A table that does not exist is an error.
Answerable(c, tables) == c.op # "getObjectStoreNames" => c.store \in DOMAIN tables

Answer(c, tables) ==
    IF c.op = "getObjectStoreNames" THEN DOMAIN tables   \* from sqlite_master
    ELSE LET rows == tables[c.store]
         IN  CASE c.op = "get" ->
                    LET selected == Selected(rows, c.keys)
                    IN  [i \in DOMAIN c.keys |->
                            IF Found(selected, c.keys[i]) = {} THEN Null
                            ELSE CHOOSE v \in Found(selected, c.keys[i]) : TRUE]
               [] c.op = "has" ->
                    [i \in DOMAIN c.keys |-> \E row \in Selected(rows, c.keys) : row[1] = c.keys[i]]
               [] c.op \in {"getAll", "createIterator"} -> Ordered(rows)
               [] c.op = "getAllKeys" -> InOrder(DOMAIN rows)
               [] c.op = "count" -> Len(InOrder(DOMAIN rows))
=============================================================================
