---------------------------- MODULE ObjectStores ----------------------------
(***************************************************************************)
(* What the calls of a storage adapter mean                                *)
(* (src/src/DB/LocalDB/Storage Adapters/StorageAdapter.ts): a content maps *)
(* the names of the object stores that exist to their rows, rows map the   *)
(* keys that are there to entries.  Names and keys stand for strings, of   *)
(* which only the order matters, and are numbers.                          *)
(***************************************************************************)
EXTENDS Naturals, Sequences, SequencesExt

CONSTANTS Store, Key,
          Value,        \* entries: a value with its metadata
          Uncloneable,  \* those that cannot be encoded or cloned
          Null          \* no entry; in a transaction: delete the key

ASSUME EntryAssumption == Uncloneable \subseteq Value /\ Null \notin Value

ASSUME OrderAssumption == Store \subseteq Nat /\ Key \subseteq Nat

\* The names and keys of a database are finitely many.
ASSUME FiniteAssumption == IsFiniteSet(Store) /\ IsFiniteSet(Key)

Rows     == UNION {[K -> Value \ Uncloneable] : K \in SUBSET Key}
Contents == UNION {[S -> Rows] : S \in SUBSET Store}

\* What a transaction stores: entries, and Null for the keys it deletes.
NewRows == UNION {[K -> Value \cup {Null}] : K \in SUBSET Key}
Changes == UNION {[S -> NewRows] : S \in SUBSET Store}

NoRows   == [k \in {} |-> Null]
NoStores == [s \in {} |-> NoRows]

RowsOf(content, s) == IF s \in DOMAIN content THEN content[s] ELSE NoRows
EntryAt(rows, k) == IF k \in DOMAIN rows THEN rows[k] ELSE Null

InOrder(S) == SetToSortSeq(S, LAMBDA a, b : a < b)

MergedWithNulls(rows, new) ==  \* mutant: a deletion is stored like a value
    [k \in DOMAIN rows \cup DOMAIN new |-> IF k \in DOMAIN new THEN new[k] ELSE rows[k]]

\* The rows, or items, that a transaction leaves: a Null in `new' deletes.
Merged(rows, new) ==
    [k \in {k \in DOMAIN rows \cup DOMAIN new : k \in DOMAIN new => new[k] # Null} |->
        IF k \in DOMAIN new THEN new[k] ELSE rows[k]]

Written(content, changes) ==
    [s \in DOMAIN content |->
        IF s \in DOMAIN changes THEN Merged(content[s], changes[s]) ELSE content[s]]

Created(content, names) ==
    [s \in DOMAIN content \cup names |-> RowsOf(content, s)]

Deleted(content, names) == [s \in DOMAIN content \ names |-> content[s]]

Emptied(content, names) ==
    [s \in DOMAIN content |-> IF s \in names THEN NoRows ELSE content[s]]

\* The entries of a transaction, as <<store, key>>.
Targets(changes) ==
    {t \in Store \X Key : t[1] \in DOMAIN changes /\ t[2] \in DOMAIN changes[t[1]]}
EntryFor(changes, t) == changes[t[1]][t[2]]
HasUncloneable(changes) == \E t \in Targets(changes) : EntryFor(changes, t) \in Uncloneable

-----------------------------------------------------------------------------

NoCall == [op |-> "none"]

\* The outcomes of a call.
Done  == <<"done">>
Error == <<"error">>
Answered(c, result) == <<c.op, result>>

WriteOps == {"createObjectStoresIfNeeded", "deleteObjectStores", "clearObjectStores", "set"}
ReadOps  == {"getObjectStoreNames", "get", "has", "getAll", "getAllKeys", "count", "createIterator"}

\* get or has of an empty list of keys: most adapters answer it without looking.
AsksNothing(c) == c.op \in {"get", "has"} /\ c.keys = <<>>

Effect(content, c) ==
    CASE c.op = "createObjectStoresIfNeeded" -> Created(content, c.names)
      [] c.op = "deleteObjectStores" -> Deleted(content, c.names)
      [] c.op = "clearObjectStores" -> Emptied(content, c.names)
      [] c.op = "set" -> Written(content, c.changes)

\* What a read answers.  The names of the stores come in no particular order,
\* everything else in the order of the keys; get and has of a single key are
\* those of a list of one.
Result(content, c) ==
    IF c.op = "getObjectStoreNames" THEN DOMAIN content
    ELSE LET rows == RowsOf(content, c.store)
             keys == InOrder(DOMAIN rows)
         IN  CASE c.op = "get" -> [i \in DOMAIN c.keys |-> EntryAt(rows, c.keys[i])]
               [] c.op = "has" -> [i \in DOMAIN c.keys |-> c.keys[i] \in DOMAIN rows]
               [] c.op \in {"getAll", "createIterator"} ->
                    [i \in DOMAIN keys |-> <<keys[i], rows[keys[i]]>>]
               [] c.op = "getAllKeys" -> keys
               [] c.op = "count" -> Len(keys)
=============================================================================
