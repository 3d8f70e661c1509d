------------------------ MODULE StorageMedia_proofs ------------------------
(***************************************************************************)
(* Proofs about the storage adapters, for any names, keys and entries and  *)
(* any calls: each of the six serves its calls as StorageAdapter says, and *)
(* leaves nothing over between them.                                       *)
(***************************************************************************)
EXTENDS StorageMedia, SQLStatements, TLAPS, FiniteSetTheorems, WellFoundedInduction

-----------------------------------------------------------------------------
(***************************************************************************)
(* Rows and contents.  Two are the same when they have the same entries.   *)
(***************************************************************************)
Entry == Value \ Uncloneable

LEMMA RowsAre ==
    ASSUME NEW rows \in Rows
    PROVE  /\ DOMAIN rows \subseteq Key
           /\ rows = [k \in DOMAIN rows |-> rows[k]]
           /\ \A k \in DOMAIN rows : rows[k] \in Entry /\ rows[k] # Null
  BY EntryAssumption DEF Rows, Entry

LEMMA AreRows ==
    ASSUME NEW K \in SUBSET Key, NEW rows \in [K -> Entry]
    PROVE  rows \in Rows
  BY DEF Rows, Entry

LEMMA SameRows ==
    ASSUME NEW a \in Rows, NEW b \in Rows, \A k \in Key : EntryAt(a, k) = EntryAt(b, k)
    PROVE  a = b
<1>1. DOMAIN a = DOMAIN b
  BY RowsAre DEF EntryAt
<1>2. \A k \in DOMAIN a : a[k] = b[k]
  BY <1>1, RowsAre DEF EntryAt
<1> QED BY <1>1, <1>2, RowsAre

LEMMA ContentsAre ==
    ASSUME NEW content \in Contents
    PROVE  /\ DOMAIN content \subseteq Store
           /\ content = [s \in DOMAIN content |-> content[s]]
           /\ \A s \in DOMAIN content : content[s] \in Rows
  BY DEF Contents

LEMMA AreContents ==
    ASSUME NEW S \in SUBSET Store, NEW content \in [S -> Rows]
    PROVE  content \in Contents
  BY DEF Contents

LEMMA NoRowsAreRows == NoRows \in Rows /\ \A k : EntryAt(NoRows, k) = Null
<1>1. NoRows \in [{} -> Entry]
  BY DEF NoRows
<1> QED BY <1>1, AreRows DEF NoRows, EntryAt

LEMMA NoStoresAreContents == NoStores \in Contents /\ DOMAIN NoStores = {}
<1>1. NoStores \in [{} -> Rows]
  BY DEF NoStores
<1> QED BY <1>1, AreContents DEF NoStores

LEMMA RowsOfContents ==
    ASSUME NEW content \in Contents, NEW s
    PROVE  RowsOf(content, s) \in Rows
  BY ContentsAre, NoRowsAreRows DEF RowsOf

LEMMA ChangesAre ==
    ASSUME NEW changes \in Changes
    PROVE  /\ DOMAIN changes \subseteq Store
           /\ \A s \in DOMAIN changes :
                /\ DOMAIN changes[s] \subseteq Key
                /\ \A k \in DOMAIN changes[s] : changes[s][k] \in Value \cup {Null}
<1>1. PICK S \in SUBSET Store : changes \in [S -> NewRows]
  BY DEF Changes
<1>2. ASSUME NEW s \in S PROVE /\ DOMAIN changes[s] \subseteq Key
                              /\ \A k \in DOMAIN changes[s] : changes[s][k] \in Value \cup {Null}
  BY <1>1 DEF NewRows
<1> QED BY <1>1, <1>2

(***************************************************************************)
(* What the calls leave of a content is a content.                         *)
(***************************************************************************)
NewEntries(new) == \A k \in DOMAIN new : k \in Key /\ new[k] \in Entry \cup {Null}

LEMMA MergedAreRows ==
    ASSUME NEW rows \in Rows, NEW new, NewEntries(new)
    PROVE  /\ Merged(rows, new) \in Rows
           /\ \A k \in Key : EntryAt(Merged(rows, new), k) =
                                 IF k \in DOMAIN new THEN new[k] ELSE EntryAt(rows, k)
<1> DEFINE K == {k \in DOMAIN rows \cup DOMAIN new : k \in DOMAIN new => new[k] # Null}
<1>1. /\ DOMAIN rows \subseteq Key
      /\ \A k \in DOMAIN rows : rows[k] \in Entry /\ rows[k] # Null
  BY RowsAre
<1>2. K \in SUBSET Key
  BY <1>1 DEF NewEntries
<1>3. Merged(rows, new) = [k \in K |-> IF k \in DOMAIN new THEN new[k] ELSE rows[k]]
  BY DEF Merged
<1>4. \A k \in K : (IF k \in DOMAIN new THEN new[k] ELSE rows[k]) \in Entry
  BY <1>1 DEF NewEntries
<1>5. Merged(rows, new) \in [K -> Entry]
  <2> HIDE DEF K
  <2> QED BY <1>3, <1>4
<1>6. Merged(rows, new) \in Rows
  BY <1>2, <1>5, AreRows
<1>7. ASSUME NEW k \in Key
      PROVE  EntryAt(Merged(rows, new), k) =
                 IF k \in DOMAIN new THEN new[k] ELSE EntryAt(rows, k)
  BY <1>3 DEF EntryAt
<1> QED BY <1>6, <1>7

LEMMA CreatedAreContents ==
    ASSUME NEW content \in Contents, NEW names \in SUBSET Store
    PROVE  /\ Created(content, names) \in Contents
           /\ DOMAIN Created(content, names) = DOMAIN content \cup names
<1>1. DOMAIN content \cup names \in SUBSET Store
  BY ContentsAre
<1>2. Created(content, names) \in [DOMAIN content \cup names -> Rows]
  BY RowsOfContents DEF Created
<1> QED BY <1>1, <1>2, AreContents

LEMMA DeletedAreContents ==
    ASSUME NEW content \in Contents, NEW names
    PROVE  /\ Deleted(content, names) \in Contents
           /\ DOMAIN Deleted(content, names) = DOMAIN content \ names
<1>1. DOMAIN content \ names \in SUBSET Store
  BY ContentsAre
<1>2. Deleted(content, names) \in [DOMAIN content \ names -> Rows]
  BY ContentsAre DEF Deleted
<1> QED BY <1>1, <1>2, AreContents

LEMMA EmptiedAreContents ==
    ASSUME NEW content \in Contents, NEW names
    PROVE  /\ Emptied(content, names) \in Contents
           /\ DOMAIN Emptied(content, names) = DOMAIN content
<1>1. DOMAIN content \in SUBSET Store
  BY ContentsAre
<1>2. Emptied(content, names) \in [DOMAIN content -> Rows]
  BY ContentsAre, NoRowsAreRows DEF Emptied
<1> QED BY <1>1, <1>2, AreContents

LEMMA TargetsAre ==
    ASSUME NEW changes \in Changes
    PROVE  /\ \A s \in DOMAIN changes : \A k \in DOMAIN changes[s] : <<s, k>> \in Targets(changes)
           /\ \A t \in Targets(changes) : /\ t = <<t[1], t[2]>> /\ t[1] \in Store /\ t[2] \in Key
                                         /\ t[1] \in DOMAIN changes /\ t[2] \in DOMAIN changes[t[1]]
                                         /\ EntryFor(changes, t) \in Value \cup {Null}
<1>1. ASSUME NEW s \in DOMAIN changes, NEW k \in DOMAIN changes[s]
      PROVE  <<s, k>> \in Targets(changes)
  <2>1. <<s, k>> \in Store \X Key
    BY ChangesAre
  <2> QED BY <2>1 DEF Targets
<1>2. \A t \in Targets(changes) : /\ t = <<t[1], t[2]>> /\ t[1] \in Store /\ t[2] \in Key
                                 /\ t[1] \in DOMAIN changes /\ t[2] \in DOMAIN changes[t[1]]
  BY DEF Targets
<1> QED BY <1>1, <1>2, ChangesAre DEF EntryFor

LEMMA CloneableEntries ==
    ASSUME NEW changes \in Changes, ~HasUncloneable(changes)
    PROVE  \A s \in DOMAIN changes : NewEntries(changes[s])
<1> SUFFICES ASSUME NEW s \in DOMAIN changes, NEW k \in DOMAIN changes[s]
             PROVE  k \in Key /\ changes[s][k] \in Entry \cup {Null}
  BY DEF NewEntries
<1>1. <<s, k>> \in Targets(changes) /\ k \in Key /\ changes[s][k] \in Value \cup {Null}
  BY TargetsAre, ChangesAre
<1>2. EntryFor(changes, <<s, k>>) = changes[s][k]
  BY DEF EntryFor
<1> QED BY <1>1, <1>2 DEF HasUncloneable, Entry

LEMMA WrittenAreContents ==
    ASSUME NEW content \in Contents, NEW changes \in Changes, ~HasUncloneable(changes)
    PROVE  /\ Written(content, changes) \in Contents
           /\ DOMAIN Written(content, changes) = DOMAIN content
<1>1. DOMAIN content \in SUBSET Store
  BY ContentsAre
<1>2. Written(content, changes) \in [DOMAIN content -> Rows]
  BY CloneableEntries, ContentsAre, MergedAreRows DEF Written
<1> QED BY <1>1, <1>2, AreContents

LEMMA CallsAre ==
    ASSUME NEW c \in Calls
    PROVE  /\ c.op \in {"open", "close", "destroy"} \cup WriteOps \cup ReadOps
           /\ c.op \in WriteOps \ {"set"} => c.names \in SUBSET Store
           /\ c.op = "set" => c.changes \in Changes
           /\ c.op \in ReadOps \ {"getObjectStoreNames"} => c.store \in Store
           /\ c.op \in {"get", "has"} => c.keys \in Seq(Key)
  BY CallsAssumption DEF WriteOps, ReadOps

\* An empty list of keys is answered by an empty list.
LEMMA NothingIsAnswered ==
    ASSUME NEW content, NEW c, AsksNothing(c)
    PROVE  Result(content, c) = <<>>
<1>1. c.op \in {"get", "has"} /\ c.keys = <<>>
  BY DEF AsksNothing
<1>2. \A value : [i \in DOMAIN <<>> |-> value] = <<>>
  OBVIOUS
<1>3. /\ [i \in DOMAIN <<>> |-> EntryAt(RowsOf(content, c.store), <<>>[i])] = <<>>
      /\ [i \in DOMAIN <<>> |-> <<>>[i] \in DOMAIN RowsOf(content, c.store)] = <<>>
  OBVIOUS
<1> QED BY <1>1, <1>3 DEF Result

LEMMA EffectsAreContents ==
    ASSUME NEW content \in Contents, NEW c \in Calls, c.op \in WriteOps,
           c.op = "set" => ~HasUncloneable(c.changes)
    PROVE  Effect(content, c) \in Contents
<1>1. CASE c.op = "set"
  BY <1>1, CallsAre, WrittenAreContents DEF Effect
<1>2. CASE c.op # "set"
  <2>1. c.names \in SUBSET Store
    BY <1>2, CallsAre
  <2> QED BY <1>2, <2>1, CreatedAreContents, DeletedAreContents, EmptiedAreContents
          DEF Effect, WriteOps
<1> QED BY <1>1, <1>2

(***************************************************************************)
(* Entries after a call.                                                   *)
(***************************************************************************)
LEMMA SameContents ==
    ASSUME NEW a \in Contents, NEW b \in Contents, DOMAIN a = DOMAIN b,
           \A s \in DOMAIN a : \A k \in Key : EntryAt(a[s], k) = EntryAt(b[s], k)
    PROVE  a = b
<1>1. \A s \in DOMAIN a : a[s] = b[s]
  BY ContentsAre, SameRows
<1> QED BY <1>1, ContentsAre

LEMMA MergedEntries ==
    \A rows, new, k :
        EntryAt(Merged(rows, new), k) = IF k \in DOMAIN new THEN new[k] ELSE EntryAt(rows, k)
<1> SUFFICES ASSUME NEW rows, NEW new, NEW k
             PROVE  EntryAt(Merged(rows, new), k)
                        = IF k \in DOMAIN new THEN new[k] ELSE EntryAt(rows, k)
  OBVIOUS
<1> DEFINE D == {j \in DOMAIN rows \cup DOMAIN new : j \in DOMAIN new => new[j] # Null}
<1>1. Merged(rows, new) = [j \in D |-> IF j \in DOMAIN new THEN new[j] ELSE rows[j]]
  BY DEF Merged
<1>2. k \in D <=> (k \in DOMAIN new /\ new[k] # Null) \/ (k \in DOMAIN rows /\ k \notin DOMAIN new)
  OBVIOUS
<1> HIDE DEF D
<1> QED BY <1>1, <1>2 DEF EntryAt

LEMMA WrittenEntries ==
    ASSUME NEW content \in Contents, NEW changes \in Changes,
           NEW s \in DOMAIN content, NEW k \in Key
    PROVE  EntryAt(Written(content, changes)[s], k) =
               IF <<s, k>> \in Targets(changes) THEN EntryFor(changes, <<s, k>>)
               ELSE EntryAt(content[s], k)
<1>1. <<s, k>> \in Targets(changes) <=> s \in DOMAIN changes /\ k \in DOMAIN changes[s]
  <2>1. <<s, k>> \in Store \X Key
    BY ContentsAre
  <2> QED BY <2>1 DEF Targets
<1>2. EntryFor(changes, <<s, k>>) = changes[s][k]
  BY DEF EntryFor
<1>3. Written(content, changes)[s] =
          IF s \in DOMAIN changes THEN Merged(content[s], changes[s]) ELSE content[s]
  BY DEF Written
<1> QED BY <1>1, <1>2, <1>3, MergedEntries

LEMMA EmptiedEntries ==
    ASSUME NEW content \in Contents, NEW names, NEW s \in DOMAIN content, NEW k \in Key
    PROVE  EntryAt(Emptied(content, names)[s], k) =
               IF s \in names THEN Null ELSE EntryAt(content[s], k)
  BY NoRowsAreRows DEF Emptied

LEMMA CreatedEntries ==
    ASSUME NEW content \in Contents, NEW names, NEW s \in DOMAIN content \cup names, NEW k \in Key
    PROVE  EntryAt(Created(content, names)[s], k) = EntryAt(RowsOf(content, s), k)
  BY DEF Created

-----------------------------------------------------------------------------
(***************************************************************************)
(* Items: entries under a store and a key, as LevelDB and web storage keep *)
(* them.  The content they stand for.                                      *)
(***************************************************************************)
Items == UNION {[T -> Entry] : T \in SUBSET (Store \X Key)}

Under(names, items) == \A t \in DOMAIN items : t[1] \in names

StoredAs(names, items) ==
    [s \in names |->
        [k \in {k \in Key : EntryAt(items, <<s, k>>) # Null} |-> EntryAt(items, <<s, k>>)]]

LEMMA ItemsAre ==
    ASSUME NEW items \in Items
    PROVE  /\ items = [t \in DOMAIN items |-> items[t]]
           /\ \A t \in DOMAIN items : /\ t = <<t[1], t[2]>> /\ t[1] \in Store /\ t[2] \in Key
                                      /\ items[t] \in Entry /\ items[t] # Null
           /\ \A t : EntryAt(items, t) \in Entry \cup {Null}
<1>1. PICK T \in SUBSET (Store \X Key) : items \in [T -> Entry]
  BY DEF Items
<1>2. \A t \in T : t = <<t[1], t[2]>> /\ t[1] \in Store /\ t[2] \in Key
  OBVIOUS
<1> QED BY <1>1, <1>2, EntryAssumption DEF Entry, EntryAt

LEMMA StoredAsIsContent ==
    ASSUME NEW names \in SUBSET Store, NEW items \in Items
    PROVE  /\ StoredAs(names, items) \in Contents
           /\ DOMAIN StoredAs(names, items) = names
           /\ \A s \in names : \A k \in Key :
                  EntryAt(StoredAs(names, items)[s], k) = EntryAt(items, <<s, k>>)
<1> DEFINE D(s) == {k \in Key : EntryAt(items, <<s, k>>) # Null}
<1>1. StoredAs(names, items) = [s \in names |-> [k \in D(s) |-> EntryAt(items, <<s, k>>)]]
  BY DEF StoredAs
<1>2. ASSUME NEW s \in names
      PROVE  /\ StoredAs(names, items)[s] \in Rows
             /\ \A k \in Key : EntryAt(StoredAs(names, items)[s], k) = EntryAt(items, <<s, k>>)
  <2>1. PICK rows : rows = StoredAs(names, items)[s]
    OBVIOUS
  <2>2. rows = [k \in D(s) |-> EntryAt(items, <<s, k>>)]
    BY <1>1, <2>1
  <2>3. D(s) \in SUBSET Key /\ \A k \in Key : k \in D(s) <=> EntryAt(items, <<s, k>>) # Null
    OBVIOUS
  <2>4. \A k \in D(s) : EntryAt(items, <<s, k>>) \in Entry
    BY <2>3, ItemsAre
  <2> HIDE DEF D
  <2>5. rows \in [D(s) -> Entry]
    BY <2>2, <2>4
  <2>6. rows \in Rows
    BY <2>3, <2>5, AreRows
  <2>7. \A k \in Key : EntryAt(rows, k) = EntryAt(items, <<s, k>>)
    <3> SUFFICES ASSUME NEW k \in Key PROVE EntryAt(rows, k) = EntryAt(items, <<s, k>>)
      OBVIOUS
    <3>1. k \in DOMAIN rows <=> EntryAt(items, <<s, k>>) # Null
      BY <2>2, <2>3
    <3>2. k \in DOMAIN rows => rows[k] = EntryAt(items, <<s, k>>)
      BY <2>2
    <3>3. EntryAt(rows, k) = IF k \in DOMAIN rows THEN rows[k] ELSE Null
      BY DEF EntryAt
    <3> QED BY <3>1, <3>2, <3>3
  <2> QED BY <2>1, <2>6, <2>7
<1>3. StoredAs(names, items) \in [names -> Rows]
  BY <1>2 DEF StoredAs
<1> QED BY <1>2, <1>3, AreContents

\* The rows of a store, also of one that does not exist.
LEMMA RowsOfStored ==
    ASSUME NEW names \in SUBSET Store, NEW items \in Items, Under(names, items), NEW s \in Store
    PROVE  /\ \A k \in Key : EntryAt(RowsOf(StoredAs(names, items), s), k) = EntryAt(items, <<s, k>>)
           /\ RowsOf(StoredAs(names, items), s) =
                  [k \in {t[2] : t \in {t \in DOMAIN items : t[1] \in {s}}} |-> items[<<s, k>>]]
<1> DEFINE In == {t[2] : t \in {t \in DOMAIN items : t[1] \in {s}}}
           rows == [k \in In |-> items[<<s, k>>]]
<1>1. /\ StoredAs(names, items) \in Contents
      /\ DOMAIN StoredAs(names, items) = names
      /\ \A n \in names : \A k \in Key :
             EntryAt(StoredAs(names, items)[n], k) = EntryAt(items, <<n, k>>)
  BY StoredAsIsContent
<1>2. ASSUME NEW k \in Key PROVE EntryAt(RowsOf(StoredAs(names, items), s), k) = EntryAt(items, <<s, k>>)
  <2>1. CASE s \in names
    BY <1>1, <2>1 DEF RowsOf
  <2>2. CASE s \notin names
    <3>1. <<s, k>> \notin DOMAIN items
      BY <2>2 DEF Under
    <3> QED BY <1>1, <2>2, <3>1, NoRowsAreRows DEF RowsOf, EntryAt
  <2> QED BY <2>1, <2>2
<1>3. ASSUME NEW k \in Key PROVE k \in In <=> <<s, k>> \in DOMAIN items
  <2>1. ASSUME k \in In PROVE <<s, k>> \in DOMAIN items
    <3>1. PICK t \in DOMAIN items : t[1] = s /\ t[2] = k
      BY <2>1
    <3> QED BY <3>1, ItemsAre
  <2>2. ASSUME <<s, k>> \in DOMAIN items PROVE k \in In
    <3>1. PICK t \in DOMAIN items : t = <<s, k>>
      BY <2>2
    <3>2. t[1] \in {s} /\ t[2] = k
      BY <3>1
    <3> QED BY <3>2
  <2> QED BY <2>1, <2>2
<1>4. In \in SUBSET Key
  BY ItemsAre
<1>5. \A k \in In : items[<<s, k>>] \in Entry
  BY <1>3, <1>4, ItemsAre
<1>6. rows \in [In -> Entry] /\ \A k \in In : rows[k] = items[<<s, k>>]
  BY <1>5
<1> HIDE DEF In, rows
<1>7. rows \in Rows
  BY <1>4, <1>6, AreRows
<1>8. \A k \in Key : EntryAt(rows, k) = EntryAt(items, <<s, k>>)
  BY <1>3, <1>6 DEF EntryAt
<1>9. RowsOf(StoredAs(names, items), s) = rows
  <2>1. PICK there \in Rows : there = RowsOf(StoredAs(names, items), s)
    BY <1>1, RowsOfContents
  <2>2. \A k \in Key : EntryAt(there, k) = EntryAt(rows, k)
    BY <1>2, <1>8, <2>1
  <2> QED BY <1>7, <2>1, <2>2, SameRows
<1> QED BY <1>2, <1>9 DEF rows, In

-----------------------------------------------------------------------------
(***************************************************************************)
(* The contract.  Each of its steps, in the terms of this module.          *)
(***************************************************************************)
CanBeCalled == isOpen \/ (medium = "IndexedDB" /\ run.at = "upgrade")

KeepsTheContract == [Adapter!Next]_(Adapter!vars)

LEMMA ContractOperators ==
    /\ Adapter!NoCall = NoCall /\ Adapter!Done = Done /\ Adapter!Error = Error
    /\ Adapter!WriteOps = WriteOps /\ Adapter!ReadOps = ReadOps
    /\ \A c, result : Adapter!Answered(c, result) = Answered(c, result)
    /\ \A content, c : Adapter!Effect(content, c) = Effect(content, c)
    /\ \A content, c : Adapter!Result(content, c) = Result(content, c)
    /\ \A changes : Adapter!Targets(changes) = Targets(changes)
    /\ \A changes : Adapter!HasUncloneable(changes) = HasUncloneable(changes)
    /\ \A c : Adapter!AsksNothing(c) <=> AsksNothing(c)
    /\ Adapter!NoStores = NoStores
<1>1. /\ Adapter!NoCall = NoCall /\ Adapter!Done = Done /\ Adapter!Error = Error
      /\ Adapter!WriteOps = WriteOps /\ Adapter!ReadOps = ReadOps
      /\ Adapter!NoStores = NoStores
  BY DEF Adapter!NoCall, NoCall, Adapter!Done, Done, Adapter!Error, Error, Adapter!WriteOps, WriteOps,
         Adapter!ReadOps, ReadOps, Adapter!NoStores, NoStores, Adapter!NoRows, NoRows
<1>2. \A c, result : Adapter!Answered(c, result) = Answered(c, result)
  BY DEF Adapter!Answered, Answered
<1>3. \A content, c : Adapter!Effect(content, c) = Effect(content, c)
  BY DEF Adapter!Effect, Effect, Adapter!Created, Created, Adapter!Deleted, Deleted, Adapter!Emptied, Emptied,
         Adapter!Written, Written, Adapter!Merged, Merged, Adapter!RowsOf, RowsOf, Adapter!NoRows, NoRows
<1>4. \A S : Adapter!InOrder(S) = InOrder(S)
  BY DEF Adapter!InOrder, InOrder, Adapter!SetToSortSeq, SetToSortSeq, Adapter!SetToSeq, SetToSeq,
         Adapter!SortSeq, SortSeq, Adapter!Cardinality, Cardinality, Adapter!IsInjective, IsInjective
<1>5. \A content, c : Adapter!Result(content, c) = Result(content, c)
  BY <1>4 DEF Adapter!Result, Result, Adapter!RowsOf, RowsOf, Adapter!EntryAt, EntryAt,
         Adapter!NoRows, NoRows
<1>6. \A changes : Adapter!Targets(changes) = Targets(changes)
  BY DEF Adapter!Targets, Targets
<1>7. \A changes : Adapter!HasUncloneable(changes) = HasUncloneable(changes)
  BY <1>6 DEF Adapter!HasUncloneable, HasUncloneable, Adapter!EntryFor, EntryFor
<1>8. \A c : Adapter!AsksNothing(c) <=> AsksNothing(c)
  BY DEF Adapter!AsksNothing, AsksNothing
<1> QED BY <1>1, <1>2, <1>3, <1>5, <1>6, <1>7, <1>8

Replies(r) == call' = NoCall /\ reply' = r

LEMMA ContractNothing ==
    ASSUME UNCHANGED <<CanBeCalled, Content, call, reply>>
    PROVE  KeepsTheContract
  BY DEF KeepsTheContract, Adapter!vars, CanBeCalled

LEMMA ContractCall ==
    ASSUME call = NoCall, call' \in Calls, reply' = Null, UNCHANGED <<CanBeCalled, Content>>
    PROVE  KeepsTheContract
<1>1. \E c \in Calls : Adapter!Call(c)
  BY ContractOperators DEF Adapter!Call, CanBeCalled
<1> QED BY <1>1 DEF KeepsTheContract, Adapter!Next

LEMMA ContractOpen ==
    ASSUME call.op = "open", CanBeCalled', Replies(Done), UNCHANGED Content
    PROVE  KeepsTheContract
  BY ContractOperators DEF KeepsTheContract, Adapter!Next, Adapter!Open, Adapter!Reply, Replies, CanBeCalled

LEMMA ContractClose ==
    ASSUME call.op = "close", CanBeCalled' = FALSE, Replies(Done), UNCHANGED Content
    PROVE  KeepsTheContract
  BY ContractOperators DEF KeepsTheContract, Adapter!Next, Adapter!Close, Adapter!Reply, Replies, CanBeCalled

LEMMA ContractDestroy ==
    ASSUME call.op = "destroy", CanBeCalled' = FALSE, Content' = NoStores, Replies(Done)
    PROVE  KeepsTheContract
  BY ContractOperators DEF KeepsTheContract, Adapter!Next, Adapter!Destroy, Adapter!Reply, Replies, CanBeCalled

LEMMA ContractWrite ==
    ASSUME CanBeCalled, UNCHANGED CanBeCalled, call.op \in WriteOps,
           call.op = "set" => /\ \A t \in Targets(call.changes) : t[1] \in DOMAIN Content
                              /\ ~HasUncloneable(call.changes),
           Content' = Effect(Content, call), Replies(Done)
    PROVE  KeepsTheContract
<1>1. Adapter!Write
  BY ContractOperators DEF Adapter!Write, Adapter!Reply, Replies, CanBeCalled
<1> QED BY <1>1 DEF KeepsTheContract, Adapter!Next

LEMMA ContractRead ==
    ASSUME CanBeCalled \/ AsksNothing(call), call.op \in ReadOps, Replies(Answered(call, Result(Content, call))),
           UNCHANGED <<CanBeCalled, Content>>
    PROVE  KeepsTheContract
<1>1. Adapter!Read
  BY ContractOperators DEF Adapter!Read, Adapter!Reply, Replies, CanBeCalled
<1> QED BY <1>1 DEF KeepsTheContract, Adapter!Next

LEMMA ContractReject ==
    ASSUME call # NoCall, CanBeCalled' \in {CanBeCalled, FALSE, call.op = "open"}, Replies(Error),
           UNCHANGED Content
    PROVE  KeepsTheContract
<1>1. Adapter!Reject
  BY ContractOperators DEF Adapter!Reject, Adapter!Reply, Replies, CanBeCalled
<1> QED BY <1>1 DEF KeepsTheContract, Adapter!Next

LEMMA ContractCrash ==
    ASSUME CanBeCalled' = FALSE, call' = NoCall, UNCHANGED <<Content, reply>>
    PROVE  KeepsTheContract
<1>1. Adapter!Crash
  BY ContractOperators DEF Adapter!Crash, CanBeCalled
<1> QED BY <1>1 DEF KeepsTheContract, Adapter!Next

LEMMA ContractRemovePart ==
    ASSUME Content \in Contents, Content' \in Contents,
           call.op \in {"clearObjectStores", "deleteObjectStores", "destroy"},
           DOMAIN Content' \subseteq DOMAIN Content,
           \A s \in DOMAIN Content' : \A k \in Key :
               EntryAt(Content'[s], k) \in {EntryAt(Content[s], k), Null},
           call.op # "destroy" => /\ DOMAIN Content' = DOMAIN Content
                                  /\ \A s \in DOMAIN Content \ call.names : Content'[s] = Content[s],
           CanBeCalled' = CanBeCalled \/ (call.op = "destroy" /\ CanBeCalled' = FALSE),
           UNCHANGED <<call, reply>>
    PROVE  KeepsTheContract
<1>1. ASSUME NEW s \in DOMAIN Content' PROVE Adapter!IsPartOf(Content'[s], Content[s])
  <2>1. PICK new \in Rows, old \in Rows : new = Content'[s] /\ old = Content[s]
    BY ContentsAre
  <2>2. \A k \in Key : EntryAt(new, k) \in {EntryAt(old, k), Null}
    BY <2>1
  <2>3. \A k \in DOMAIN new : k \in DOMAIN old /\ new[k] = old[k]
    BY <2>2, RowsAre DEF EntryAt
  <2> QED BY <2>1, <2>3 DEF Adapter!IsPartOf
<1>2. \A s \in DOMAIN Content :
          IF s \in DOMAIN Content' THEN Adapter!IsPartOf(Content'[s], Content[s])
          ELSE call.op = "destroy"
  BY <1>1
<1>3. \A s \in DOMAIN Content \ Adapter!Removable : Content'[s] = Content[s]
  BY DEF Adapter!Removable
<1>4. Adapter!RemovePart
  BY <1>2, <1>3 DEF Adapter!RemovePart, CanBeCalled
<1> QED BY <1>4 DEF KeepsTheContract, Adapter!Next

-----------------------------------------------------------------------------
(***************************************************************************)
(* Transactions, one entry after another.  In any order of its entries, a  *)
(* transaction leaves what Written says; RowsThen are the rows when the    *)
(* entries of some keys are written, ContentThen the content when those    *)
(* of some targets are.                                                    *)
(***************************************************************************)
EntryThen(rows, new, K, k) == IF k \in K THEN new[k] ELSE EntryAt(rows, k)

RowsThen(rows, new, K) ==
    [k \in {k \in Key : EntryThen(rows, new, K, k) # Null} |-> EntryThen(rows, new, K, k)]

KeysIn(T, s) == {t[2] : t \in {t \in T : t[1] = s}}

ContentThen(content, changes, T) ==
    [s \in DOMAIN content |-> RowsThen(content[s], changes[s], KeysIn(T, s))]

Storable(new, K) == \A k \in K \cap Key : new[k] \in Entry \cup {Null}

LEMMA RowsThenAreRows ==
    ASSUME NEW rows \in Rows, NEW new, NEW K, Storable(new, K)
    PROVE  /\ RowsThen(rows, new, K) \in Rows
           /\ \A k \in Key : EntryAt(RowsThen(rows, new, K), k) = EntryThen(rows, new, K, k)
<1> DEFINE D == {k \in Key : EntryThen(rows, new, K, k) # Null}
<1>1. \A k \in D : EntryThen(rows, new, K, k) \in Entry
  BY RowsAre DEF Storable, EntryThen, EntryAt
<1>2. D \in SUBSET Key
  OBVIOUS
<1>3. RowsThen(rows, new, K) = [k \in D |-> EntryThen(rows, new, K, k)]
  BY DEF RowsThen
<1>4. RowsThen(rows, new, K) \in Rows
  <2> HIDE DEF D
  <2>1. RowsThen(rows, new, K) \in [D -> Entry]
    BY <1>1, <1>3
  <2> QED BY <1>2, <2>1, AreRows
<1>5. ASSUME NEW k \in Key PROVE EntryAt(RowsThen(rows, new, K), k) = EntryThen(rows, new, K, k)
  <2>1. k \in D <=> EntryThen(rows, new, K, k) # Null
    OBVIOUS
  <2> HIDE DEF D
  <2> QED BY <1>3, <2>1 DEF EntryAt
<1> QED BY <1>4, <1>5

LEMMA RowsThenNone ==
    ASSUME NEW rows \in Rows, NEW new
    PROVE  RowsThen(rows, new, {}) = rows
<1>1. /\ RowsThen(rows, new, {}) \in Rows
      /\ \A k \in Key : EntryAt(RowsThen(rows, new, {}), k) = EntryThen(rows, new, {}, k)
  BY RowsThenAreRows DEF Storable
<1>2. \A k \in Key : EntryThen(rows, new, {}, k) = EntryAt(rows, k)
  BY DEF EntryThen
<1> QED BY <1>1, <1>2, SameRows

Single(k, entry) == [j \in {k} |-> entry]

LEMMA RowsThenOne ==
    ASSUME NEW rows \in Rows, NEW new, NEW K, NEW k \in Key, Storable(new, K \cup {k})
    PROVE  Merged(RowsThen(rows, new, K), Single(k, new[k])) = RowsThen(rows, new, K \cup {k})
<1>1. /\ RowsThen(rows, new, K) \in Rows /\ RowsThen(rows, new, K \cup {k}) \in Rows
      /\ \A j \in Key : EntryAt(RowsThen(rows, new, K), j) = EntryThen(rows, new, K, j)
      /\ \A j \in Key : EntryAt(RowsThen(rows, new, K \cup {k}), j) = EntryThen(rows, new, K \cup {k}, j)
  BY RowsThenAreRows DEF Storable
<1>2. PICK one : one = Single(k, new[k])
  OBVIOUS
<1>3. DOMAIN one = {k} /\ one[k] = new[k] /\ NewEntries(one)
  BY <1>2 DEF Single, NewEntries, Storable
<1>4. /\ Merged(RowsThen(rows, new, K), one) \in Rows
      /\ \A j \in Key : EntryAt(Merged(RowsThen(rows, new, K), one), j) =
                            IF j \in DOMAIN one THEN one[j] ELSE EntryAt(RowsThen(rows, new, K), j)
  BY <1>1, <1>3, MergedAreRows
<1>5. ASSUME NEW j \in Key
      PROVE  EntryAt(Merged(RowsThen(rows, new, K), one), j) = EntryAt(RowsThen(rows, new, K \cup {k}), j)
  BY <1>1, <1>3, <1>4 DEF EntryThen
<1> QED BY <1>1, <1>2, <1>4, <1>5, SameRows

LEMMA RowsThenAll ==
    ASSUME NEW rows \in Rows, NEW new, NewEntries(new)
    PROVE  RowsThen(rows, new, DOMAIN new) = Merged(rows, new)
<1>1. /\ RowsThen(rows, new, DOMAIN new) \in Rows
      /\ \A k \in Key : EntryAt(RowsThen(rows, new, DOMAIN new), k) = EntryThen(rows, new, DOMAIN new, k)
  BY RowsThenAreRows DEF NewEntries, Storable
<1>2. /\ Merged(rows, new) \in Rows
      /\ \A k \in Key : EntryAt(Merged(rows, new), k) =
                            IF k \in DOMAIN new THEN new[k] ELSE EntryAt(rows, k)
  BY MergedAreRows
<1> QED BY <1>1, <1>2, SameRows DEF EntryThen

LEMMA ContentThenIsContent ==
    ASSUME NEW content \in Contents, NEW changes \in Changes, ~HasUncloneable(changes),
           NEW T \in SUBSET Targets(changes)
    PROVE  /\ ContentThen(content, changes, T) \in Contents
           /\ DOMAIN ContentThen(content, changes, T) = DOMAIN content
           /\ \A s \in Store : Storable(changes[s], KeysIn(T, s))
<1>1. ASSUME NEW s \in Store, NEW k \in KeysIn(T, s)
      PROVE  k \in Key /\ changes[s][k] \in Entry \cup {Null}
  <2>1. PICK t \in T : t[1] = s /\ t[2] = k
    BY DEF KeysIn
  <2>2. t[1] \in DOMAIN changes /\ t[2] \in DOMAIN changes[t[1]]
    BY TargetsAre
  <2> QED BY <2>1, <2>2, CloneableEntries DEF NewEntries
<1>2. \A s \in DOMAIN content : content[s] \in Rows /\ s \in Store
  BY ContentsAre
<1>3. \A s \in Store : Storable(changes[s], KeysIn(T, s))
  BY <1>1 DEF Storable
<1>4. \A s \in DOMAIN content : RowsThen(content[s], changes[s], KeysIn(T, s)) \in Rows
  BY <1>2, <1>3, RowsThenAreRows
<1>5. DOMAIN content \in SUBSET Store
  BY ContentsAre
<1> QED BY <1>3, <1>4, <1>5, AreContents DEF ContentThen

LEMMA ContentThenNone ==
    ASSUME NEW content \in Contents, NEW changes
    PROVE  ContentThen(content, changes, {}) = content
<1>1. \A s : KeysIn({}, s) = {}
  BY DEF KeysIn
<1>2. \A s \in DOMAIN content : RowsThen(content[s], changes[s], KeysIn({}, s)) = content[s]
  BY <1>1, ContentsAre, RowsThenNone
<1> QED BY <1>2, ContentsAre DEF ContentThen

WithEntry(content, t, entry) == [content EXCEPT ![t[1]] = Merged(@, [k \in {t[2]} |-> entry])]

LEMMA ContentThenOne ==
    ASSUME NEW content \in Contents, NEW changes \in Changes, ~HasUncloneable(changes),
           NEW T \in SUBSET Targets(changes), NEW t \in Targets(changes)
    PROVE  WithEntry(ContentThen(content, changes, T), t, EntryFor(changes, t))
               = ContentThen(content, changes, T \cup {t})
<1>1. PICK one : one = Single(t[2], EntryFor(changes, t))
  OBVIOUS
<1>2. \A s : KeysIn(T \cup {t}, s) = IF s = t[1] THEN KeysIn(T, s) \cup {t[2]} ELSE KeysIn(T, s)
  BY DEF KeysIn
<1>3. ASSUME NEW s \in DOMAIN content, s = t[1]
      PROVE  Merged(RowsThen(content[s], changes[s], KeysIn(T, s)), one)
                 = RowsThen(content[s], changes[s], KeysIn(T \cup {t}, s))
  <2>1. content[s] \in Rows /\ s \in Store /\ t[2] \in Key /\ EntryFor(changes, t) = changes[s][t[2]]
    BY <1>3, ContentsAre, TargetsAre DEF EntryFor
  <2>2. KeysIn(T \cup {t}, s) = KeysIn(T, s) \cup {t[2]}
    BY <1>2, <1>3
  <2>3. T \cup {t} \in SUBSET Targets(changes)
    OBVIOUS
  <2>4. Storable(changes[s], KeysIn(T \cup {t}, s))
    BY <2>1, <2>3, ContentThenIsContent
  <2>5. PICK rows \in Rows : rows = content[s]
    BY <2>1
  <2>6. PICK new : new = changes[s]
    OBVIOUS
  <2>7. PICK K : K = KeysIn(T, s)
    OBVIOUS
  <2>8. PICK k \in Key : k = t[2]
    BY <2>1
  <2>9. Storable(new, K \cup {k})
    BY <2>2, <2>4, <2>6, <2>7, <2>8
  <2>10. Merged(RowsThen(rows, new, K), Single(k, new[k])) = RowsThen(rows, new, K \cup {k})
    BY <2>9, RowsThenOne
  <2> QED BY <1>1, <2>1, <2>2, <2>5, <2>6, <2>7, <2>8, <2>10
<1>4. PICK f : f = ContentThen(content, changes, T)
  OBVIOUS
<1>5. f = [s \in DOMAIN content |-> f[s]]
  BY <1>4 DEF ContentThen
<1>6. \A s \in DOMAIN content : f[s] = RowsThen(content[s], changes[s], KeysIn(T, s))
  BY <1>4 DEF ContentThen
<1>7. \A s \in DOMAIN content :
          [f EXCEPT ![t[1]] = Merged(@, one)][s] = RowsThen(content[s], changes[s], KeysIn(T \cup {t}, s))
  BY <1>2, <1>3, <1>5, <1>6
<1>8. [f EXCEPT ![t[1]] = Merged(@, one)] = ContentThen(content, changes, T \cup {t})
  BY <1>5, <1>7 DEF ContentThen
<1> QED BY <1>1, <1>4, <1>8 DEF Single, WithEntry

LEMMA ContentThenAll ==
    ASSUME NEW content \in Contents, NEW changes \in Changes, ~HasUncloneable(changes)
    PROVE  ContentThen(content, changes, Targets(changes)) = Written(content, changes)
<1>1. ASSUME NEW s \in DOMAIN content, s \in DOMAIN changes
      PROVE  RowsThen(content[s], changes[s], KeysIn(Targets(changes), s)) = Merged(content[s], changes[s])
  <2>1. KeysIn(Targets(changes), s) = DOMAIN changes[s]
    <3>1. ASSUME NEW k \in DOMAIN changes[s] PROVE k \in KeysIn(Targets(changes), s)
      <4>1. <<s, k>> \in Targets(changes)
        BY <1>1, TargetsAre
      <4> QED BY <4>1 DEF KeysIn
    <3>2. ASSUME NEW t \in Targets(changes), t[1] = s PROVE t[2] \in DOMAIN changes[s]
      BY <3>2, TargetsAre
    <3> QED BY <3>1, <3>2 DEF KeysIn
  <2> QED BY <1>1, <2>1, ContentsAre, CloneableEntries, RowsThenAll
<1>2. ASSUME NEW s \in DOMAIN content, s \notin DOMAIN changes
      PROVE  RowsThen(content[s], changes[s], KeysIn(Targets(changes), s)) = content[s]
  <2>1. KeysIn(Targets(changes), s) = {}
    BY <1>2, TargetsAre DEF KeysIn
  <2> QED BY <2>1, ContentsAre, RowsThenNone
<1> QED BY <1>1, <1>2 DEF ContentThen, Written

-----------------------------------------------------------------------------
(***************************************************************************)
(* The elements of a finite set, one after another.                        *)
(***************************************************************************)
Firsts(all, n) == {all[i] : i \in 1 .. n}

LEMMA SequenceOfSet ==
    ASSUME NEW S, IsFiniteSet(S)
    PROVE  /\ Len(SetToSeq(S)) \in Nat
           /\ DOMAIN SetToSeq(S) = 1 .. Len(SetToSeq(S))
           /\ \A i \in 1 .. Len(SetToSeq(S)) : SetToSeq(S)[i] \in S
           /\ Firsts(SetToSeq(S), Len(SetToSeq(S))) = S
           /\ \A i, j \in 1 .. Len(SetToSeq(S)) : SetToSeq(S)[i] = SetToSeq(S)[j] => i = j
<1> DEFINE n == Cardinality(S)
           P(f) == f \in [1 .. n -> S] /\ IsInjective(f)
           q == CHOOSE f : P(f)
<1>1. n \in Nat /\ ExistsBijection(1 .. n, S)
  BY FS_CardinalityType
<1>2. \E f : P(f)
  <2>1. PICK f \in [1 .. n -> S] : \A i, j \in 1 .. n : f[i] = f[j] => i = j
    BY <1>1 DEF ExistsBijection, Bijection, Injection, IsInjective
  <2> QED BY <2>1 DEF IsInjective
<1>3. SetToSeq(S) = q
  BY DEF SetToSeq
<1>4. P(q)
  <2> HIDE DEF P
  <2> QED BY <1>2
<1>5. q \in [1 .. n -> S] /\ \A i, j \in 1 .. n : q[i] = q[j] => i = j
  BY <1>4 DEF IsInjective
<1> HIDE DEF q, P
<1>6. q \in Seq(S) /\ Len(q) = n /\ DOMAIN q = 1 .. n
  BY <1>1, <1>5
<1>7. \A x \in S : \E i \in 1 .. n : q[i] = x
  <2>1. IsFiniteSet(1 .. n) /\ Cardinality(1 .. n) = n
    BY <1>1, FS_Interval
  <2>2. q \in Injection(1 .. n, S)
    BY <1>5 DEF Injection, IsInjective
  <2>3. q \in Surjection(1 .. n, S)
    BY <2>1, <2>2, FS_Injection
  <2> QED BY <2>3 DEF Surjection
<1> QED BY <1>1, <1>3, <1>5, <1>6, <1>7 DEF Firsts

LEMMA NoFirsts == \A all : Firsts(all, 0) = {}
  BY DEF Firsts

LEMMA NextFirsts ==
    ASSUME NEW all, NEW n \in Nat
    PROVE  Firsts(all, n + 1) = Firsts(all, n) \cup {all[n + 1]}
<1>1. 1 .. (n + 1) = (1 .. n) \cup {n + 1}
  OBVIOUS
<1> QED BY <1>1 DEF Firsts

\* Two functions that continue each other alike from a common start.
LEMMA SameFromTheFirst ==
    ASSUME NEW N \in Nat, NEW f, NEW g,
           f[0] = g[0],
           \A n \in 1 .. N : f[n - 1] = g[n - 1] => f[n] = g[n]
    PROVE  \A n \in 0 .. N : f[n] = g[n]
<1> DEFINE Differ == {n \in 0 .. N : f[n] # g[n]}
<1> SUFFICES ASSUME Differ # {} PROVE FALSE
  OBVIOUS
<1>1. Differ \subseteq Nat
  OBVIOUS
<1>2. PICK n \in Differ : \A m \in Differ : ~(<<m, n>> \in OpToRel(<, Nat))
  BY <1>1, WFMin, NatLessThanWellFounded
<1>3. \A m \in Differ : ~(m < n)
  BY <1>1, <1>2 DEF OpToRel
<1>4. n \in 1 .. N /\ n - 1 \in 0 .. N /\ n - 1 < n
  OBVIOUS
<1>5. f[n - 1] = g[n - 1]
  BY <1>3, <1>4
<1> QED BY <1>4, <1>5

LEMMA StoredIsWritten ==
    ASSUME NEW content \in Contents, NEW changes \in Changes, ~HasUncloneable(changes)
    PROVE  StoredBeforeFailure(content, changes) = Written(content, changes)
<1> DEFINE all == SetToSeq(Targets(changes))
           N == Len(all)
           Failures == {n \in 1 .. N : EntryFor(changes, all[n]) \in Uncloneable}
           Then(f, n) ==
               IF n = 0 THEN content
               ELSE [f[n - 1] EXCEPT ![all[n][1]] =
                        Merged(@, [j \in {all[n][2]} |-> changes[all[n][1]][all[n][2]]])]
           P(f) == f = [n \in 0 .. N |-> Then(f, n)]
           f == CHOOSE f : P(f)
           g == [n \in 0 .. N |-> ContentThen(content, changes, Firsts(all, n))]
<1>1. IsFiniteSet(Targets(changes))
  <2>1. Targets(changes) \in SUBSET (Store \X Key)
    BY DEF Targets
  <2> QED BY <2>1, FiniteAssumption, FS_Product, FS_Subset
<1>2. /\ N \in Nat
      /\ \A i \in 1 .. N : all[i] \in Targets(changes)
      /\ Firsts(all, N) = Targets(changes)
  BY <1>1, SequenceOfSet
<1>3. Failures = {}
  BY <1>2 DEF HasUncloneable
<1>4. StoredBeforeFailure(content, changes) = f[N]
  <2>1. StoredBeforeFailure(content, changes)
            = f[IF Failures = {} THEN N ELSE (CHOOSE n \in Failures : \A m \in Failures : n <= m) - 1]
    BY DEF StoredBeforeFailure
  <2> QED BY <1>3, <2>1
<1>5. /\ \A h : Then(h, 0) = content
      /\ \A h : \A n \in 1 .. N : Then(h, n) = WithEntry(h[n - 1], all[n], EntryFor(changes, all[n]))
      /\ \A n \in 0 .. N : g[n] = ContentThen(content, changes, Firsts(all, n))
      /\ g = [n \in 0 .. N |-> g[n]]
  BY <1>2 DEF EntryFor, WithEntry
<1> HIDE DEF g, Then, all, N
<1>6. P(g)
  <2>1. Then(g, 0) = g[0]
    <3>1. 0 \in 0 .. N /\ Firsts(all, 0) = {}
      BY <1>2, NoFirsts
    <3>2. g[0] = content
      BY <1>5, <3>1, ContentThenNone
    <3> QED BY <1>5, <3>2
  <2>2. ASSUME NEW n \in 1 .. N PROVE Then(g, n) = g[n]
    <3>1. PICK m \in Nat : n = m + 1 /\ m = n - 1 /\ m \in 0 .. N /\ \A i \in 1 .. m : i \in 1 .. N
      <4>1. n - 1 \in Nat /\ n = (n - 1) + 1 /\ n - 1 \in 0 .. N /\ \A i \in 1 .. (n - 1) : i \in 1 .. N
        BY <1>2
      <4> QED BY <4>1
    <3>2. PICK t \in Targets(changes) : t = all[n]
      BY <1>2
    <3>3. PICK T \in SUBSET Targets(changes) : T = Firsts(all, m)
      BY <1>2, <3>1 DEF Firsts
    <3>4. Firsts(all, n) = T \cup {t}
      BY <3>1, <3>2, <3>3, NextFirsts
    <3>5. g[m] = ContentThen(content, changes, T) /\ g[n] = ContentThen(content, changes, T \cup {t})
      <4>1. n \in 0 .. N /\ \A i \in 0 .. N : g[i] = ContentThen(content, changes, Firsts(all, i))
        BY <1>2, <1>5
      <4> QED BY <3>1, <3>3, <3>4, <4>1
    <3>6. WithEntry(g[m], t, EntryFor(changes, t)) = g[n]
      BY <3>5, ContentThenOne
    <3> QED BY <1>5, <3>1, <3>2, <3>6
  <2>3. \A n \in 0 .. N : n = 0 \/ n \in 1 .. N
    BY <1>2
  <2> QED BY <1>5, <2>1, <2>2, <2>3
<1>7. P(f)
  <2> HIDE DEF P
  <2> QED BY <1>6
<1> HIDE DEF f
<1>8. f[N] = g[N]
  <2>1. \A n \in 0 .. N : f[n] = Then(f, n) /\ g[n] = Then(g, n)
    BY <1>6, <1>7
  <2>2. f[0] = g[0]
    <3>1. 0 \in 0 .. N
      BY <1>2
    <3>2. f[0] = Then(f, 0) /\ g[0] = Then(g, 0)
      BY <2>1, <3>1
    <3> QED BY <1>5, <3>2
  <2>3. \A n \in 1 .. N : f[n - 1] = g[n - 1] => f[n] = g[n]
    BY <1>2, <1>5, <2>1
  <2>4. \A n \in 0 .. N : f[n] = g[n]
    BY <1>2, <2>2, <2>3, SameFromTheFirst
  <2> QED BY <1>2, <2>4
<1>9. g[N] = Written(content, changes)
  BY <1>2, <1>5, ContentThenAll
<1> QED BY <1>4, <1>8, <1>9

-----------------------------------------------------------------------------
(***************************************************************************)
(* What holds on every medium: a call is one that may be made, and without *)
(* one nothing is under way.                                               *)
(***************************************************************************)
InvCall ==
    /\ medium \in Medium
    /\ isOpen \in BOOLEAN
    /\ call \in Calls \cup {NoCall}
    /\ call = NoCall => run = Idle

LEMMA CallIsMade ==
    ASSUME InvCall, call.op # "none"
    PROVE  call \in Calls /\ call # NoCall
  BY DEF InvCall, NoCall

LEMMA NoCallIsMade == NoCall.op = "none"
  BY DEF NoCall

-----------------------------------------------------------------------------
(***************************************************************************)
(* In memory.                                                              *)
(***************************************************************************)
InvInMemory ==
    /\ disk \in Contents
    /\ run = Idle
    /\ call # NoCall => isOpen \/ call.op = "open"
    /\ call.op = "set" => ~HasUncloneable(call.changes)

LEMMA InMemoryOperators ==
    /\ InMemory!Idle = Idle /\ InMemory!NoCall = NoCall
    /\ InMemory!Done = Done /\ InMemory!Error = Error
    /\ InMemory!ReadOps = ReadOps /\ InMemory!NoStores = NoStores
    /\ \A c, result : InMemory!Answered(c, result) = Answered(c, result)
    /\ \A content, c : InMemory!Effect(content, c) = Effect(content, c)
    /\ \A content, c : InMemory!Result(content, c) = Result(content, c)
    /\ \A changes : InMemory!HasUncloneable(changes) = HasUncloneable(changes)
    /\ \A content, changes :
           InMemory!StoredBeforeFailure(content, changes) = StoredBeforeFailure(content, changes)
<1>1. /\ InMemory!Idle = Idle /\ InMemory!NoCall = NoCall
      /\ InMemory!Done = Done /\ InMemory!Error = Error
      /\ InMemory!ReadOps = ReadOps /\ InMemory!NoStores = NoStores
  BY DEF InMemory!Idle, Idle, InMemory!NoCall, NoCall, InMemory!Done, Done, InMemory!Error, Error,
         InMemory!ReadOps, ReadOps, InMemory!NoStores, NoStores, InMemory!NoRows, NoRows
<1>2. \A c, result : InMemory!Answered(c, result) = Answered(c, result)
  BY DEF InMemory!Answered, Answered
<1>3. \A content, c : InMemory!Effect(content, c) = Effect(content, c)
  BY DEF InMemory!Effect, Effect, InMemory!Created, Created, InMemory!Deleted, Deleted,
         InMemory!Emptied, Emptied, InMemory!Written, Written, InMemory!Merged, Merged,
         InMemory!RowsOf, RowsOf, InMemory!NoRows, NoRows
<1>4. \A S : InMemory!InOrder(S) = InOrder(S)
  BY DEF InMemory!InOrder, InOrder, InMemory!SetToSortSeq, SetToSortSeq, InMemory!SetToSeq, SetToSeq,
         InMemory!SortSeq, SortSeq, InMemory!Cardinality, Cardinality, InMemory!IsInjective, IsInjective
<1>5. \A content, c : InMemory!Result(content, c) = Result(content, c)
  BY <1>4 DEF InMemory!Result, Result, InMemory!RowsOf, RowsOf, InMemory!EntryAt, EntryAt,
         InMemory!NoRows, NoRows
<1>6. \A changes : InMemory!HasUncloneable(changes) = HasUncloneable(changes)
  BY DEF InMemory!HasUncloneable, HasUncloneable, InMemory!EntryFor, EntryFor, InMemory!Targets, Targets
<1>7. \A content, changes :
          InMemory!StoredBeforeFailure(content, changes) = StoredBeforeFailure(content, changes)
  BY DEF InMemory!StoredBeforeFailure, StoredBeforeFailure, InMemory!Targets, Targets,
         InMemory!EntryFor, EntryFor, InMemory!SetToSeq, SetToSeq, InMemory!Cardinality, Cardinality,
         InMemory!IsInjective, IsInjective, InMemory!Merged, Merged
<1> QED BY <1>1, <1>2, <1>3, <1>5, <1>6, <1>7

LEMMA InMemoryStep ==
    ASSUME InvCall, InvInMemory, medium = "InMemory", UNCHANGED medium, InMemory!Step
    PROVE  InvCall' /\ InvInMemory' /\ KeepsTheContract
<1>1. /\ Content = disk /\ Content' = disk'
      /\ CanBeCalled = isOpen /\ CanBeCalled' = isOpen'
  <2>1. isOpen \in BOOLEAN /\ isOpen' \in BOOLEAN
    BY DEF InvCall, InMemory!Step, InMemory!Open, InMemory!ChangeStores, InMemory!Write, InMemory!Read,
           InMemory!Finish
  <2> QED BY <2>1 DEF Content, InMemory!Content, CanBeCalled
<1>2. ASSUME call # NoCall, isOpen' \in BOOLEAN, disk' \in Contents, InMemory!Returns(reply')
      PROVE  InvCall' /\ InvInMemory' /\ call' = NoCall
  BY <1>2, InMemoryOperators, NoCallIsMade DEF InvCall, InvInMemory, InMemory!Returns
<1>3. ASSUME InMemory!Open PROVE InvCall' /\ InvInMemory' /\ KeepsTheContract
  <2>1. call.op = "open" /\ isOpen' = TRUE /\ disk' = disk /\ Replies(Done) /\ InMemory!Returns(reply')
    BY <1>3, InMemoryOperators DEF InMemory!Open, InMemory!Called, InMemory!Returns, Replies
  <2> QED BY <1>1, <1>2, <2>1, CallIsMade, ContractOpen DEF InvInMemory
<1>4. ASSUME InMemory!ChangeStores PROVE InvCall' /\ InvInMemory' /\ KeepsTheContract
  <2>1. /\ call.op \in WriteOps \ {"set"} /\ isOpen' = isOpen /\ InMemory!Returns(reply')
        /\ \/ disk' = disk /\ Replies(Error)
           \/ disk' = Effect(disk, call) /\ Replies(Done)
    BY <1>4, InMemoryOperators DEF InMemory!ChangeStores, InMemory!Returns, Replies, WriteOps
  <2>2. call \in Calls /\ call # NoCall /\ isOpen
    BY <2>1, CallIsMade DEF InvInMemory, WriteOps
  <2>3. disk' \in Contents
    BY <2>1, <2>2, EffectsAreContents DEF InvInMemory
  <2>4. CASE disk' = disk /\ Replies(Error)
    BY <1>1, <1>2, <2>1, <2>2, <2>3, <2>4, ContractReject DEF InvCall
  <2>5. CASE disk' = Effect(disk, call) /\ Replies(Done)
    BY <1>1, <1>2, <2>1, <2>2, <2>3, <2>5, ContractWrite DEF InvCall
  <2> QED BY <2>1, <2>4, <2>5
<1>5. ASSUME InMemory!Write PROVE InvCall' /\ InvInMemory' /\ KeepsTheContract
  <2>1. call.op = "set" /\ isOpen' = isOpen /\ InMemory!Returns(reply')
    BY <1>5 DEF InMemory!Write, InMemory!Called, InMemory!Set, InMemory!Returns
  <2>2. call \in Calls /\ call # NoCall /\ isOpen /\ call.changes \in Changes /\ ~HasUncloneable(call.changes)
    BY <2>1, CallIsMade, CallsAre DEF InvInMemory
  <2>3. CASE disk' = disk /\ Replies(Error)
    BY <1>1, <1>2, <2>1, <2>2, <2>3, ContractReject DEF InvCall, InvInMemory
  <2>4. CASE /\ DOMAIN call.changes \subseteq DOMAIN disk
             /\ disk' = StoredBeforeFailure(disk, call.changes)
             /\ Replies(Done)
    <3>1. disk' = Written(disk, call.changes) /\ disk' = Effect(disk, call)
      BY <2>1, <2>2, <2>4, StoredIsWritten DEF InvInMemory, Effect
    <3>2. disk' \in Contents
      BY <2>2, <3>1, WrittenAreContents DEF InvInMemory
    <3>3. \A t \in Targets(call.changes) : t[1] \in DOMAIN disk
      BY <2>2, <2>4, TargetsAre
    <3> QED BY <1>1, <1>2, <2>1, <2>2, <2>4, <3>1, <3>2, <3>3, ContractWrite DEF InvCall, WriteOps
  <2> QED BY <1>5, <2>2, <2>3, <2>4, InMemoryOperators
          DEF InMemory!Write, InMemory!Set, InMemory!Missing, InMemory!Returns, Replies
<1>6. ASSUME InMemory!Read PROVE InvCall' /\ InvInMemory' /\ KeepsTheContract
  <2>1. /\ call.op \in ReadOps /\ isOpen' = isOpen /\ disk' = disk /\ InMemory!Returns(reply')
        /\ Replies(Error) \/ Replies(Answered(call, Result(disk, call)))
    BY <1>6, InMemoryOperators DEF InMemory!Read, InMemory!Returns, Replies
  <2>2. call # NoCall /\ isOpen
    BY <2>1, CallIsMade DEF InvInMemory, ReadOps
  <2>3. InvCall' /\ InvInMemory'
    BY <1>2, <2>1, <2>2 DEF InvCall, InvInMemory
  <2> QED BY <1>1, <2>1, <2>2, <2>3, ContractRead, ContractReject
<1>7. ASSUME InMemory!Finish PROVE InvCall' /\ InvInMemory' /\ KeepsTheContract
  <2>1. /\ call.op \in {"close", "destroy"} /\ isOpen' = FALSE /\ Replies(Done) /\ InMemory!Returns(reply')
        /\ disk' = IF call.op = "destroy" THEN NoStores ELSE disk
    BY <1>7, InMemoryOperators DEF InMemory!Finish, InMemory!Returns, Replies
  <2>2. disk' \in Contents /\ call # NoCall
    BY <2>1, NoStoresAreContents, CallIsMade DEF InvInMemory
  <2> QED BY <1>1, <1>2, <2>1, <2>2, ContractClose, ContractDestroy
<1> QED BY <1>3, <1>4, <1>5, <1>6, <1>7 DEF InMemory!Step

-----------------------------------------------------------------------------
(***************************************************************************)
(* LevelDB.  Records are under the prefixes of existing stores only; when  *)
(* the names are put without the deleted ones, theirs are gone.            *)
(***************************************************************************)
InvLevelDB ==
    /\ disk \in [items : Items, names : SUBSET Store]
    /\ Under(disk.names, disk.items)
    /\ run \in {Idle, [at |-> "put names"], [at |-> "destroy"]}
    /\ run.at = "put names" => /\ isOpen /\ call.op = "deleteObjectStores"
                               /\ \A t \in DOMAIN disk.items : t[1] \notin call.names
    /\ run.at = "destroy" => ~isOpen /\ call.op = "destroy"

LEMMA LevelDBOperators ==
    /\ LevelDB!Idle = Idle /\ LevelDB!NoCall = NoCall /\ LevelDB!Done = Done /\ LevelDB!Error = Error
    /\ LevelDB!ReadOps = ReadOps
    /\ \A c, result : LevelDB!Answered(c, result) = Answered(c, result)
    /\ \A rows, k : LevelDB!EntryAt(rows, k) = EntryAt(rows, k)
    /\ \A rows, new : LevelDB!Merged(rows, new) = Merged(rows, new)
    /\ \A changes : LevelDB!Targets(changes) = Targets(changes)
    /\ \A changes, t : LevelDB!EntryFor(changes, t) = EntryFor(changes, t)
    /\ \A changes : LevelDB!HasUncloneable(changes) = HasUncloneable(changes)
    /\ \A S : LevelDB!InOrder(S) = InOrder(S)
    /\ \A c : LevelDB!AsksNothing(c) <=> AsksNothing(c)
<1>1. /\ LevelDB!Idle = Idle /\ LevelDB!NoCall = NoCall /\ LevelDB!Done = Done /\ LevelDB!Error = Error
      /\ LevelDB!ReadOps = ReadOps
  BY DEF LevelDB!Idle, Idle, LevelDB!NoCall, NoCall, LevelDB!Done, Done, LevelDB!Error, Error,
         LevelDB!ReadOps, ReadOps
<1>2. \A c, result : LevelDB!Answered(c, result) = Answered(c, result)
  BY DEF LevelDB!Answered, Answered
<1>3. \A rows, k : LevelDB!EntryAt(rows, k) = EntryAt(rows, k)
  BY DEF LevelDB!EntryAt, EntryAt
<1>4. \A rows, new : LevelDB!Merged(rows, new) = Merged(rows, new)
  BY DEF LevelDB!Merged, Merged
<1>5. /\ \A changes : LevelDB!Targets(changes) = Targets(changes)
      /\ \A changes, t : LevelDB!EntryFor(changes, t) = EntryFor(changes, t)
      /\ \A changes : LevelDB!HasUncloneable(changes) = HasUncloneable(changes)
  BY DEF LevelDB!HasUncloneable, HasUncloneable, LevelDB!EntryFor, EntryFor, LevelDB!Targets, Targets
<1>6. \A S : LevelDB!InOrder(S) = InOrder(S)
  BY DEF LevelDB!InOrder, InOrder, LevelDB!SetToSortSeq, SetToSortSeq, LevelDB!SetToSeq, SetToSeq,
         LevelDB!SortSeq, SortSeq, LevelDB!Cardinality, Cardinality, LevelDB!IsInjective, IsInjective
<1>7. \A c : LevelDB!AsksNothing(c) <=> AsksNothing(c)
  BY DEF LevelDB!AsksNothing, AsksNothing
<1> QED BY <1>1, <1>2, <1>3, <1>4, <1>5, <1>6, <1>7

LEMMA LevelDBContent ==
    ASSUME InvLevelDB, medium = "LevelDB"
    PROVE  /\ Content = StoredAs(disk.names, disk.items)
           /\ medium' = medium => Content' = StoredAs(disk'.names, disk'.items)
           /\ Content \in Contents /\ DOMAIN Content = disk.names
           /\ \A s \in disk.names : \A k \in Key : EntryAt(Content[s], k) = EntryAt(disk.items, <<s, k>>)
<1>1. /\ Content = StoredAs(disk.names, disk.items)
      /\ medium' = medium => Content' = StoredAs(disk'.names, disk'.items)
  BY LevelDBOperators DEF Content, LevelDB!Content, LevelDB!GetRawValue, StoredAs
<1>2. disk.names \in SUBSET Store /\ disk.items \in Items
  BY DEF InvLevelDB
<1> QED BY <1>1, <1>2, StoredAsIsContent

\* Items after a batch.
LEMMA MergedAreItems ==
    ASSUME NEW items \in Items, NEW batch, DOMAIN batch \subseteq Store \X Key,
           \A t \in DOMAIN batch : batch[t] \in Entry \cup {Null}
    PROVE  Merged(items, batch) \in Items
<1> DEFINE T == {t \in DOMAIN items \cup DOMAIN batch : t \in DOMAIN batch => batch[t] # Null}
<1>1. Merged(items, batch) = [t \in T |-> IF t \in DOMAIN batch THEN batch[t] ELSE items[t]]
  BY DEF Merged
<1>2. T \in SUBSET (Store \X Key)
  <2>1. DOMAIN items \in SUBSET (Store \X Key)
    BY DEF Items
  <2> QED BY <2>1
<1>3. \A t \in T : (IF t \in DOMAIN batch THEN batch[t] ELSE items[t]) \in Entry
  BY ItemsAre
<1> HIDE DEF T
<1>4. Merged(items, batch) \in [T -> Entry]
  BY <1>1, <1>3
<1> QED BY <1>2, <1>4 DEF Items

\* Items when those under the prefixes of some stores are gone.
Without(gone, items) == Merged(items, [t \in {t \in DOMAIN items : t[1] \in gone} |-> Null])

LEMMA WithoutAreItems ==
    ASSUME NEW items \in Items, NEW gone
    PROVE  /\ Without(gone, items) \in Items
           /\ \A t \in DOMAIN Without(gone, items) : t \in DOMAIN items /\ t[1] \notin gone
           /\ \A s, k : EntryAt(Without(gone, items), <<s, k>>) =
                            IF s \in gone THEN Null ELSE EntryAt(items, <<s, k>>)
<1> DEFINE T == {t \in DOMAIN items : t[1] \in gone}
           batch == [t \in T |-> Null]
<1>1. DOMAIN batch = T /\ \A t \in T : batch[t] = Null
  OBVIOUS
<1>2. T \subseteq Store \X Key
  BY ItemsAre
<1>3. \A t : t \in T <=> t \in DOMAIN items /\ t[1] \in gone
  OBVIOUS
<1>4. Without(gone, items) = Merged(items, batch)
  BY DEF Without
<1> HIDE DEF T, batch
<1>5. Without(gone, items) \in Items
  BY <1>1, <1>2, <1>4, MergedAreItems
<1>6. \A t \in DOMAIN Without(gone, items) : t \in DOMAIN items /\ t[1] \notin gone
  BY <1>1, <1>3, <1>4 DEF Merged
<1>7. ASSUME NEW s, NEW k
      PROVE  EntryAt(Without(gone, items), <<s, k>>) =
                 IF s \in gone THEN Null ELSE EntryAt(items, <<s, k>>)
  <2>1. EntryAt(Without(gone, items), <<s, k>>) =
            IF <<s, k>> \in T THEN Null ELSE EntryAt(items, <<s, k>>)
    BY <1>1, <1>4, MergedEntries
  <2>2. <<s, k>>[1] = s
    OBVIOUS
  <2> QED BY <1>3, <2>1, <2>2 DEF EntryAt
<1> QED BY <1>5, <1>6, <1>7

\* What a read answers, from the items.
LEMMA AnsweredFromItems ==
    ASSUME InvLevelDB, medium = "LevelDB", UNCHANGED medium, call \in Calls, call.op \in ReadOps
    PROVE  LevelDB!Answer(call) = Result(Content, call)
<1>1. disk.names \in SUBSET Store /\ disk.items \in Items /\ Under(disk.names, disk.items)
  BY DEF InvLevelDB
<1>2. Content = StoredAs(disk.names, disk.items) /\ DOMAIN Content = disk.names
  BY LevelDBContent
<1>3. CASE call.op = "getObjectStoreNames"
  BY <1>2, <1>3 DEF LevelDB!Answer, Result
<1>4. CASE call.op # "getObjectStoreNames"
  <2>1. PICK s \in Store : s = call.store
    BY <1>4, CallsAre
  <2>2. PICK rows \in Rows : rows = RowsOf(Content, s)
    BY LevelDBContent, RowsOfContents
  <2>3. \A k \in Key : EntryAt(rows, k) = EntryAt(disk.items, <<s, k>>)
    BY <1>1, <1>2, <2>2, RowsOfStored
  <2>4. rows = LevelDB!GetAll(s)
    BY <1>1, <1>2, <2>2, RowsOfStored DEF LevelDB!GetAll, LevelDB!InRange
  <2>5. CASE call.op \in {"get", "has"}
    <3>1. \A i \in DOMAIN call.keys : call.keys[i] \in Key
      BY <2>5, CallsAre
    <3>2. \A i \in DOMAIN call.keys : LevelDB!GetRawValue(s, call.keys[i]) = EntryAt(rows, call.keys[i])
      BY <2>3, <3>1, LevelDBOperators DEF LevelDB!GetRawValue
    <3>3. \A k \in Key : k \in DOMAIN rows <=> EntryAt(rows, k) # Null
      BY RowsAre DEF EntryAt
    <3> QED BY <2>1, <2>2, <2>5, <3>1, <3>2, <3>3 DEF LevelDB!Answer, Result
  <2>6. CASE call.op \in {"getAll", "createIterator", "getAllKeys", "count"}
    BY <2>1, <2>2, <2>4, <2>6, LevelDBOperators DEF LevelDB!Answer, Result
  <2> QED BY <1>4, <2>5, <2>6 DEF ReadOps
<1> QED BY <1>3, <1>4

\* Once the items are well kept, the rest of the invariant is about the call.
LEMMA LevelDBReplies ==
    ASSUME InvCall, UNCHANGED medium, isOpen' \in BOOLEAN,
           disk' \in [items : Items, names : SUBSET Store], Under(disk'.names, disk'.items),
           LevelDB!Returns(reply')
    PROVE  InvCall' /\ InvLevelDB' /\ call' = NoCall
  BY LevelDBOperators, NoCallIsMade DEF InvCall, InvLevelDB, LevelDB!Returns, Idle

LEMMA LevelDBStep ==
    ASSUME InvCall, InvLevelDB, medium = "LevelDB", UNCHANGED medium, LevelDB!Step
    PROVE  InvCall' /\ InvLevelDB' /\ KeepsTheContract
<1>1. /\ Content = StoredAs(disk.names, disk.items)
      /\ Content' = StoredAs(disk'.names, disk'.items)
      /\ Content \in Contents /\ DOMAIN Content = disk.names
      /\ \A s \in disk.names : \A k \in Key : EntryAt(Content[s], k) = EntryAt(disk.items, <<s, k>>)
  BY LevelDBContent
<1>2. PICK items \in Items, names \in SUBSET Store :
          disk.items = items /\ disk.names = names /\ Under(names, items)
             /\ disk = [items |-> items, names |-> names]
  BY DEF InvLevelDB
<1>3. CanBeCalled = isOpen /\ CanBeCalled' = isOpen' /\ isOpen' \in BOOLEAN
  <2>1. isOpen \in BOOLEAN /\ isOpen' \in BOOLEAN
    BY DEF InvCall, LevelDB!Step, LevelDB!Open, LevelDB!CreateObjectStoresIfNeeded,
           LevelDB!ClearObjectStores, LevelDB!EndDelete, LevelDB!Set, LevelDB!Read, LevelDB!Close,
           LevelDB!Destroy, LevelDB!EndDestroy, LevelDB!RejectClosed, LevelDB!Rejected
  <2> QED BY <2>1 DEF CanBeCalled
<1>4. disk' = disk => Content' = Content /\ disk' \in [items : Items, names : SUBSET Store]
                                         /\ Under(disk'.names, disk'.items)
  BY <1>1 DEF InvLevelDB
\* A call that is rejected, or answered without a change.
<1>5. ASSUME call # NoCall, disk' = disk, LevelDB!Returns(reply'),
             \/ reply' = Error /\ isOpen' \in {isOpen, FALSE}
             \/ reply' = Done /\ call.op = "open" /\ isOpen' = TRUE
             \/ reply' = Done /\ call.op = "close" /\ isOpen' = FALSE
      PROVE  InvCall' /\ InvLevelDB' /\ KeepsTheContract
  <2>1. InvCall' /\ InvLevelDB' /\ call' = NoCall
    BY <1>3, <1>4, <1>5, LevelDBReplies
  <2> QED BY <1>3, <1>4, <1>5, <2>1, ContractReject, ContractOpen, ContractClose DEF Replies
\* A write that is done.
<1>6. ASSUME call # NoCall, isOpen, isOpen' = isOpen, call.op \in WriteOps,
             call.op = "set" => /\ \A t \in Targets(call.changes) : t[1] \in DOMAIN Content
                                /\ ~HasUncloneable(call.changes),
             disk' \in [items : Items, names : SUBSET Store], Under(disk'.names, disk'.items),
             Content' = Effect(Content, call), LevelDB!Returns(reply'), reply' = Done
      PROVE  InvCall' /\ InvLevelDB' /\ KeepsTheContract
  <2>1. InvCall' /\ InvLevelDB' /\ call' = NoCall
    BY <1>3, <1>6, LevelDBReplies
  <2> QED BY <1>3, <1>6, <2>1, ContractWrite DEF Replies
<1>7. ASSUME LevelDB!Open PROVE InvCall' /\ InvLevelDB' /\ KeepsTheContract
  BY <1>5, <1>7, CallIsMade, LevelDBOperators DEF LevelDB!Open, LevelDB!Called, LevelDB!Returns
<1>8. ASSUME LevelDB!CreateObjectStoresIfNeeded PROVE InvCall' /\ InvLevelDB' /\ KeepsTheContract
  <2>1. /\ call.op = "createObjectStoresIfNeeded" /\ isOpen /\ isOpen' = isOpen
        /\ LevelDB!Returns(reply')
        /\ \/ disk' = disk /\ reply' = Error
           \/ disk' = [items |-> items, names |-> names \cup call.names] /\ reply' = Done
    BY <1>2, <1>8, LevelDBOperators
       DEF LevelDB!CreateObjectStoresIfNeeded, LevelDB!Called, LevelDB!PutNames, LevelDB!Returns
  <2>2. call # NoCall /\ call \in Calls /\ call.names \in SUBSET Store
    BY <2>1, CallIsMade, CallsAre DEF WriteOps
  <2>3. CASE disk' = disk /\ reply' = Error
    BY <1>5, <2>1, <2>2, <2>3
  <2>4. CASE disk' = [items |-> items, names |-> names \cup call.names] /\ reply' = Done
    <3>1. PICK all \in SUBSET Store : all = names \cup call.names
      BY <2>2
    <3>2. Under(all, items)
      BY <1>2, <3>1 DEF Under
    <3>3. /\ Content' = StoredAs(all, items) /\ StoredAs(all, items) \in Contents
          /\ DOMAIN StoredAs(all, items) = all
          /\ \A s \in all : \A k \in Key :
                EntryAt(StoredAs(all, items)[s], k) = EntryAt(items, <<s, k>>)
      BY <1>1, <2>4, <3>1, StoredAsIsContent
    <3>4. /\ Created(Content, call.names) \in Contents
          /\ DOMAIN Created(Content, call.names) = all
      BY <1>1, <1>2, <2>2, <3>1, CreatedAreContents
    <3>5. ASSUME NEW s \in all, NEW k \in Key
          PROVE  EntryAt(Created(Content, call.names)[s], k) = EntryAt(items, <<s, k>>)
      <4>1. EntryAt(Created(Content, call.names)[s], k) = EntryAt(RowsOf(Content, s), k)
        BY <1>1, <1>2, <3>1, CreatedEntries
      <4> QED BY <1>1, <1>2, <4>1, RowsOfStored
    <3>6. StoredAs(all, items) = Created(Content, call.names)
      <4>1. PICK a \in Contents, b \in Contents :
                a = StoredAs(all, items) /\ b = Created(Content, call.names)
        BY <3>3, <3>4
      <4>2. DOMAIN a = all /\ DOMAIN b = all
        BY <3>3, <3>4, <4>1
      <4>3. \A s \in all : \A k \in Key : EntryAt(a[s], k) = EntryAt(b[s], k)
        BY <3>3, <3>5, <4>1
      <4> QED BY <4>1, <4>2, <4>3, SameContents
    <3>7. Content' = Effect(Content, call)
      BY <2>1, <3>3, <3>6 DEF Effect
    <3> QED BY <1>6, <2>1, <2>2, <2>4, <3>1, <3>2, <3>7 DEF WriteOps
  <2> QED BY <2>1, <2>3, <2>4
<1>9. ASSUME LevelDB!ClearObjectStores PROVE InvCall' /\ InvLevelDB' /\ KeepsTheContract
  <2> DEFINE left == Without(call.names, items)
  <2>1. /\ call.op \in {"clearObjectStores", "deleteObjectStores"} /\ isOpen /\ isOpen' = isOpen
        /\ \/ disk' = disk /\ reply' = Error /\ LevelDB!Returns(reply')
           \/ /\ disk' = [items |-> left, names |-> names]
              /\ IF call.op = "clearObjectStores" THEN LevelDB!Returns(reply') /\ reply' = Done
                 ELSE run' = [at |-> "put names"] /\ UNCHANGED <<call, reply>>
    BY <1>2, <1>9, LevelDBOperators
       DEF LevelDB!ClearObjectStores, LevelDB!Clear, LevelDB!ExecBatch, LevelDB!InRange,
           LevelDB!Returns, LevelDB!Goes, Without
  <2>2. call # NoCall /\ call \in Calls /\ call.names \in SUBSET Store
    BY <2>1, CallIsMade, CallsAre DEF WriteOps
  <2>3. PICK l \in Items : l = left /\ Under(names, l) /\ \A u \in DOMAIN l : u[1] \notin call.names
    BY <1>2, WithoutAreItems DEF Under
  <2>4. ASSUME NEW s \in names, NEW k \in Key
        PROVE  EntryAt(StoredAs(names, l)[s], k) =
                   IF s \in call.names THEN Null ELSE EntryAt(Content[s], k)
    <3>1. EntryAt(l, <<s, k>>) = IF s \in call.names THEN Null ELSE EntryAt(items, <<s, k>>)
      BY <2>3, WithoutAreItems
    <3>2. EntryAt(StoredAs(names, l)[s], k) = EntryAt(l, <<s, k>>)
      BY StoredAsIsContent
    <3> QED BY <1>1, <1>2, <3>1, <3>2
  <2>5. StoredAs(names, l) \in Contents /\ DOMAIN StoredAs(names, l) = names
    BY StoredAsIsContent
  <2> HIDE DEF left
  <2>6. CASE disk' = disk /\ reply' = Error /\ LevelDB!Returns(reply')
    BY <1>5, <2>1, <2>2, <2>6
  <2>7. CASE /\ call.op = "clearObjectStores" /\ disk' = [items |-> l, names |-> names]
             /\ LevelDB!Returns(reply') /\ reply' = Done
    <3>1. PICK a \in Contents, b \in Contents :
              a = StoredAs(names, l) /\ b = Emptied(Content, call.names)
      BY <1>1, <2>5, EmptiedAreContents
    <3>2. DOMAIN a = names /\ DOMAIN b = names
      BY <1>1, <1>2, <2>5, <3>1, EmptiedAreContents
    <3>3. \A s \in names : \A k \in Key : EntryAt(a[s], k) = EntryAt(b[s], k)
      BY <1>1, <1>2, <2>4, <3>1, EmptiedEntries
    <3>4. a = b
      BY <3>2, <3>3, SameContents
    <3>5. Content' = Effect(Content, call)
      BY <1>1, <2>7, <3>1, <3>4 DEF Effect
    <3> QED BY <1>6, <2>1, <2>2, <2>3, <2>7, <3>5 DEF WriteOps
  <2>8. CASE /\ call.op = "deleteObjectStores" /\ disk' = [items |-> l, names |-> names]
             /\ run' = [at |-> "put names"] /\ UNCHANGED <<call, reply>>
    <3>1. InvCall' /\ InvLevelDB'
      BY <1>3, <2>1, <2>2, <2>3, <2>8 DEF InvCall, InvLevelDB, Idle
    <3>2. Content' = StoredAs(names, l)
      BY <1>1, <2>8
    <3>3. \A s \in names \ call.names : Content'[s] = Content[s]
      <4>1. PICK a \in Contents, b \in Contents : a = Content' /\ b = Content
        BY <1>1, <2>5, <3>2
      <4>2. \A s \in names : a[s] \in Rows /\ b[s] \in Rows
        BY <1>1, <1>2, <2>5, <3>2, <4>1, ContentsAre
      <4>3. \A s \in names \ call.names : \A k \in Key : EntryAt(a[s], k) = EntryAt(b[s], k)
        BY <2>4, <3>2, <4>1
      <4> QED BY <4>1, <4>2, <4>3, SameRows
    <3>4. KeepsTheContract
      BY <1>1, <1>2, <1>3, <2>1, <2>4, <2>5, <2>8, <3>2, <3>3, ContractRemovePart
    <3> QED BY <3>1, <3>4
  <2> QED BY <2>1, <2>3, <2>6, <2>7, <2>8
<1>10. ASSUME LevelDB!EndDelete PROVE InvCall' /\ InvLevelDB' /\ KeepsTheContract
  <2>1. /\ run.at = "put names" /\ isOpen' = isOpen /\ LevelDB!Returns(reply')
        /\ \/ disk' = disk /\ reply' = Error
           \/ disk' = [items |-> items, names |-> names \ call.names] /\ reply' = Done
    BY <1>2, <1>10, LevelDBOperators DEF LevelDB!EndDelete, LevelDB!PutNames, LevelDB!Returns
  <2>2. /\ call.op = "deleteObjectStores" /\ isOpen
        /\ \A t \in DOMAIN items : t[1] \notin call.names
    BY <1>2, <2>1 DEF InvLevelDB
  <2>3. call # NoCall
    BY <2>2, CallIsMade
  <2>4. CASE disk' = disk /\ reply' = Error
    BY <1>5, <2>1, <2>3, <2>4
  <2>5. CASE disk' = [items |-> items, names |-> names \ call.names] /\ reply' = Done
    <3>1. PICK rest \in SUBSET Store : rest = names \ call.names
      OBVIOUS
    <3>2. Under(rest, items)
      BY <1>2, <2>2, <3>1 DEF Under
    <3>3. StoredAs(rest, items) = Deleted(StoredAs(names, items), call.names)
      BY <3>1 DEF StoredAs, Deleted
    <3>4. Content' = Effect(Content, call)
      BY <1>1, <1>2, <2>2, <2>5, <3>1, <3>3 DEF Effect
    <3> QED BY <1>6, <2>1, <2>2, <2>3, <2>5, <3>1, <3>2, <3>4 DEF WriteOps
  <2> QED BY <2>1, <2>4, <2>5
<1>11. ASSUME LevelDB!Set PROVE InvCall' /\ InvLevelDB' /\ KeepsTheContract
  <2> DEFINE changes == call.changes
             batch == [t \in Targets(changes) |-> EntryFor(changes, t)]
  <2>1. /\ call.op = "set" /\ isOpen /\ isOpen' = isOpen /\ LevelDB!Returns(reply')
        /\ \/ disk' = disk /\ reply' = Error
           \/ /\ DOMAIN changes \subseteq names /\ ~HasUncloneable(changes)
              /\ disk' = [items |-> Merged(items, batch), names |-> names]
              /\ reply' = Done
    BY <1>2, <1>11, LevelDBOperators DEF LevelDB!Set, LevelDB!Called, LevelDB!ExecBatch, LevelDB!Returns
  <2>2. call # NoCall /\ changes \in Changes
    BY <2>1, CallIsMade, CallsAre
  <2>3. CASE disk' = disk /\ reply' = Error
    BY <1>5, <2>1, <2>2, <2>3
  <2>4. CASE /\ DOMAIN changes \subseteq names /\ ~HasUncloneable(changes)
             /\ disk' = [items |-> Merged(items, batch), names |-> names]
             /\ reply' = Done
    <3> HIDE DEF changes
    <3>1. /\ DOMAIN batch = Targets(changes) /\ Targets(changes) \subseteq Store \X Key
          /\ \A t \in Targets(changes) : /\ batch[t] = EntryFor(changes, t) /\ batch[t] \in Entry \cup {Null}
                                         /\ t[1] \in names
      BY <2>2, <2>4, TargetsAre DEF Targets, HasUncloneable, Entry
    <3> HIDE DEF batch
    <3>2. PICK all \in Items : all = Merged(items, batch)
      BY <3>1, MergedAreItems
    <3>3. Under(names, all)
      BY <1>2, <3>1, <3>2 DEF Under, Merged
    <3>4. Content' = StoredAs(names, all)
      BY <1>1, <2>4, <3>2
    <3>5. PICK a \in Contents, b \in Contents : a = StoredAs(names, all) /\ b = Written(Content, changes)
      BY <1>1, <2>2, <2>4, StoredAsIsContent, WrittenAreContents
    <3>6. DOMAIN a = names /\ DOMAIN b = names
      BY <1>1, <1>2, <2>2, <2>4, <3>5, StoredAsIsContent, WrittenAreContents
    <3>7. ASSUME NEW s \in names, NEW k \in Key PROVE EntryAt(a[s], k) = EntryAt(b[s], k)
      <4>1. EntryAt(a[s], k) = EntryAt(all, <<s, k>>)
        BY <3>5, StoredAsIsContent
      <4>2. EntryAt(all, <<s, k>>) = IF <<s, k>> \in Targets(changes) THEN EntryFor(changes, <<s, k>>)
                                     ELSE EntryAt(items, <<s, k>>)
        BY <3>1, <3>2, MergedEntries
      <4>3. EntryAt(b[s], k) = IF <<s, k>> \in Targets(changes) THEN EntryFor(changes, <<s, k>>)
                               ELSE EntryAt(Content[s], k)
        BY <1>1, <1>2, <2>2, <3>5, WrittenEntries
      <4> QED BY <1>1, <1>2, <4>1, <4>2, <4>3
    <3>8. a = b
      BY <3>6, <3>7, SameContents
    <3>9. Content' = Effect(Content, call)
      BY <2>1, <3>4, <3>5, <3>8 DEF Effect, changes
    <3>10. \A t \in Targets(call.changes) : t[1] \in DOMAIN Content
      BY <1>1, <1>2, <3>1 DEF changes
    <3> QED BY <1>6, <2>1, <2>2, <2>4, <3>2, <3>3, <3>9, <3>10 DEF WriteOps, changes
  <2> QED BY <2>1, <2>3, <2>4
<1>12. ASSUME LevelDB!Read PROVE InvCall' /\ InvLevelDB' /\ KeepsTheContract
  <2>1. /\ call.op \in ReadOps /\ isOpen' = isOpen /\ disk' = disk /\ LevelDB!Returns(reply')
        /\ isOpen \/ AsksNothing(call)
        /\ reply' = Error \/ reply' = Answered(call, LevelDB!Answer(call))
    BY <1>12, LevelDBOperators DEF LevelDB!Read, LevelDB!Returns, LevelDB!HasNothing
  <2>2. call # NoCall /\ call \in Calls
    BY <2>1, CallIsMade DEF ReadOps
  <2>3. LevelDB!Answer(call) = Result(Content, call)
    BY <2>1, <2>2, AnsweredFromItems
  <2>4. InvCall' /\ InvLevelDB' /\ call' = NoCall
    BY <1>3, <1>4, <2>1, LevelDBReplies
  <2>5. CASE reply' = Error
    BY <1>5, <2>1, <2>2, <2>5
  <2>6. CASE reply' = Answered(call, Result(Content, call))
    BY <1>3, <1>4, <2>1, <2>4, <2>6, ContractRead DEF Replies
  <2> QED BY <2>1, <2>3, <2>5, <2>6
<1>13. ASSUME LevelDB!Close PROVE InvCall' /\ InvLevelDB' /\ KeepsTheContract
  BY <1>5, <1>13, CallIsMade, LevelDBOperators DEF LevelDB!Close, LevelDB!Called, LevelDB!Returns
<1>14. ASSUME LevelDB!Destroy PROVE InvCall' /\ InvLevelDB' /\ KeepsTheContract
  <2>1. /\ call.op = "destroy" /\ isOpen' = FALSE /\ disk' = disk
        /\ \/ LevelDB!Returns(reply') /\ reply' = Error
           \/ run' = [at |-> "destroy"] /\ UNCHANGED <<call, reply>>
    BY <1>14, LevelDBOperators DEF LevelDB!Destroy, LevelDB!Called, LevelDB!Returns, LevelDB!Goes
  <2>2. call # NoCall
    BY <2>1, CallIsMade
  <2>3. CASE LevelDB!Returns(reply') /\ reply' = Error
    BY <1>5, <2>1, <2>2, <2>3
  <2>4. CASE run' = [at |-> "destroy"] /\ UNCHANGED <<call, reply>>
    <3>1. InvCall' /\ InvLevelDB'
      BY <2>1, <2>2, <2>4 DEF InvCall, InvLevelDB, Idle
    <3>2. KeepsTheContract
      BY <1>1, <1>3, <1>4, <2>1, <2>4, ContractRemovePart
    <3> QED BY <3>1, <3>2
  <2> QED BY <2>1, <2>3, <2>4
<1>15. ASSUME LevelDB!EndDestroy PROVE InvCall' /\ InvLevelDB' /\ KeepsTheContract
  <2>1. /\ run.at = "destroy" /\ isOpen' = isOpen /\ LevelDB!Returns(reply')
        /\ \/ disk' = disk /\ reply' = Error
           \/ disk' = [items |-> [t \in {} |-> Null], names |-> {}] /\ reply' = Done
    BY <1>15, LevelDBOperators DEF LevelDB!EndDestroy, LevelDB!Returns
  <2>2. call.op = "destroy" /\ ~isOpen /\ call # NoCall
    BY <2>1, CallIsMade DEF InvLevelDB
  <2>3. CASE disk' = disk /\ reply' = Error
    BY <1>5, <2>1, <2>2, <2>3
  <2>4. CASE disk' = [items |-> [t \in {} |-> Null], names |-> {}] /\ reply' = Done
    <3>1. PICK none : none = [t \in {} |-> Null]
      OBVIOUS
    <3>2. none \in Items /\ Under({}, none)
      BY <3>1 DEF Items, Under
    <3>3. Content' = NoStores
      BY <1>1, <2>4 DEF StoredAs, NoStores
    <3>4. InvCall' /\ InvLevelDB' /\ call' = NoCall
      BY <1>3, <2>1, <2>4, <3>1, <3>2, LevelDBReplies
    <3> QED BY <1>3, <2>1, <2>2, <2>4, <3>3, <3>4, ContractDestroy DEF Replies, InvCall
  <2> QED BY <2>1, <2>3, <2>4
<1>16. ASSUME LevelDB!RejectClosed PROVE InvCall' /\ InvLevelDB' /\ KeepsTheContract
  BY <1>5, <1>16, CallIsMade, LevelDBOperators
     DEF LevelDB!RejectClosed, LevelDB!Rejected, LevelDB!Returns
<1> QED BY <1>7, <1>8, <1>9, <1>10, <1>11, <1>12, <1>13, <1>14, <1>15, <1>16 DEF LevelDB!Step

-----------------------------------------------------------------------------
(***************************************************************************)
(* The statements of a transaction.  Executed is the content after some of *)
(* the statements of a call, in whatever order they were executed.         *)
(***************************************************************************)
SQLWrites == WriteOps \cup {"destroy"}

TablesOf(S) == {x.table : x \in S}
TargetsOf(S) == {<<x.table, x.key>> : x \in S}

Executed(content, c, S) ==
    CASE c.op = "createObjectStoresIfNeeded" -> Created(content, TablesOf(S))
      [] c.op \in {"deleteObjectStores", "destroy"} -> Deleted(content, TablesOf(S))
      [] c.op = "clearObjectStores" -> Emptied(content, TablesOf(S))
      [] c.op = "set" -> ContentThen(content, c.changes, TargetsOf(S))

TableStatements(sql, names) == {[sql |-> sql, table |-> s] : s \in names}

RowStatement(changes, t) ==
    [sql |-> "row", table |-> t[1], key |-> t[2], value |-> EntryFor(changes, t)]

\* The kind of the statements of a call that concerns whole tables, and these.
Sql(c) ==
    CASE c.op = "createObjectStoresIfNeeded" -> "create"
      [] c.op \in {"deleteObjectStores", "destroy"} -> "drop"
      [] c.op = "clearObjectStores" -> "empty"

TablesIn(c, content) == IF c.op = "destroy" THEN DOMAIN content ELSE c.names

StatementsIn(c, content) ==
    IF c.op = "set" THEN {RowStatement(c.changes, t) : t \in Targets(c.changes)}
    ELSE TableStatements(Sql(c), TablesIn(c, content))

LEMMA TablesOfStatements ==
    ASSUME NEW sql, NEW names
    PROVE  TablesOf(TableStatements(sql, names)) = names
<1>1. \A s \in names : [sql |-> sql, table |-> s] \in TableStatements(sql, names)
  BY DEF TableStatements
<1>2. \A x \in TableStatements(sql, names) : x.table \in names
  BY DEF TableStatements
<1>3. \A s \in names : \E x \in TableStatements(sql, names) : x.table = s
  BY <1>1
<1> HIDE DEF TableStatements
<1> QED BY <1>2, <1>3 DEF TablesOf

LEMMA TargetsOfStatements ==
    ASSUME NEW changes \in Changes
    PROVE  TargetsOf({RowStatement(changes, t) : t \in Targets(changes)}) = Targets(changes)
<1> DEFINE all == {RowStatement(changes, t) : t \in Targets(changes)}
<1>1. ASSUME NEW t \in Targets(changes)
      PROVE  RowStatement(changes, t) \in all
             /\ <<RowStatement(changes, t).table, RowStatement(changes, t).key>> = t
  BY TargetsAre DEF RowStatement
<1>2. ASSUME NEW x \in all PROVE <<x.table, x.key>> \in Targets(changes)
  <2>1. PICK t \in Targets(changes) : x = RowStatement(changes, t)
    OBVIOUS
  <2> QED BY <1>1, <2>1
<1>3. \A t \in Targets(changes) : \E x \in all : <<x.table, x.key>> = t
  BY <1>1
<1> HIDE DEF all
<1>4. TargetsOf(all) = Targets(changes)
  BY <1>2, <1>3 DEF TargetsOf
<1> QED BY <1>4 DEF all

\* The statements are executed once each.
LEMMA StatementsAre ==
    ASSUME NEW content \in Contents, NEW c \in Calls, c.op \in SQLWrites
    PROVE  /\ Len(Statements(c, content)) \in Nat
           /\ Firsts(Statements(c, content), Len(Statements(c, content))) = StatementsIn(c, content)
<1>1. CASE c.op = "set"
  <2>1. PICK targets : targets = SetToSeq(Targets(c.changes))
    OBVIOUS
  <2>2. IsFiniteSet(Targets(c.changes))
    <3>1. Targets(c.changes) \in SUBSET (Store \X Key)
      BY DEF Targets
    <3> QED BY <3>1, FiniteAssumption, FS_Product, FS_Subset
  <2>3. /\ Len(targets) \in Nat /\ DOMAIN targets = 1 .. Len(targets)
        /\ Firsts(targets, Len(targets)) = Targets(c.changes)
    BY <2>1, <2>2, SequenceOfSet
  <2>4. PICK all : all = [i \in 1 .. Len(targets) |-> RowStatement(c.changes, targets[i])]
    OBVIOUS
  <2>5. Statements(c, content) = all
    BY <1>1, <2>1, <2>3, <2>4 DEF Statements, RowStatement
  <2>6. Len(all) = Len(targets)
    BY <2>3, <2>4
  <2>7. \A i \in 1 .. Len(targets) : all[i] = RowStatement(c.changes, targets[i])
    BY <2>4
  <2>8. Firsts(all, Len(targets)) = {RowStatement(c.changes, t) : t \in Targets(c.changes)}
    <3>1. \A i \in 1 .. Len(targets) : targets[i] \in Targets(c.changes)
      BY <2>3 DEF Firsts
    <3>2. \A t \in Targets(c.changes) : \E i \in 1 .. Len(targets) : targets[i] = t
      BY <2>3 DEF Firsts
    <3> QED BY <2>7, <3>1, <3>2 DEF Firsts
  <2> QED BY <1>1, <2>3, <2>5, <2>6, <2>8 DEF StatementsIn
<1>2. CASE c.op # "set"
  <2>1. PICK names \in SUBSET Store : names = TablesIn(c, content)
    <3>1. TablesIn(c, content) \in SUBSET Store
      BY <1>2, CallsAre, ContentsAre DEF TablesIn, SQLWrites
    <3> QED BY <3>1
  <2>2. PICK sql : sql = Sql(c)
    OBVIOUS
  <2>3. Statements(c, content) = SetToSeq(TableStatements(sql, names))
    BY <1>2, <2>1, <2>2 DEF Statements, TableStatements, TablesIn, Sql, SQLWrites, WriteOps
  <2>4. IsFiniteSet(TableStatements(sql, names))
    <3> DEFINE S == TableStatements(sql, names)
               f == [s \in names |-> [sql |-> sql, table |-> s]]
    <3>1. f \in [names -> S] /\ \A x \in S : \E s \in names : f[s] = x
      BY DEF TableStatements
    <3>2. f \in Surjection(names, S)
      <4> HIDE DEF f, S
      <4> QED BY <3>1 DEF Surjection
    <3>3. IsFiniteSet(names)
      BY FiniteAssumption, FS_Subset
    <3> QED BY <3>2, <3>3, FS_Surjection
  <2> QED BY <1>2, <2>1, <2>2, <2>3, <2>4, SequenceOfSet DEF StatementsIn
<1> QED BY <1>1, <1>2

\* In two steps, or in one.
LEMMA CreatedInSteps ==
    ASSUME NEW content, NEW names, NEW more, NEW all, all = names \cup more
    PROVE  Created(Created(content, names), more) = Created(content, all)
<1>1. (DOMAIN content \cup names) \cup more = DOMAIN content \cup all
  OBVIOUS
<1>2. \A t \in DOMAIN content \cup all : RowsOf(Created(content, names), t) = RowsOf(content, t)
  BY DEF RowsOf, Created
<1> QED BY <1>1, <1>2 DEF Created

LEMMA DeletedInSteps ==
    ASSUME NEW content, NEW names, NEW more, NEW all, all = names \cup more
    PROVE  Deleted(Deleted(content, names), more) = Deleted(content, all)
<1>1. (DOMAIN content \ names) \ more = DOMAIN content \ all
  OBVIOUS
<1> QED BY <1>1 DEF Deleted

LEMMA EmptiedInSteps ==
    ASSUME NEW content, NEW names, NEW more, NEW all, all = names \cup more
    PROVE  Emptied(Emptied(content, names), more) = Emptied(content, all)
  BY DEF Emptied

\* A statement executed after others, each of them one of the call's.
LEMMA AfterStatement ==
    ASSUME NEW content \in Contents, NEW c \in Calls, c.op \in SQLWrites,
           c.op = "set" => ~HasUncloneable(c.changes),
           NEW S \in SUBSET StatementsIn(c, content), NEW x \in StatementsIn(c, content)
    PROVE  After(x, Executed(content, c, S)) = Executed(content, c, S \cup {x})
<1>1. TablesOf(S \cup {x}) = TablesOf(S) \cup {x.table}
  BY DEF TablesOf
<1>2. CASE c.op = "set"
  <2>1. c.changes \in Changes
    BY <1>2, CallsAre
  <2>2. PICK t \in Targets(c.changes) : x = RowStatement(c.changes, t)
    BY <1>2 DEF StatementsIn
  <2>3. t = <<t[1], t[2]>>
    BY <2>1, TargetsAre
  <2>4. TargetsOf(S \cup {x}) = TargetsOf(S) \cup {t}
    BY <2>2, <2>3 DEF TargetsOf, RowStatement
  <2>5. TargetsOf(S) \in SUBSET Targets(c.changes)
    <3> SUFFICES ASSUME NEW y \in S PROVE <<y.table, y.key>> \in Targets(c.changes)
      BY DEF TargetsOf
    <3>1. PICK u \in Targets(c.changes) : y = RowStatement(c.changes, u)
      BY <1>2 DEF StatementsIn
    <3> QED BY <2>1, <3>1, TargetsAre DEF RowStatement
  <2>6. PICK changes \in Changes, T \in SUBSET Targets(c.changes) :
            changes = c.changes /\ T = TargetsOf(S)
    BY <2>1, <2>5
  <2>7. WithEntry(ContentThen(content, changes, T), t, EntryFor(changes, t))
            = ContentThen(content, changes, T \cup {t})
    BY <1>2, <2>6, ContentThenOne
  <2>8. \A tables : After(x, tables) = WithEntry(tables, t, EntryFor(changes, t))
    BY <2>2, <2>6 DEF After, RowStatement, WithEntry
  <2> QED BY <1>2, <2>4, <2>6, <2>7, <2>8 DEF Executed
<1>3. CASE c.op # "set"
  <2>1. PICK s \in TablesIn(c, content) : x = [sql |-> Sql(c), table |-> s]
    BY <1>3 DEF StatementsIn, TableStatements
  <2>2. x.table = s /\ x.sql = Sql(c)
    BY <2>1
  <2>3. PICK names, more, all : names = TablesOf(S) /\ more = {s} /\ all = names \cup more
    OBVIOUS
  <2>4. TablesOf(S \cup {x}) = all
    BY <1>1, <2>2, <2>3
  <2>5. CASE c.op = "createObjectStoresIfNeeded"
    <3>1. x.sql = "create"
      BY <2>2, <2>5 DEF Sql
    <3>2. After(x, Executed(content, c, S)) = Created(Executed(content, c, S), more)
      BY <2>2, <2>3, <3>1 DEF After
    <3>3. /\ Executed(content, c, S) = Created(content, names)
          /\ Executed(content, c, S \cup {x}) = Created(content, all)
      BY <2>3, <2>4, <2>5 DEF Executed
    <3> QED BY <2>3, <3>2, <3>3, CreatedInSteps
  <2>6. CASE c.op \in {"deleteObjectStores", "destroy"}
    <3>1. x.sql = "drop"
      BY <2>2, <2>6 DEF Sql
    <3>2. After(x, Executed(content, c, S)) = Deleted(Executed(content, c, S), more)
      BY <2>2, <2>3, <3>1 DEF After
    <3>3. /\ Executed(content, c, S) = Deleted(content, names)
          /\ Executed(content, c, S \cup {x}) = Deleted(content, all)
      BY <2>3, <2>4, <2>6 DEF Executed
    <3> QED BY <2>3, <3>2, <3>3, DeletedInSteps
  <2>7. CASE c.op = "clearObjectStores"
    <3>1. x.sql = "empty"
      BY <2>2, <2>7 DEF Sql
    <3>2. After(x, Executed(content, c, S)) = Emptied(Executed(content, c, S), more)
      BY <2>2, <2>3, <3>1 DEF After
    <3>3. /\ Executed(content, c, S) = Emptied(content, names)
          /\ Executed(content, c, S \cup {x}) = Emptied(content, all)
      BY <2>3, <2>4, <2>7 DEF Executed
    <3> QED BY <2>3, <3>2, <3>3, EmptiedInSteps
  <2> QED BY <1>3, <2>5, <2>6, <2>7 DEF SQLWrites, WriteOps
<1> QED BY <1>2, <1>3

LEMMA ExecutedNone ==
    ASSUME NEW content \in Contents, NEW c \in Calls, c.op \in SQLWrites
    PROVE  Executed(content, c, {}) = content
<1>1. TablesOf({}) = {} /\ TargetsOf({}) = {}
  BY DEF TablesOf, TargetsOf
<1>2. Created(content, {}) = content /\ Deleted(content, {}) = content /\ Emptied(content, {}) = content
  <2>1. content = [s \in DOMAIN content |-> content[s]]
    BY ContentsAre
  <2> QED BY <2>1 DEF Created, Deleted, Emptied, RowsOf
<1>3. ContentThen(content, c.changes, {}) = content
  BY ContentThenNone
<1> QED BY <1>1, <1>2, <1>3 DEF Executed, SQLWrites, WriteOps

LEMMA ExecutedAll ==
    ASSUME NEW content \in Contents, NEW c \in Calls, c.op \in SQLWrites,
           c.op = "set" => ~HasUncloneable(c.changes)
    PROVE  Executed(content, c, StatementsIn(c, content)) =
               IF c.op = "destroy" THEN NoStores ELSE Effect(content, c)
<1>1. CASE c.op = "set"
  <2>1. PICK changes \in Changes : changes = c.changes
    BY <1>1, CallsAre
  <2>2. TargetsOf(StatementsIn(c, content)) = Targets(changes)
    BY <1>1, <2>1, TargetsOfStatements DEF StatementsIn
  <2>3. ContentThen(content, changes, Targets(changes)) = Written(content, changes)
    BY <1>1, <2>1, ContentThenAll
  <2> QED BY <1>1, <2>1, <2>2, <2>3 DEF Executed, Effect
<1>2. CASE c.op # "set"
  <2>1. TablesOf(StatementsIn(c, content)) = TablesIn(c, content)
    BY <1>2, TablesOfStatements DEF StatementsIn
  <2>2. Deleted(content, DOMAIN content) = NoStores
    BY DEF Deleted, NoStores
  <2> QED BY <1>2, <2>1, <2>2 DEF Executed, Effect, TablesIn, SQLWrites, WriteOps
<1> QED BY <1>1, <1>2

\* What SELECT finds under a key.
Chosen(found) == IF found = {} THEN Null ELSE CHOOSE v \in found : TRUE

IsSelected(rows, keys, k) == \E row \in Selected(rows, keys) : row[1] = k

LEMMA FoundRows ==
    ASSUME NEW rows \in Rows, NEW keys, NEW i \in DOMAIN keys
    PROVE  /\ Chosen(Found(Selected(rows, keys), keys[i])) = EntryAt(rows, keys[i])
           /\ IsSelected(rows, keys, keys[i]) = (keys[i] \in DOMAIN rows)
<1> DEFINE All == {keys[j] : j \in DOMAIN keys}
<1>1. keys[i] \in All
  OBVIOUS
<1>2. Selected(rows, keys) = {<<k, rows[k]>> : k \in DOMAIN rows \cap All}
  BY DEF Selected
<1> HIDE DEF All
<1>3. \A row \in Selected(rows, keys) : row[1] \in DOMAIN rows /\ row = <<row[1], rows[row[1]]>>
  BY <1>2
<1>4. keys[i] \in DOMAIN rows => <<keys[i], rows[keys[i]]>> \in Selected(rows, keys)
  BY <1>1, <1>2
<1>5. ASSUME keys[i] \in DOMAIN rows PROVE Found(Selected(rows, keys), keys[i]) = {rows[keys[i]]}
  <2>1. PICK row \in Selected(rows, keys) : row = <<keys[i], rows[keys[i]]>>
    BY <1>4, <1>5
  <2>2. row[1] = keys[i] /\ row[2] = rows[keys[i]]
    BY <2>1
  <2> QED BY <1>3, <2>1, <2>2 DEF Found
<1>6. ASSUME keys[i] \notin DOMAIN rows PROVE Found(Selected(rows, keys), keys[i]) = {}
  BY <1>3, <1>6 DEF Found
<1>7. Chosen(Found(Selected(rows, keys), keys[i])) = EntryAt(rows, keys[i])
  <2>1. CASE keys[i] \in DOMAIN rows
    <3>1. PICK v : v = rows[keys[i]]
      OBVIOUS
    <3>2. Found(Selected(rows, keys), keys[i]) = {v}
      BY <1>5, <2>1, <3>1
    <3>3. Chosen({v}) = v
      BY DEF Chosen
    <3> QED BY <2>1, <3>1, <3>2, <3>3 DEF EntryAt
  <2>2. CASE keys[i] \notin DOMAIN rows
    <3>1. Chosen({}) = Null
      BY DEF Chosen
    <3> QED BY <1>6, <2>2, <3>1 DEF EntryAt
  <2> QED BY <2>1, <2>2
<1>8. CASE keys[i] \in DOMAIN rows
  <2>1. IsSelected(rows, keys, keys[i]) = TRUE
    BY <1>3, <1>4, <1>8 DEF IsSelected
  <2> QED BY <1>7, <1>8, <2>1
<1>9. CASE keys[i] \notin DOMAIN rows
  <2>1. ~\E row \in Selected(rows, keys) : row[1] = keys[i]
    BY <1>3, <1>9
  <2>2. IsSelected(rows, keys, keys[i]) = FALSE
    BY <2>1 DEF IsSelected
  <2>3. (keys[i] \in DOMAIN rows) = FALSE
    BY <1>9
  <2> QED BY <1>7, <2>2, <2>3
<1> QED BY <1>8, <1>9

LEMMA AnsweredFromTables ==
    ASSUME NEW tables \in Contents, NEW c \in Calls, c.op \in ReadOps, Answerable(c, tables)
    PROVE  Answer(c, tables) = Result(tables, c)
<1>1. CASE c.op = "getObjectStoreNames"
  BY <1>1 DEF Answer, Result
<1>2. CASE c.op # "getObjectStoreNames"
  <2>1. c.store \in DOMAIN tables
    BY <1>2 DEF Answerable
  <2>2. PICK rows \in Rows : rows = tables[c.store]
    BY <2>1, ContentsAre
  <2>3. RowsOf(tables, c.store) = rows
    BY <2>1, <2>2 DEF RowsOf
  <2>4. CASE c.op = "get"
    <3>1. \A i \in DOMAIN c.keys : Chosen(Found(Selected(rows, c.keys), c.keys[i])) = EntryAt(rows, c.keys[i])
      BY FoundRows
    <3>2. Answer(c, tables) = [i \in DOMAIN c.keys |-> Chosen(Found(Selected(rows, c.keys), c.keys[i]))]
      BY <2>2, <2>4 DEF Answer, Chosen
    <3>3. Result(tables, c) = [i \in DOMAIN c.keys |-> EntryAt(rows, c.keys[i])]
      BY <2>3, <2>4 DEF Result
    <3> QED BY <3>1, <3>2, <3>3
  <2>5. CASE c.op = "has"
    <3>1. \A i \in DOMAIN c.keys : IsSelected(rows, c.keys, c.keys[i]) = (c.keys[i] \in DOMAIN rows)
      BY FoundRows
    <3>2. Answer(c, tables) = [i \in DOMAIN c.keys |-> IsSelected(rows, c.keys, c.keys[i])]
      BY <2>2, <2>5 DEF Answer, IsSelected
    <3>3. Result(tables, c) = [i \in DOMAIN c.keys |-> c.keys[i] \in DOMAIN rows]
      BY <2>3, <2>5 DEF Result
    <3> QED BY <3>1, <3>2, <3>3
  <2>6. CASE c.op \in {"getAll", "createIterator", "getAllKeys", "count"}
    BY <2>2, <2>3, <2>6 DEF Answer, Result, Ordered
  <2> QED BY <1>2, <2>4, <2>5, <2>6 DEF ReadOps
<1> QED BY <1>1, <1>2

-----------------------------------------------------------------------------
(***************************************************************************)
(* SQLite.  Unless statements fail, a transaction is open only while a     *)
(* call runs its statements; the connection then sees the tables after the *)
(* statements that have been run.                                          *)
(***************************************************************************)
StatementsSucceed == "statement fails" \notin Faults

Running ==
    /\ isOpen /\ call.op \in SQLWrites
    /\ call.op = "set" => ~HasUncloneable(call.changes)
    /\ \E n \in 1 .. Len(Statements(call, disk)) + 1 :
          /\ run = [at |-> "statement", n |-> n, all |-> Statements(call, disk)]
          /\ conn = Executed(disk, call, Firsts(Statements(call, disk), n - 1))

InvSQLite ==
    /\ disk \in Contents
    /\ call.op = "set" => DOMAIN call.changes \subseteq DOMAIN disk
    /\ \/ run = Idle /\ conn = Null
       \/ Running
       \/ run = [at |-> "close"] /\ conn = Null /\ isOpen /\ call.op = "destroy"

LEMMA SQLiteOperators ==
    /\ SQLite!Idle = Idle /\ SQLite!NoCall = NoCall /\ SQLite!Done = Done /\ SQLite!Error = Error
    /\ SQLite!ReadOps = ReadOps /\ SQLite!Writes = SQLWrites /\ SQLite!NoStores = NoStores
    /\ \A c, result : SQLite!Answered(c, result) = Answered(c, result)
    /\ \A changes : SQLite!HasUncloneable(changes) = HasUncloneable(changes)
    /\ \A c, tables : SQLite!Statements(c, tables) = Statements(c, tables)
    /\ \A x, tables : SQLite!After(x, tables) = After(x, tables)
    /\ \A c, tables : SQLite!Answerable(c, tables) <=> Answerable(c, tables)
    /\ \A c, tables : SQLite!Answer(c, tables) = Answer(c, tables)
    /\ \A c : SQLite!AsksNothing(c) <=> AsksNothing(c)
<1>1. /\ SQLite!Idle = Idle /\ SQLite!NoCall = NoCall /\ SQLite!Done = Done /\ SQLite!Error = Error
      /\ SQLite!ReadOps = ReadOps /\ SQLite!Writes = SQLWrites /\ SQLite!NoStores = NoStores
  BY DEF SQLite!Idle, Idle, SQLite!NoCall, NoCall, SQLite!Done, Done, SQLite!Error, Error,
         SQLite!ReadOps, ReadOps, SQLite!Writes, SQLWrites, SQLite!WriteOps, WriteOps,
         SQLite!NoStores, NoStores, SQLite!NoRows, NoRows
<1>2. \A c, result : SQLite!Answered(c, result) = Answered(c, result)
  BY DEF SQLite!Answered, Answered
<1>3. /\ \A changes : SQLite!Targets(changes) = Targets(changes)
      /\ \A changes, t : SQLite!EntryFor(changes, t) = EntryFor(changes, t)
      /\ \A changes : SQLite!HasUncloneable(changes) = HasUncloneable(changes)
  BY DEF SQLite!HasUncloneable, HasUncloneable, SQLite!EntryFor, EntryFor, SQLite!Targets, Targets
<1>4. \A S : SQLite!SetToSeq(S) = SetToSeq(S)
  BY DEF SQLite!SetToSeq, SetToSeq, SQLite!Cardinality, Cardinality, SQLite!IsInjective, IsInjective
<1>5. \A S : SQLite!InOrder(S) = InOrder(S)
  BY DEF SQLite!InOrder, InOrder, SQLite!SetToSortSeq, SetToSortSeq, SQLite!SetToSeq, SetToSeq,
         SQLite!SortSeq, SortSeq, SQLite!Cardinality, Cardinality, SQLite!IsInjective, IsInjective
<1>6. \A c, tables : SQLite!Statements(c, tables) = Statements(c, tables)
  BY <1>3, <1>4 DEF SQLite!Statements, Statements
<1>7. \A x, tables : SQLite!After(x, tables) = After(x, tables)
  BY DEF SQLite!After, After, SQLite!Created, Created, SQLite!Deleted, Deleted, SQLite!Emptied, Emptied,
         SQLite!Merged, Merged, SQLite!RowsOf, RowsOf, SQLite!NoRows, NoRows
<1>8. \A c, tables : SQLite!Answerable(c, tables) <=> Answerable(c, tables)
  BY DEF SQLite!Answerable, Answerable
<1>9. \A c, tables : SQLite!Answer(c, tables) = Answer(c, tables)
  BY DEF SQLite!Answer, Answer, SQLite!Selected, Selected, SQLite!Found, Found, SQLite!Ordered, Ordered,
         SQLite!InOrder, InOrder, SQLite!SetToSortSeq, SetToSortSeq, SQLite!SetToSeq, SetToSeq,
         SQLite!SortSeq, SortSeq, SQLite!Cardinality, Cardinality, SQLite!IsInjective, IsInjective
<1>10. \A c : SQLite!AsksNothing(c) <=> AsksNothing(c)
  BY DEF SQLite!AsksNothing, AsksNothing
<1> QED BY <1>1, <1>2, <1>3, <1>6, <1>7, <1>8, <1>9, <1>10

LEMMA SQLiteStep ==
    ASSUME InvCall, InvSQLite, medium = "SQLite", UNCHANGED medium, SQLite!Step,
           StatementsSucceed
    PROVE  InvCall' /\ InvSQLite' /\ KeepsTheContract
<1>1. /\ Content = disk /\ Content' = disk' /\ CanBeCalled = isOpen /\ CanBeCalled' = isOpen'
      /\ isOpen' \in BOOLEAN
  <2>1. isOpen \in BOOLEAN /\ isOpen' \in BOOLEAN
    BY DEF InvCall, SQLite!Step, SQLite!Open, SQLite!BeginTransaction, SQLite!RunStatement,
           SQLite!CommitTransaction, SQLite!StatementFails, SQLite!Read, SQLite!Close,
           SQLite!RejectClosed, SQLite!Rejected
  <2> QED BY <2>1 DEF Content, SQLite!Content, CanBeCalled
<1>2. disk \in Contents
  BY DEF InvSQLite
\* A call that is answered.
<1>3. ASSUME call # NoCall, disk' \in Contents, conn' = Null, SQLite!Returns(reply')
      PROVE  InvCall' /\ InvSQLite' /\ call' = NoCall /\ Replies(reply')
  BY <1>1, <1>3, SQLiteOperators, NoCallIsMade DEF InvCall, InvSQLite, SQLite!Returns, Replies
<1>4. ASSUME call # NoCall, disk' = disk, conn' = Null, SQLite!Returns(reply'), reply' = Error,
             isOpen' \in {isOpen, FALSE, call.op = "open"}
      PROVE  InvCall' /\ InvSQLite' /\ KeepsTheContract
  <2>1. InvCall' /\ InvSQLite' /\ Replies(reply')
    BY <1>2, <1>3, <1>4
  <2> QED BY <1>1, <1>4, <2>1, ContractReject
<1>5. ASSUME SQLite!Open PROVE InvCall' /\ InvSQLite' /\ KeepsTheContract
  <2>1. /\ call.op = "open" /\ run = Idle /\ disk' = disk /\ conn' = conn /\ SQLite!Returns(reply')
        /\ \/ isOpen' = TRUE /\ reply' = Done
           \/ ~isOpen /\ reply' = Error
    BY <1>5, SQLiteOperators DEF SQLite!Open, SQLite!Called, SQLite!Returns
  <2>2. call # NoCall /\ conn = Null
    BY <2>1, CallIsMade DEF InvSQLite, Running, Idle
  <2>3. CASE isOpen' = TRUE /\ reply' = Done
    <3>1. InvCall' /\ InvSQLite' /\ Replies(Done)
      BY <1>2, <1>3, <2>1, <2>2, <2>3
    <3> QED BY <1>1, <2>1, <2>3, <3>1, ContractOpen
  <2>4. CASE ~isOpen /\ reply' = Error
    BY <1>1, <1>4, <2>1, <2>2, <2>4 DEF InvCall
  <2> QED BY <2>1, <2>3, <2>4
<1>6. ASSUME SQLite!BeginTransaction PROVE InvCall' /\ InvSQLite' /\ KeepsTheContract
  <2>1. /\ call.op \in SQLWrites /\ run = Idle /\ isOpen /\ isOpen' = isOpen /\ disk' = disk
        /\ \/ /\ conn = Null
              /\ call.op = "set" => ~HasUncloneable(call.changes)
              /\ conn' = disk
              /\ run' = [at |-> "statement", n |-> 1, all |-> Statements(call, disk)]
              /\ call' = call /\ reply' = reply
           \/ conn' = conn /\ SQLite!Returns(reply') /\ reply' = Error
    BY <1>6, SQLiteOperators DEF SQLite!BeginTransaction, SQLite!Returns, SQLite!Goes
  <2>2. call \in Calls /\ call # NoCall /\ conn = Null
    BY <2>1, CallIsMade DEF InvSQLite, Running, Idle, SQLWrites, WriteOps
  <2>3. CASE conn' = conn /\ SQLite!Returns(reply') /\ reply' = Error
    BY <1>4, <2>1, <2>2, <2>3
  <2>4. CASE /\ call.op = "set" => ~HasUncloneable(call.changes)
             /\ conn' = disk
             /\ run' = [at |-> "statement", n |-> 1, all |-> Statements(call, disk)]
             /\ call' = call /\ reply' = reply
    <3>1. PICK all : all = Statements(call, disk)
      OBVIOUS
    <3>2. PICK N \in Nat : N = Len(all)
      BY <1>2, <2>1, <2>2, <3>1, StatementsAre
    <3>3. conn' = Executed(disk, call, Firsts(all, 1 - 1))
      <4>1. Firsts(all, 1 - 1) = {}
        BY NoFirsts
      <4> QED BY <1>2, <2>1, <2>2, <2>4, <4>1, ExecutedNone
    <3>4. 1 \in 1 .. Len(all) + 1
      <4>1. 1 \in 1 .. N + 1
        OBVIOUS
      <4> QED BY <3>2, <4>1
    <3>5. Running'
      BY <2>1, <2>4, <3>1, <3>3, <3>4 DEF Running
    <3>6. InvCall' /\ InvSQLite'
      BY <1>1, <2>1, <2>2, <2>4, <3>5 DEF InvCall, InvSQLite
    <3> QED BY <1>1, <2>1, <2>4, <3>6, ContractNothing
  <2> QED BY <2>1, <2>3, <2>4
<1>7. ASSUME run.at = "statement"
      PROVE  /\ Running
             /\ call \in Calls /\ call # NoCall
             /\ Len(Statements(call, disk)) \in Nat
             /\ Firsts(Statements(call, disk), Len(Statements(call, disk))) = StatementsIn(call, disk)
  <2>1. Running
    <3>1. run # Idle /\ run # [at |-> "close"]
      BY <1>7 DEF Idle
    <3> QED BY <3>1 DEF InvSQLite
  <2>2. call \in Calls /\ call # NoCall
    BY <2>1, CallIsMade DEF Running, SQLWrites, WriteOps
  <2> QED BY <1>2, <2>1, <2>2, StatementsAre DEF Running
<1>8. ASSUME SQLite!RunStatement PROVE InvCall' /\ InvSQLite' /\ KeepsTheContract
  <2>1. run.at = "statement"
    BY <1>8 DEF SQLite!RunStatement
  <2>2. PICK N \in Nat, all \in {Statements(call, disk)} :
            all = Statements(call, disk) /\ N = Len(all) /\ Firsts(all, N) = StatementsIn(call, disk)
    BY <1>7, <2>1
  <2>3. PICK n \in 1 .. N + 1 :
            /\ run = [at |-> "statement", n |-> n, all |-> all]
            /\ conn = Executed(disk, call, Firsts(all, n - 1))
    BY <1>7, <2>1, <2>2 DEF Running
  <2>4. /\ n <= N /\ conn' = After(all[n], conn)
        /\ run' = [at |-> "statement", n |-> n + 1, all |-> all]
        /\ UNCHANGED <<isOpen, disk, call, reply>>
    <3>1. run.n = n /\ run.all = all /\ [run EXCEPT !.n = @ + 1] = [at |-> "statement", n |-> n + 1, all |-> all]
      BY <2>3
    <3> QED BY <1>8, <2>2, <3>1, SQLiteOperators DEF SQLite!RunStatement, SQLite!Goes
  <2>5. PICK m \in Nat : n = m + 1 /\ m = n - 1 /\ \A i \in 1 .. m : i \in 1 .. N
    <3>1. n - 1 \in Nat /\ n = (n - 1) + 1 /\ \A i \in 1 .. (n - 1) : i \in 1 .. N
      BY <2>4
    <3> QED BY <3>1
  <2>6. PICK x \in StatementsIn(call, disk) : x = all[n]
    <3>1. n \in 1 .. N
      BY <2>4
    <3> QED BY <2>2, <3>1 DEF Firsts
  <2>7. PICK S \in SUBSET StatementsIn(call, disk) : S = Firsts(all, m)
    BY <2>2, <2>5 DEF Firsts
  <2>8. Firsts(all, n) = S \cup {x}
    BY <2>5, <2>6, <2>7, NextFirsts
  <2>9. conn' = Executed(disk, call, Firsts(all, n))
    <3>1. PICK content \in Contents, c \in Calls : content = disk /\ c = call
      BY <1>2, <1>7, <2>1
    <3>2. c.op \in SQLWrites /\ (c.op = "set" => ~HasUncloneable(c.changes))
      BY <1>7, <2>1, <3>1 DEF Running
    <3>3. S \in SUBSET StatementsIn(c, content) /\ x \in StatementsIn(c, content)
      BY <3>1
    <3>4. After(x, Executed(content, c, S)) = Executed(content, c, S \cup {x})
      BY <3>2, <3>3, AfterStatement
    <3> QED BY <2>3, <2>4, <2>5, <2>6, <2>7, <2>8, <3>1, <3>4
  <2>10. Running'
    <3>1. n + 1 \in 1 .. N + 1 /\ n = (n + 1) - 1
      BY <2>4
    <3>2. PICK next \in 1 .. N + 1 : next = n + 1
      BY <3>1
    <3>3. conn' = Executed(disk, call, Firsts(all, next - 1))
      BY <2>9, <3>1, <3>2
    <3> QED BY <1>7, <2>1, <2>2, <2>4, <3>1, <3>2, <3>3 DEF Running
  <2>11. InvCall' /\ InvSQLite'
    BY <1>1, <1>7, <2>1, <2>4, <2>10 DEF InvCall, InvSQLite
  <2> QED BY <1>1, <2>4, <2>11, ContractNothing
<1>9. ASSUME SQLite!CommitTransaction PROVE InvCall' /\ InvSQLite' /\ KeepsTheContract
  <2>1. run.at = "statement"
    BY <1>9 DEF SQLite!CommitTransaction
  <2>2. PICK N \in Nat, all \in {Statements(call, disk)} :
            all = Statements(call, disk) /\ N = Len(all) /\ Firsts(all, N) = StatementsIn(call, disk)
    BY <1>7, <2>1
  <2>3. PICK n \in 1 .. N + 1 :
            /\ run = [at |-> "statement", n |-> n, all |-> all]
            /\ conn = Executed(disk, call, Firsts(all, n - 1))
    BY <1>7, <2>1, <2>2 DEF Running
  <2>4. /\ n > N /\ disk' = conn /\ conn' = Null /\ isOpen' = isOpen
        /\ IF call.op = "destroy" THEN run' = [at |-> "close"] /\ UNCHANGED <<call, reply>>
           ELSE SQLite!Returns(reply') /\ reply' = Done
    <3>1. run.n = n /\ run.all = all
      BY <2>3
    <3> QED BY <1>9, <2>2, <3>1, SQLiteOperators DEF SQLite!CommitTransaction, SQLite!Goes, SQLite!Returns
  <2>5. n - 1 = N
    BY <2>4
  <2>6. disk' = IF call.op = "destroy" THEN NoStores ELSE Effect(disk, call)
    BY <1>2, <1>7, <2>1, <2>2, <2>3, <2>4, <2>5, ExecutedAll DEF Running
  <2>7. CASE call.op = "destroy"
    <3>1. disk' \in Contents /\ DOMAIN disk' = {}
      BY <2>6, <2>7, NoStoresAreContents
    <3>2. InvCall' /\ InvSQLite'
      BY <1>1, <1>7, <2>1, <2>4, <2>7, <3>1 DEF InvCall, InvSQLite, Running
    <3>3. KeepsTheContract
      BY <1>1, <1>2, <2>4, <2>7, <3>1, ContractRemovePart
    <3> QED BY <3>2, <3>3
  <2>8. CASE call.op # "destroy"
    <3>1. call.op \in WriteOps /\ isOpen
      BY <1>7, <2>1, <2>8 DEF Running, SQLWrites
    <3>2. disk' = Effect(disk, call) /\ disk' \in Contents
      BY <1>2, <1>7, <2>1, <2>6, <2>8, <3>1, EffectsAreContents DEF Running
    <3>3. InvCall' /\ InvSQLite' /\ Replies(Done)
      BY <1>3, <1>7, <2>1, <2>4, <2>8, <3>2
    <3>4. call.op = "set" => /\ \A t \in Targets(call.changes) : t[1] \in DOMAIN disk
                             /\ ~HasUncloneable(call.changes)
      BY <1>7, <2>1, CallsAre, TargetsAre DEF InvSQLite, Running
    <3> QED BY <1>1, <2>4, <3>1, <3>2, <3>3, <3>4, ContractWrite
  <2> QED BY <2>7, <2>8
<1>10. ASSUME SQLite!StatementFails PROVE FALSE
  BY <1>10 DEF SQLite!StatementFails, StatementsSucceed
<1>11. ASSUME SQLite!Read PROVE InvCall' /\ InvSQLite' /\ KeepsTheContract
  <2>1. /\ call.op \in ReadOps /\ run = Idle /\ isOpen' = isOpen /\ disk' = disk /\ conn' = conn
        /\ SQLite!Returns(reply')
    BY <1>11, SQLiteOperators DEF SQLite!Read, SQLite!Returns
  <2>2. call \in Calls /\ call # NoCall /\ conn = Null
    BY <2>1, CallIsMade DEF InvSQLite, Running, Idle, ReadOps
  <2>3. SQLite!Visible = disk
    BY <2>2 DEF SQLite!Visible
  <2>4. \/ AsksNothing(call) /\ reply' = Answered(call, <<>>)
        \/ isOpen /\ Answerable(call, disk) /\ reply' = Answered(call, Answer(call, disk))
        \/ reply' = Error
    BY <1>11, <2>3, SQLiteOperators DEF SQLite!Read, SQLite!Returns
  <2>5. CASE reply' = Error
    BY <1>4, <2>1, <2>2, <2>5
  <2>6. CASE isOpen /\ Answerable(call, disk) /\ reply' = Answered(call, Answer(call, disk))
    <3>1. InvCall' /\ InvSQLite' /\ Replies(reply')
      BY <1>2, <1>3, <2>1, <2>2
    <3>2. reply' = Answered(call, Result(disk, call))
      BY <1>2, <2>1, <2>2, <2>6, AnsweredFromTables
    <3> QED BY <1>1, <2>1, <2>6, <3>1, <3>2, ContractRead
  <2>7. CASE AsksNothing(call) /\ reply' = Answered(call, <<>>)
    <3>1. InvCall' /\ InvSQLite' /\ Replies(reply')
      BY <1>2, <1>3, <2>1, <2>2
    <3> QED BY <1>1, <2>1, <2>7, <3>1, NothingIsAnswered, ContractRead
  <2> QED BY <2>4, <2>5, <2>6, <2>7
<1>12. ASSUME SQLite!Close PROVE InvCall' /\ InvSQLite' /\ KeepsTheContract
  <2>1. /\ call.op = "close" \/ run.at = "close"
        /\ isOpen' = FALSE /\ conn' = Null /\ SQLite!Returns(reply')
        /\ \/ disk' = (IF call.op = "destroy" THEN NoStores ELSE disk) /\ reply' = Done
           \/ disk' = disk /\ reply' = Error
    BY <1>12, SQLiteOperators DEF SQLite!Close, SQLite!Called, SQLite!Returns
  <2>2. call.op \in {"close", "destroy"}
    <3>1. run.at = "close" => run # Idle
      BY DEF Idle
    <3>2. run.at = "close" => ~Running
      BY DEF Running
    <3> QED BY <2>1, <3>1, <3>2 DEF InvSQLite
  <2>3. call # NoCall
    BY <2>2, NoCallIsMade
  <2>4. CASE disk' = disk /\ reply' = Error
    BY <1>4, <2>1, <2>3, <2>4
  <2>5. CASE disk' = (IF call.op = "destroy" THEN NoStores ELSE disk) /\ reply' = Done
    <3>1. disk' \in Contents
      BY <1>2, <2>5, NoStoresAreContents
    <3>2. InvCall' /\ InvSQLite' /\ Replies(Done)
      BY <1>3, <2>1, <2>3, <2>5, <3>1
    <3> QED BY <1>1, <2>1, <2>2, <2>5, <3>2, ContractClose, ContractDestroy
  <2> QED BY <2>1, <2>4, <2>5
<1>13. ASSUME SQLite!RejectClosed PROVE InvCall' /\ InvSQLite' /\ KeepsTheContract
  <2>1. /\ call.op # "none" /\ run = Idle /\ SQLite!Returns(reply') /\ reply' = Error
        /\ UNCHANGED <<isOpen, disk, conn>>
    BY <1>13, SQLiteOperators DEF SQLite!RejectClosed, SQLite!Rejected, SQLite!Returns
  <2>2. call # NoCall /\ conn = Null
    BY <2>1, CallIsMade DEF InvSQLite, Running, Idle
  <2> QED BY <1>4, <2>1, <2>2
<1> QED BY <1>5, <1>6, <1>8, <1>9, <1>10, <1>11, <1>12, <1>13 DEF SQLite!Step

-----------------------------------------------------------------------------
(***************************************************************************)
(* WebSQL.  The tables after each statement of a transaction are defined   *)
(* one from the other; they are those of Executed.                         *)
(***************************************************************************)
InvWebSQL ==
    /\ disk \in Contents
    /\ \/ run = Idle
       \/ run = [at |-> "unsettled"] /\ call.op \in {"getObjectStoreNames", "destroy"}

LEMMA WebSQLOperators ==
    /\ WebSQL!Idle = Idle /\ WebSQL!NoCall = NoCall /\ WebSQL!Done = Done /\ WebSQL!Error = Error
    /\ WebSQL!ReadOps = ReadOps /\ WebSQL!WriteOps = WriteOps
    /\ \A c, result : WebSQL!Answered(c, result) = Answered(c, result)
    /\ \A changes : WebSQL!HasUncloneable(changes) = HasUncloneable(changes)
    /\ \A c, tables : WebSQL!Statements(c, tables) = Statements(c, tables)
    /\ \A x, tables : WebSQL!After(x, tables) = After(x, tables)
    /\ \A x, tables : WebSQL!Executable(x, tables) <=> Executable(x, tables)
    /\ \A c, tables : WebSQL!Answerable(c, tables) <=> Answerable(c, tables)
    /\ \A c, tables : WebSQL!Answer(c, tables) = Answer(c, tables)
    /\ \A c : WebSQL!AsksNothing(c) <=> AsksNothing(c)
<1>1. /\ WebSQL!Idle = Idle /\ WebSQL!NoCall = NoCall /\ WebSQL!Done = Done /\ WebSQL!Error = Error
      /\ WebSQL!ReadOps = ReadOps /\ WebSQL!WriteOps = WriteOps
  BY DEF WebSQL!Idle, Idle, WebSQL!NoCall, NoCall, WebSQL!Done, Done, WebSQL!Error, Error,
         WebSQL!ReadOps, ReadOps, WebSQL!WriteOps, WriteOps
<1>2. \A c, result : WebSQL!Answered(c, result) = Answered(c, result)
  BY DEF WebSQL!Answered, Answered
<1>3. /\ \A changes : WebSQL!Targets(changes) = Targets(changes)
      /\ \A changes, t : WebSQL!EntryFor(changes, t) = EntryFor(changes, t)
      /\ \A changes : WebSQL!HasUncloneable(changes) = HasUncloneable(changes)
  BY DEF WebSQL!HasUncloneable, HasUncloneable, WebSQL!EntryFor, EntryFor, WebSQL!Targets, Targets
<1>4. \A S : WebSQL!SetToSeq(S) = SetToSeq(S)
  BY DEF WebSQL!SetToSeq, SetToSeq, WebSQL!Cardinality, Cardinality, WebSQL!IsInjective, IsInjective
<1>5. \A c, tables : WebSQL!Statements(c, tables) = Statements(c, tables)
  BY <1>3, <1>4 DEF WebSQL!Statements, Statements
<1>6. \A x, tables : WebSQL!After(x, tables) = After(x, tables)
  BY DEF WebSQL!After, After, WebSQL!Created, Created, WebSQL!Deleted, Deleted, WebSQL!Emptied, Emptied,
         WebSQL!Merged, Merged, WebSQL!RowsOf, RowsOf, WebSQL!NoRows, NoRows
<1>7. /\ \A x, tables : WebSQL!Executable(x, tables) <=> Executable(x, tables)
      /\ \A c, tables : WebSQL!Answerable(c, tables) <=> Answerable(c, tables)
  BY DEF WebSQL!Executable, Executable, WebSQL!Answerable, Answerable
<1>8. \A c, tables : WebSQL!Answer(c, tables) = Answer(c, tables)
  BY DEF WebSQL!Answer, Answer, WebSQL!Selected, Selected, WebSQL!Found, Found, WebSQL!Ordered, Ordered,
         WebSQL!InOrder, InOrder, WebSQL!SetToSortSeq, SetToSortSeq, WebSQL!SetToSeq, SetToSeq,
         WebSQL!SortSeq, SortSeq, WebSQL!Cardinality, Cardinality, WebSQL!IsInjective, IsInjective
<1>9. \A c : WebSQL!AsksNothing(c) <=> AsksNothing(c)
  BY DEF WebSQL!AsksNothing, AsksNothing
<1> QED BY <1>1, <1>2, <1>3, <1>5, <1>6, <1>7, <1>8, <1>9

\* What a transaction commits.
LEMMA Transacted ==
    ASSUME NEW content \in Contents, NEW c \in Calls, c.op \in SQLWrites,
           c.op = "set" => ~HasUncloneable(c.changes),
           disk = content, WebSQL!Transact(Statements(c, content))
    PROVE  /\ disk' = IF c.op = "destroy" THEN NoStores ELSE Effect(content, c)
           /\ c.op = "set" => \A t \in Targets(c.changes) : t[1] \in DOMAIN content
<1> DEFINE all == Statements(c, content)
           N == Len(all)
           Then(f, n) == IF n = 0 THEN content ELSE After(all[n], f[n - 1])
           P(f) == f = [n \in 0 .. N |-> Then(f, n)]
           f == CHOOSE f : P(f)
           g == [n \in 0 .. N |-> Executed(content, c, Firsts(all, n))]
<1>1. N \in Nat /\ Firsts(all, N) = StatementsIn(c, content)
  BY StatementsAre
<1>2. /\ \A n \in 1 .. N : Executable(all[n], f[n - 1])
      /\ disk' = f[N]
  BY WebSQLOperators DEF WebSQL!Transact
<1>3. /\ \A h : Then(h, 0) = content
      /\ \A h : \A n \in 1 .. N : Then(h, n) = After(all[n], h[n - 1])
      /\ \A n \in 0 .. N : g[n] = Executed(content, c, Firsts(all, n))
      /\ g = [n \in 0 .. N |-> g[n]]
  BY <1>1
<1> HIDE DEF g, Then, all, N
<1>4. P(g)
  <2>1. Then(g, 0) = g[0]
    <3>1. 0 \in 0 .. N /\ Firsts(all, 0) = {}
      BY <1>1, NoFirsts
    <3>2. g[0] = content
      BY <1>3, <3>1, ExecutedNone
    <3> QED BY <1>3, <3>2
  <2>2. ASSUME NEW n \in 1 .. N PROVE Then(g, n) = g[n]
    <3>1. PICK m \in Nat : n = m + 1 /\ m = n - 1 /\ m \in 0 .. N /\ \A i \in 1 .. m : i \in 1 .. N
      <4>1. n - 1 \in Nat /\ n = (n - 1) + 1 /\ n - 1 \in 0 .. N /\ \A i \in 1 .. (n - 1) : i \in 1 .. N
        BY <1>1
      <4> QED BY <4>1
    <3>2. PICK x \in StatementsIn(c, content) : x = all[n]
      BY <1>1 DEF Firsts
    <3>3. PICK S \in SUBSET StatementsIn(c, content) : S = Firsts(all, m)
      BY <1>1, <3>1 DEF Firsts
    <3>4. Firsts(all, n) = S \cup {x}
      BY <3>1, <3>2, <3>3, NextFirsts
    <3>5. g[m] = Executed(content, c, S) /\ g[n] = Executed(content, c, S \cup {x})
      <4>1. n \in 0 .. N /\ \A i \in 0 .. N : g[i] = Executed(content, c, Firsts(all, i))
        BY <1>1, <1>3
      <4> QED BY <3>1, <3>3, <3>4, <4>1
    <3>6. After(x, g[m]) = g[n]
      BY <3>5, AfterStatement
    <3> QED BY <1>3, <3>1, <3>2, <3>6
  <2>3. \A n \in 0 .. N : n = 0 \/ n \in 1 .. N
    BY <1>1
  <2> QED BY <1>3, <2>1, <2>2, <2>3
<1>5. P(f)
  <2> HIDE DEF P
  <2> QED BY <1>4
<1> HIDE DEF f
<1>6. \A n \in 0 .. N : f[n] = g[n]
  <2>1. \A n \in 0 .. N : f[n] = Then(f, n) /\ g[n] = Then(g, n)
    BY <1>4, <1>5
  <2>2. f[0] = g[0]
    <3>1. 0 \in 0 .. N
      BY <1>1
    <3>2. f[0] = Then(f, 0) /\ g[0] = Then(g, 0)
      BY <2>1, <3>1
    <3> QED BY <1>3, <3>2
  <2>3. \A n \in 1 .. N : f[n - 1] = g[n - 1] => f[n] = g[n]
    BY <1>1, <1>3, <2>1
  <2> QED BY <1>1, <2>2, <2>3, SameFromTheFirst
<1>7. disk' = IF c.op = "destroy" THEN NoStores ELSE Effect(content, c)
  <2>1. f[N] = Executed(content, c, StatementsIn(c, content))
    BY <1>1, <1>3, <1>6
  <2> QED BY <1>2, <2>1, ExecutedAll
<1>8. ASSUME c.op = "set", NEW t \in Targets(c.changes) PROVE t[1] \in DOMAIN content
  <2>1. PICK x \in StatementsIn(c, content) : x = RowStatement(c.changes, t)
    BY <1>8 DEF StatementsIn
  <2>2. PICK n \in 1 .. N : x = all[n]
    BY <1>1 DEF Firsts
  <2>3. x.sql = "row" /\ x.table = t[1]
    BY <2>1 DEF RowStatement
  <2>4. t[1] \in DOMAIN f[n - 1]
    BY <1>2, <2>2, <2>3 DEF Executable
  <2>5. n - 1 \in 0 .. N /\ \A i \in 1 .. (n - 1) : i \in 1 .. N
    BY <1>1
  <2>6. f[n - 1] = Executed(content, c, Firsts(all, n - 1))
    BY <1>3, <1>6, <2>5
  <2>7. PICK S \in SUBSET StatementsIn(c, content) : S = Firsts(all, n - 1)
    BY <1>1, <2>5 DEF Firsts
  <2>8. DOMAIN Executed(content, c, S) = DOMAIN content
    BY <1>8 DEF Executed, ContentThen
  <2> QED BY <2>4, <2>6, <2>7, <2>8
<1> QED BY <1>7, <1>8

LEMMA WebSQLStep ==
    ASSUME InvCall, InvWebSQL, medium = "WebSQL", UNCHANGED medium, WebSQL!Step
    PROVE  InvCall' /\ InvWebSQL' /\ KeepsTheContract
<1>1. /\ Content = disk /\ Content' = disk' /\ CanBeCalled = isOpen /\ CanBeCalled' = isOpen'
      /\ isOpen' \in BOOLEAN
  <2>1. isOpen \in BOOLEAN /\ isOpen' \in BOOLEAN
    BY DEF InvCall, WebSQL!Step, WebSQL!Open, WebSQL!Write, WebSQL!NamesTransactionFails, WebSQL!Read,
           WebSQL!Close, WebSQL!Destroy, WebSQL!RejectClosed, WebSQL!Rejected
  <2> QED BY <2>1 DEF Content, WebSQL!Content, CanBeCalled
<1>2. disk \in Contents
  BY DEF InvWebSQL
\* A call that is answered.
<1>3. ASSUME call # NoCall, disk' \in Contents, WebSQL!Returns(reply')
      PROVE  InvCall' /\ InvWebSQL' /\ Replies(reply')
  BY <1>1, <1>3, WebSQLOperators, NoCallIsMade DEF InvCall, InvWebSQL, WebSQL!Returns, Replies
<1>4. ASSUME call # NoCall, disk' = disk, isOpen' = isOpen, WebSQL!Returns(reply'), reply' = Error
      PROVE  InvCall' /\ InvWebSQL' /\ KeepsTheContract
  <2>1. InvCall' /\ InvWebSQL' /\ Replies(Error)
    BY <1>2, <1>3, <1>4
  <2> QED BY <1>1, <1>4, <2>1, ContractReject
<1>5. ASSUME WebSQL!Open PROVE InvCall' /\ InvWebSQL' /\ KeepsTheContract
  <2>1. /\ call.op = "open" /\ disk' = disk /\ WebSQL!Returns(reply')
        /\ \/ isOpen' = TRUE /\ reply' = Done
           \/ isOpen' = isOpen /\ reply' = Error
    BY <1>5, WebSQLOperators DEF WebSQL!Open, WebSQL!Called, WebSQL!Returns
  <2>2. call # NoCall
    BY <2>1, CallIsMade
  <2>3. InvCall' /\ InvWebSQL' /\ Replies(reply')
    BY <1>2, <1>3, <2>1, <2>2
  <2> QED BY <1>1, <1>4, <2>1, <2>2, <2>3, ContractOpen
<1>6. ASSUME WebSQL!Write PROVE InvCall' /\ InvWebSQL' /\ KeepsTheContract
  <2>1. /\ call.op \in WriteOps /\ isOpen /\ isOpen' = isOpen /\ WebSQL!Returns(reply')
        /\ \/ /\ call.op = "set" => ~HasUncloneable(call.changes)
              /\ WebSQL!Transact(Statements(call, disk))
              /\ reply' = Done
           \/ disk' = disk /\ reply' = Error
    BY <1>6, WebSQLOperators DEF WebSQL!Write, WebSQL!Fails, WebSQL!Returns
  <2>2. call \in Calls /\ call # NoCall
    BY <2>1, CallIsMade DEF WriteOps
  <2>3. CASE disk' = disk /\ reply' = Error
    BY <1>4, <2>1, <2>2, <2>3
  <2>4. CASE /\ call.op = "set" => ~HasUncloneable(call.changes)
             /\ WebSQL!Transact(Statements(call, disk))
             /\ reply' = Done
    <3>1. PICK content \in Contents, c \in Calls : disk = content /\ call = c
      BY <1>2, <2>2
    <3>2. c.op \in SQLWrites /\ c.op # "destroy"
      BY <2>1, <3>1 DEF SQLWrites, WriteOps
    <3>3. WebSQL!Transact(Statements(c, content))
      BY <2>4, <3>1
    <3>4. /\ disk' = Effect(content, c)
          /\ c.op = "set" => \A t \in Targets(c.changes) : t[1] \in DOMAIN content
      BY <2>4, <3>1, <3>2, <3>3, Transacted
    <3>5. disk' \in Contents
      BY <2>1, <2>4, <3>1, <3>4, EffectsAreContents
    <3>6. InvCall' /\ InvWebSQL' /\ Replies(Done)
      BY <1>3, <2>1, <2>2, <2>4, <3>5
    <3> QED BY <1>1, <2>1, <2>4, <3>1, <3>4, <3>6, ContractWrite
  <2> QED BY <2>1, <2>3, <2>4
<1>7. ASSUME WebSQL!NamesTransactionFails PROVE InvCall' /\ InvWebSQL' /\ KeepsTheContract
  <2>1. /\ call.op \in {"getObjectStoreNames", "destroy"} /\ run' = [at |-> "unsettled"]
        /\ UNCHANGED <<isOpen, disk, call, reply>>
    BY <1>7 DEF WebSQL!NamesTransactionFails, WebSQL!Goes
  <2>2. call # NoCall
    BY <2>1, NoCallIsMade
  <2>3. InvCall' /\ InvWebSQL'
    BY <1>1, <1>2, <2>1, <2>2 DEF InvCall, InvWebSQL
  <2> QED BY <1>1, <2>1, <2>3, ContractNothing
<1>8. ASSUME WebSQL!Read PROVE InvCall' /\ InvWebSQL' /\ KeepsTheContract
  <2>1. /\ call.op \in ReadOps /\ isOpen' = isOpen /\ disk' = disk /\ WebSQL!Returns(reply')
        /\ \/ AsksNothing(call) /\ reply' = Answered(call, <<>>)
           \/ isOpen /\ Answerable(call, disk) /\ reply' = Answered(call, Answer(call, disk))
           \/ reply' = Error
    BY <1>8, WebSQLOperators DEF WebSQL!Read, WebSQL!Returns
  <2>2. call \in Calls /\ call # NoCall
    BY <2>1, CallIsMade DEF ReadOps
  <2>3. CASE reply' = Error
    BY <1>4, <2>1, <2>2, <2>3
  <2>4. CASE isOpen /\ Answerable(call, disk) /\ reply' = Answered(call, Answer(call, disk))
    <3>1. InvCall' /\ InvWebSQL' /\ Replies(reply')
      BY <1>2, <1>3, <2>1, <2>2
    <3>2. reply' = Answered(call, Result(disk, call))
      BY <1>2, <2>1, <2>2, <2>4, AnsweredFromTables
    <3> QED BY <1>1, <2>1, <2>4, <3>1, <3>2, ContractRead
  <2>5. CASE AsksNothing(call) /\ reply' = Answered(call, <<>>)
    <3>1. InvCall' /\ InvWebSQL' /\ Replies(reply')
      BY <1>2, <1>3, <2>1, <2>2
    <3> QED BY <1>1, <2>1, <2>5, <3>1, NothingIsAnswered, ContractRead
  <2> QED BY <2>1, <2>3, <2>4, <2>5
<1>9. ASSUME WebSQL!Close PROVE InvCall' /\ InvWebSQL' /\ KeepsTheContract
  <2>1. /\ call.op = "close" /\ disk' = disk /\ isOpen' = FALSE /\ WebSQL!Returns(reply') /\ reply' = Done
    BY <1>9, WebSQLOperators DEF WebSQL!Close, WebSQL!Called, WebSQL!Returns
  <2>2. InvCall' /\ InvWebSQL' /\ Replies(Done)
    BY <1>2, <1>3, <2>1, CallIsMade
  <2> QED BY <1>1, <2>1, <2>2, ContractClose
<1>10. ASSUME WebSQL!Destroy PROVE InvCall' /\ InvWebSQL' /\ KeepsTheContract
  <2>1. /\ call.op = "destroy" /\ WebSQL!Returns(reply')
        /\ \/ WebSQL!Transact(Statements(call, disk)) /\ isOpen' = FALSE /\ reply' = Done
           \/ disk' = disk /\ isOpen' = isOpen /\ reply' = Error
    BY <1>10, WebSQLOperators DEF WebSQL!Destroy, WebSQL!Called, WebSQL!Returns
  <2>2. call \in Calls /\ call # NoCall
    BY <2>1, CallIsMade
  <2>3. CASE disk' = disk /\ isOpen' = isOpen /\ reply' = Error
    BY <1>4, <2>1, <2>2, <2>3
  <2>4. CASE WebSQL!Transact(Statements(call, disk)) /\ isOpen' = FALSE /\ reply' = Done
    <3>1. PICK content \in Contents, c \in Calls : disk = content /\ call = c
      BY <1>2, <2>2
    <3>2. c.op \in SQLWrites /\ c.op = "destroy" /\ WebSQL!Transact(Statements(c, content))
      BY <2>1, <2>4, <3>1 DEF SQLWrites
    <3>3. disk' = NoStores
      BY <3>1, <3>2, Transacted
    <3>4. InvCall' /\ InvWebSQL' /\ Replies(Done)
      BY <1>3, <2>1, <2>2, <2>4, <3>3, NoStoresAreContents
    <3> QED BY <1>1, <2>1, <2>4, <3>3, <3>4, ContractDestroy
  <2> QED BY <2>1, <2>3, <2>4
<1>11. ASSUME WebSQL!RejectClosed PROVE InvCall' /\ InvWebSQL' /\ KeepsTheContract
  <2>1. call.op # "none" /\ WebSQL!Returns(reply') /\ reply' = Error /\ UNCHANGED <<isOpen, disk>>
    BY <1>11, WebSQLOperators DEF WebSQL!RejectClosed, WebSQL!Rejected, WebSQL!Returns
  <2>2. call # NoCall
    BY <2>1, CallIsMade
  <2> QED BY <1>4, <2>1, <2>2
<1> QED BY <1>5, <1>6, <1>7, <1>8, <1>9, <1>10, <1>11 DEF WebSQL!Step

-----------------------------------------------------------------------------
(***************************************************************************)
(* Web storage.  Shown is the entry under a target: while there is a       *)
(* rollback record, what it puts back.                                     *)
(***************************************************************************)
RecordedAs(record, t) == {record[i] : i \in {i \in DOMAIN record : record[i].target = t}}

Shown(items, record, t) ==
    IF RecordedAs(record, t) # {} THEN (CHOOSE e \in RecordedAs(record, t) : TRUE).old
    ELSE EntryAt(items, t)

ShownAs(d) ==
    [s \in d.names |->
        [k \in {k \in Key : Shown(d.items, d.record, <<s, k>>) # Null} |->
            Shown(d.items, d.record, <<s, k>>)]]

IsRecord(record, names) ==
    /\ Len(record) \in Nat /\ DOMAIN record = 1 .. Len(record)
    /\ \A i \in DOMAIN record : /\ record[i].target \in Store \X Key /\ record[i].target[1] \in names
                                /\ record[i].old \in Entry \cup {Null}
    /\ \A i, j \in DOMAIN record : record[i].target = record[j].target => i = j

AreItems(d) ==
    /\ d = [items |-> d.items, names |-> d.names, record |-> d.record]
    /\ d.items \in Items /\ d.names \in SUBSET Store
    /\ Under(d.names, d.items)
    /\ IsRecord(d.record, d.names)

LEMMA ShownIs ==
    ASSUME NEW record, NEW names, IsRecord(record, names), NEW items \in Items
    PROVE  /\ \A i \in DOMAIN record : Shown(items, record, record[i].target) = record[i].old
           /\ \A t : (\A i \in DOMAIN record : record[i].target # t)
                         => Shown(items, record, t) = EntryAt(items, t)
           /\ \A t : Shown(items, record, t) \in Entry \cup {Null}
<1>1. ASSUME NEW i \in DOMAIN record PROVE Shown(items, record, record[i].target) = record[i].old
  <2>1. PICK e : e = record[i]
    OBVIOUS
  <2>2. RecordedAs(record, e.target) = {e}
    BY <2>1 DEF RecordedAs, IsRecord
  <2> QED BY <2>1, <2>2 DEF Shown
<1>2. ASSUME NEW t, \A i \in DOMAIN record : record[i].target # t
      PROVE  Shown(items, record, t) = EntryAt(items, t)
  <2>1. RecordedAs(record, t) = {}
    BY <1>2 DEF RecordedAs
  <2> QED BY <2>1 DEF Shown
<1>3. ASSUME NEW t PROVE Shown(items, record, t) \in Entry \cup {Null}
  <2>1. CASE \E i \in DOMAIN record : record[i].target = t
    BY <1>1, <2>1 DEF IsRecord
  <2>2. CASE \A i \in DOMAIN record : record[i].target # t
    BY <1>2, <2>2, ItemsAre
  <2> QED BY <2>1, <2>2
<1> QED BY <1>1, <1>2, <1>3

LEMMA NoRecord ==
    /\ \A names : IsRecord(<<>>, names)
    /\ \A items, t : Shown(items, <<>>, t) = EntryAt(items, t)
<1>1. DOMAIN <<>> = {} /\ Len(<<>>) = 0
  OBVIOUS
<1>2. \A names : IsRecord(<<>>, names)
  BY <1>1 DEF IsRecord
<1>3. \A t : RecordedAs(<<>>, t) = {}
  BY <1>1 DEF RecordedAs
<1> QED BY <1>2, <1>3 DEF Shown

LEMMA ShownAsIsContent ==
    ASSUME NEW d, AreItems(d)
    PROVE  /\ ShownAs(d) \in Contents
           /\ DOMAIN ShownAs(d) = d.names
           /\ \A s \in d.names : \A k \in Key :
                  EntryAt(ShownAs(d)[s], k) = Shown(d.items, d.record, <<s, k>>)
           /\ d.record = <<>> => ShownAs(d) = StoredAs(d.names, d.items)
<1> DEFINE T == {t \in Store \X Key : Shown(d.items, d.record, t) # Null}
           shown == [t \in T |-> Shown(d.items, d.record, t)]
<1>1. \A t : Shown(d.items, d.record, t) \in Entry \cup {Null}
  BY ShownIs DEF AreItems
<1>2. shown \in [T -> Entry] /\ T \in SUBSET (Store \X Key)
  BY <1>1
<1>3. \A s \in Store : \A k \in Key : EntryAt(shown, <<s, k>>) = Shown(d.items, d.record, <<s, k>>)
  <2> SUFFICES ASSUME NEW s \in Store, NEW k \in Key
               PROVE  EntryAt(shown, <<s, k>>) = Shown(d.items, d.record, <<s, k>>)
    OBVIOUS
  <2>1. PICK t \in Store \X Key : t = <<s, k>>
    OBVIOUS
  <2>2. t \in T <=> Shown(d.items, d.record, t) # Null
    OBVIOUS
  <2>3. t \in T => shown[t] = Shown(d.items, d.record, t)
    OBVIOUS
  <2>4. DOMAIN shown = T
    OBVIOUS
  <2> HIDE DEF T, shown
  <2> QED BY <2>1, <2>2, <2>3, <2>4 DEF EntryAt
<1> HIDE DEF shown, T
<1>4. shown \in Items
  BY <1>2 DEF Items
<1>5. d.names \in SUBSET Store
  BY DEF AreItems
<1>6. ShownAs(d) = StoredAs(d.names, shown)
  <2>1. \A s \in d.names : \A k \in Key : EntryAt(shown, <<s, k>>) = Shown(d.items, d.record, <<s, k>>)
    BY <1>3, <1>5
  <2> QED BY <2>1 DEF ShownAs, StoredAs
<1>7. d.record = <<>> => ShownAs(d) = StoredAs(d.names, d.items)
  BY NoRecord DEF ShownAs, StoredAs
<1> QED BY <1>3, <1>4, <1>5, <1>6, <1>7, StoredAsIsContent

\* One item is put, or removed.
Put(items, t, value) == Merged(items, [u \in {t} |-> value])

LEMMA PutAreItems ==
    ASSUME NEW items \in Items, NEW t \in Store \X Key, NEW value \in Entry \cup {Null}
    PROVE  /\ Put(items, t, value) \in Items
           /\ \A u : EntryAt(Put(items, t, value), u) = IF u = t THEN value ELSE EntryAt(items, u)
           /\ \A names : Under(names, items) /\ t[1] \in names => Under(names, Put(items, t, value))
           /\ \A u \in DOMAIN Put(items, t, Null) : u \in DOMAIN items
<1>1. PICK one : one = [u \in {t} |-> value]
  OBVIOUS
<1>2. DOMAIN one = {t} /\ one[t] = value
  BY <1>1
<1>3. Put(items, t, value) = Merged(items, one)
  BY <1>1 DEF Put
<1>4. Put(items, t, value) \in Items
  BY <1>2, <1>3, MergedAreItems
<1>5. \A u : EntryAt(Put(items, t, value), u) = IF u = t THEN value ELSE EntryAt(items, u)
  BY <1>2, <1>3, MergedEntries
<1>6. ASSUME NEW names, Under(names, items), t[1] \in names
      PROVE  Under(names, Put(items, t, value))
  <2>1. \A u \in DOMAIN Merged(items, one) : u \in DOMAIN items \/ u = t
    BY <1>2 DEF Merged
  <2> QED BY <1>3, <1>6, <2>1 DEF Under
<1>7. \A u \in DOMAIN Put(items, t, Null) : u \in DOMAIN items
  BY DEF Put, Merged
<1> QED BY <1>4, <1>5, <1>6, <1>7

RollbackSucceeds == "rollback fails" \notin Faults

Target(n) == disk.record[n].target

Written1To(n) ==
    \A i \in 1 .. n : /\ EntryFor(call.changes, Target(i)) \notin Uncloneable
                      /\ EntryAt(disk.items, Target(i)) = EntryFor(call.changes, Target(i))

Restored1To(n) == \A i \in 1 .. n : EntryAt(disk.items, Target(i)) = disk.record[i].old

Writing ==
    /\ isOpen /\ call.op = "set"
    /\ Targets(call.changes) = {Target(i) : i \in DOMAIN disk.record}
    /\ \E n \in Nat : /\ run = [at |-> "write", n |-> n + 1] /\ n <= Len(disk.record)
                      /\ Written1To(n)

Restoring ==
    /\ isOpen /\ call.op = "set"
    /\ \E n \in Nat : /\ run = [at |-> "restore", n |-> n + 1] /\ n <= Len(disk.record)
                      /\ Restored1To(n)

Clearing ==
    /\ isOpen /\ call.op \in {"clearObjectStores", "deleteObjectStores", "destroy"}
    /\ run = [at |-> "clear"]
    /\ disk.record = <<>>

InvLocalStorage ==
    /\ AreItems(disk)
    /\ \/ run = Idle /\ (isOpen => disk.record = <<>>)
       \/ Writing \/ Restoring \/ Clearing

LEMMA LocalStorageOperators ==
    /\ WebStorage!Idle = Idle /\ WebStorage!NoCall = NoCall /\ WebStorage!Done = Done
    /\ WebStorage!Error = Error /\ WebStorage!ReadOps = ReadOps
    /\ \A c, result : WebStorage!Answered(c, result) = Answered(c, result)
    /\ \A t, items : WebStorage!Item(t, items) = EntryAt(items, t)
    /\ \A items, t, value : WebStorage!PutItem(items, t, value) = Put(items, t, value)
    /\ \A changes : WebStorage!Targets(changes) = Targets(changes)
    /\ \A changes, t : WebStorage!EntryFor(changes, t) = EntryFor(changes, t)
    /\ \A S : WebStorage!InOrder(S) = InOrder(S)
    /\ \A S : WebStorage!SetToSeq(S) = SetToSeq(S)
<1>1. /\ WebStorage!Idle = Idle /\ WebStorage!NoCall = NoCall /\ WebStorage!Done = Done
      /\ WebStorage!Error = Error /\ WebStorage!ReadOps = ReadOps
  BY DEF WebStorage!Idle, Idle, WebStorage!NoCall, NoCall, WebStorage!Done, Done, WebStorage!Error, Error,
         WebStorage!ReadOps, ReadOps
<1>2. \A c, result : WebStorage!Answered(c, result) = Answered(c, result)
  BY DEF WebStorage!Answered, Answered
<1>3. \A t, items : WebStorage!Item(t, items) = EntryAt(items, t)
  BY DEF WebStorage!Item, WebStorage!EntryAt, EntryAt
<1>4. \A items, t, value : WebStorage!PutItem(items, t, value) = Put(items, t, value)
  BY DEF WebStorage!PutItem, WebStorage!Merged, Put, Merged
<1>5. /\ \A changes : WebStorage!Targets(changes) = Targets(changes)
      /\ \A changes, t : WebStorage!EntryFor(changes, t) = EntryFor(changes, t)
  BY DEF WebStorage!EntryFor, EntryFor, WebStorage!Targets, Targets
<1>6. \A S : WebStorage!InOrder(S) = InOrder(S)
  BY DEF WebStorage!InOrder, InOrder, WebStorage!SetToSortSeq, SetToSortSeq, WebStorage!SetToSeq, SetToSeq,
         WebStorage!SortSeq, SortSeq, WebStorage!Cardinality, Cardinality, WebStorage!IsInjective, IsInjective
<1>7. \A S : WebStorage!SetToSeq(S) = SetToSeq(S)
  BY DEF WebStorage!SetToSeq, SetToSeq, WebStorage!Cardinality, Cardinality, WebStorage!IsInjective, IsInjective
<1> QED BY <1>1, <1>2, <1>3, <1>4, <1>5, <1>6, <1>7

LEMMA LocalStorageContent ==
    ASSUME medium = "LocalStorage"
    PROVE  Content = ShownAs(disk) /\ (medium' = medium => Content' = ShownAs(disk'))
<1>1. WebStorage!Content = ShownAs(disk)
  BY LocalStorageOperators
     DEF WebStorage!Content, ShownAs, WebStorage!Restored, Shown, WebStorage!Recorded, RecordedAs
<1>2. WebStorage!Content' = ShownAs(disk')
  BY LocalStorageOperators
     DEF WebStorage!Content, ShownAs, WebStorage!Restored, Shown, WebStorage!Recorded, RecordedAs
<1> QED BY <1>1, <1>2 DEF Content

\* What a read answers, when there is no record.
LEMMA AnsweredFromStorage ==
    ASSUME InvLocalStorage, disk.record = <<>>, NEW c \in Calls, c.op \in ReadOps
    PROVE  WebStorage!Answer(c) = Result(ShownAs(disk), c)
<1>1. PICK names \in SUBSET Store, items \in Items :
          disk.names = names /\ disk.items = items /\ Under(names, items)
  BY DEF InvLocalStorage, AreItems
<1>2. PICK content \in Contents :
          content = ShownAs(disk) /\ content = StoredAs(names, items) /\ DOMAIN content = names
  BY <1>1, ShownAsIsContent DEF InvLocalStorage
<1>3. CASE c.op = "getObjectStoreNames"
  BY <1>1, <1>2, <1>3 DEF WebStorage!Answer, Result
<1>4. CASE c.op # "getObjectStoreNames"
  <2>1. PICK s \in Store : s = c.store
    BY <1>4, CallsAre
  <2>2. PICK rows \in Rows : rows = RowsOf(content, s)
    BY RowsOfContents
  <2>3. \A k \in Key : EntryAt(rows, k) = EntryAt(items, <<s, k>>)
    BY <1>1, <1>2, <2>2, RowsOfStored
  <2>4. rows = WebStorage!GetAll(s)
    <3>1. RowsOf(StoredAs(names, items), s) =
              [k \in {t[2] : t \in {t \in DOMAIN items : t[1] \in {s}}} |-> items[<<s, k>>]]
      BY <1>1, RowsOfStored
    <3>2. WebStorage!GetAll(s) =
              [k \in {t[2] : t \in {t \in DOMAIN items : t[1] \in {s}}} |-> items[<<s, k>>]]
      BY <1>1 DEF WebStorage!GetAll, WebStorage!ItemsOf
    <3> QED BY <1>2, <2>2, <3>1, <3>2
  <2>5. CASE c.op \in {"get", "has"}
    <3>1. \A i \in DOMAIN c.keys : c.keys[i] \in Key
      BY <2>5, CallsAre
    <3>2. \A i \in DOMAIN c.keys : WebStorage!Item(<<s, c.keys[i]>>, disk.items) = EntryAt(rows, c.keys[i])
      BY <1>1, <2>3, <3>1, LocalStorageOperators
    <3>3. \A k \in Key : k \in DOMAIN rows <=> EntryAt(rows, k) # Null
      BY RowsAre DEF EntryAt
    <3>4. CASE c.op = "get"
      <4>1. WebStorage!Answer(c) = [i \in DOMAIN c.keys |-> WebStorage!Item(<<s, c.keys[i]>>, disk.items)]
        BY <2>1, <3>4 DEF WebStorage!Answer
      <4>2. Result(content, c) = [i \in DOMAIN c.keys |-> EntryAt(rows, c.keys[i])]
        BY <2>1, <2>2, <3>4 DEF Result
      <4> QED BY <1>2, <3>2, <4>1, <4>2
    <3>5. CASE c.op = "has"
      <4>1. WebStorage!Answer(c) = [i \in DOMAIN c.keys |-> WebStorage!Item(<<s, c.keys[i]>>, disk.items) # Null]
        BY <2>1, <3>5 DEF WebStorage!Answer
      <4>2. Result(content, c) = [i \in DOMAIN c.keys |-> c.keys[i] \in DOMAIN rows]
        BY <2>1, <2>2, <3>5 DEF Result
      <4> QED BY <1>2, <3>1, <3>2, <3>3, <4>1, <4>2
    <3> QED BY <2>5, <3>4, <3>5
  <2>6. CASE c.op \in {"getAll", "createIterator", "getAllKeys", "count"}
    BY <1>2, <2>1, <2>2, <2>4, <2>6, LocalStorageOperators DEF WebStorage!Answer, Result
  <2> QED BY <1>4, <2>5, <2>6 DEF ReadOps
<1> QED BY <1>2, <1>3, <1>4

\* The record of a transaction puts back what is there, so that nothing
\* changes when it is stored.
LEMMA RecordIs ==
    ASSUME NEW changes \in Changes, NEW names \in SUBSET Store, DOMAIN changes \subseteq names,
           NEW items \in Items, NEW targets, targets = SetToSeq(Targets(changes)), NEW record,
           record = [i \in DOMAIN targets |-> [target |-> targets[i], old |-> EntryAt(items, targets[i])]]
    PROVE  /\ IsRecord(record, names)
           /\ {record[i].target : i \in DOMAIN record} = Targets(changes)
           /\ \A t : Shown(items, record, t) = EntryAt(items, t)
<1>1. IsFiniteSet(Targets(changes))
  <2>1. Targets(changes) \in SUBSET (Store \X Key)
    BY DEF Targets
  <2> QED BY <2>1, FiniteAssumption, FS_Product, FS_Subset
<1>2. PICK N \in Nat :
          /\ N = Len(targets) /\ DOMAIN targets = 1 .. N
          /\ \A i \in 1 .. N : targets[i] \in Targets(changes)
          /\ Firsts(targets, N) = Targets(changes)
          /\ \A i, j \in 1 .. N : targets[i] = targets[j] => i = j
  BY <1>1, SequenceOfSet
<1>3. /\ DOMAIN record = 1 .. N /\ Len(record) = N
      /\ \A i \in 1 .. N : record[i].target = targets[i] /\ record[i].old = EntryAt(items, targets[i])
  <2>1. record = [i \in 1 .. N |-> [target |-> targets[i], old |-> EntryAt(items, targets[i])]]
    BY <1>2
  <2> QED BY <2>1
<1>4. IsRecord(record, names)
  <2>1. \A i \in 1 .. N : targets[i] \in Store \X Key /\ targets[i][1] \in names
    BY <1>2, TargetsAre DEF Targets
  <2>2. \A i \in 1 .. N : EntryAt(items, targets[i]) \in Entry \cup {Null}
    BY ItemsAre
  <2> QED BY <1>2, <1>3, <2>1, <2>2 DEF IsRecord
<1>5. {record[i].target : i \in DOMAIN record} = Targets(changes)
  BY <1>2, <1>3 DEF Firsts
<1>6. ASSUME NEW t PROVE Shown(items, record, t) = EntryAt(items, t)
  <2>1. CASE \E i \in DOMAIN record : record[i].target = t
    BY <1>3, <1>4, <2>1, ShownIs
  <2>2. CASE \A i \in DOMAIN record : record[i].target # t
    BY <1>4, <2>2, ShownIs
  <2> QED BY <2>1, <2>2
<1> QED BY <1>4, <1>5, <1>6

\* An item that the record puts back is not shown.
LEMMA PutUnseen ==
    ASSUME NEW record, NEW names, IsRecord(record, names), NEW items \in Items,
           NEW i \in DOMAIN record, NEW value \in Entry \cup {Null}
    PROVE  \A t : Shown(Put(items, record[i].target, value), record, t) = Shown(items, record, t)
<1> SUFFICES ASSUME NEW t
             PROVE  Shown(Put(items, record[i].target, value), record, t) = Shown(items, record, t)
  OBVIOUS
<1>1. PICK target \in Store \X Key : target = record[i].target
  BY DEF IsRecord
<1>2. PICK after \in Items : after = Put(items, target, value)
  BY PutAreItems
<1>3. CASE \E j \in DOMAIN record : record[j].target = t
  BY <1>1, <1>2, <1>3, ShownIs
<1>4. CASE \A j \in DOMAIN record : record[j].target # t
  <2>1. Shown(after, record, t) = EntryAt(after, t) /\ Shown(items, record, t) = EntryAt(items, t)
    BY <1>4, ShownIs
  <2>2. t # target
    BY <1>1, <1>4
  <2>3. EntryAt(after, t) = EntryAt(items, t)
    BY <1>2, <2>2, PutAreItems
  <2> QED BY <1>1, <1>2, <2>1, <2>3
<1> QED BY <1>3, <1>4

LEMMA LocalStorageReplies ==
    ASSUME InvCall, UNCHANGED medium, isOpen' \in BOOLEAN, AreItems(disk'),
           isOpen' => disk'.record = <<>>, WebStorage!Returns(reply')
    PROVE  InvCall' /\ InvLocalStorage' /\ Replies(reply')
<1>1. call' = NoCall /\ run' = Idle
  BY LocalStorageOperators DEF WebStorage!Returns
<1> QED BY <1>1 DEF InvCall, InvLocalStorage, Replies

LEMMA LocalStorageAt ==
    ASSUME InvCall, InvLocalStorage
    PROVE  /\ run.at = "write" => Writing
           /\ run.at = "restore" => Restoring
           /\ run.at = "clear" => Clearing
           /\ isOpen /\ run = Idle => disk.record = <<>>
           /\ run # Idle => call \in Calls /\ call # NoCall
<1>1. /\ run = Idle => run.at = "idle"
      /\ Writing => run.at = "write"
      /\ Restoring => run.at = "restore"
      /\ Clearing => run.at = "clear"
  BY DEF Idle, Writing, Restoring, Clearing
<1>2. run # Idle => call \in Calls /\ call # NoCall
  BY DEF InvCall
<1> QED BY <1>1, <1>2 DEF InvLocalStorage

LEMMA LocalStorageRejects ==
    ASSUME InvCall, InvLocalStorage, medium = "LocalStorage", UNCHANGED medium, call # NoCall,
           isOpen => disk.record = <<>>,
           UNCHANGED <<isOpen, disk>>, WebStorage!Returns(reply'), reply' = Error
    PROVE  InvCall' /\ InvLocalStorage' /\ KeepsTheContract
<1>1. InvCall' /\ InvLocalStorage' /\ Replies(Error)
  BY LocalStorageReplies DEF InvCall, InvLocalStorage
<1>2. UNCHANGED Content
  BY LocalStorageContent
<1>3. isOpen \in BOOLEAN /\ CanBeCalled = isOpen /\ CanBeCalled' = isOpen
  BY DEF InvCall, CanBeCalled
<1> QED BY <1>1, <1>2, <1>3, ContractReject

LEMMA StartSetStep ==
    ASSUME InvCall, InvLocalStorage, medium = "LocalStorage", UNCHANGED medium, WebStorage!StartSet
    PROVE  InvCall' /\ InvLocalStorage' /\ KeepsTheContract
<1> DEFINE changes == call.changes
<1>1. /\ call.op = "set" /\ run = Idle /\ isOpen /\ isOpen' = isOpen
      /\ \/ /\ DOMAIN changes \subseteq disk.names
            /\ disk' = [disk EXCEPT !.record = WebStorage!Record]
            /\ run' = [at |-> "write", n |-> 1] /\ UNCHANGED <<call, reply>>
         \/ WebStorage!Returns(reply') /\ reply' = Error /\ disk' = disk
  BY LocalStorageOperators DEF WebStorage!StartSet, WebStorage!Called, WebStorage!Goes, WebStorage!Returns
<1>2. disk.record = <<>> /\ call \in Calls /\ call # NoCall /\ changes \in Changes
  BY <1>1, LocalStorageAt, CallIsMade, CallsAre
<1>3. CASE WebStorage!Returns(reply') /\ reply' = Error /\ disk' = disk
  BY <1>1, <1>2, <1>3, LocalStorageRejects
<1>4. CASE /\ DOMAIN changes \subseteq disk.names
           /\ disk' = [disk EXCEPT !.record = WebStorage!Record]
           /\ run' = [at |-> "write", n |-> 1] /\ UNCHANGED <<call, reply>>
  <2>1. PICK items \in Items, names \in SUBSET Store :
            disk = [items |-> items, names |-> names, record |-> <<>>] /\ Under(names, items)
    BY <1>2 DEF InvLocalStorage, AreItems
  <2>2. PICK targets : targets = SetToSeq(Targets(changes))
    OBVIOUS
  <2>3. PICK record :
            record = [i \in DOMAIN targets |-> [target |-> targets[i], old |-> EntryAt(items, targets[i])]]
    OBVIOUS
  <2>4. WebStorage!Record = record
    <3>1. WebStorage!Record =
              [i \in DOMAIN WebStorage!SetToSeq(WebStorage!Targets(call.changes)) |->
                  [target |-> WebStorage!SetToSeq(WebStorage!Targets(call.changes))[i],
                   old |-> WebStorage!Item(WebStorage!SetToSeq(WebStorage!Targets(call.changes))[i], disk.items)]]
      BY DEF WebStorage!Record
    <3>2. WebStorage!SetToSeq(WebStorage!Targets(call.changes)) = targets /\ disk.items = items
      BY <2>1, <2>2, LocalStorageOperators
    <3>3. \A t : WebStorage!Item(t, items) = EntryAt(items, t)
      BY LocalStorageOperators
    <3> QED BY <2>3, <3>1, <3>2, <3>3
  <2>5. disk' = [items |-> items, names |-> names, record |-> record]
    BY <1>4, <2>1, <2>4
  <2>6. /\ IsRecord(record, names)
        /\ {record[i].target : i \in DOMAIN record} = Targets(changes)
        /\ \A t : Shown(items, record, t) = EntryAt(items, t)
    <3>1. PICK new \in Changes : new = changes
      BY <1>2
    <3>2. DOMAIN new \subseteq names /\ targets = SetToSeq(Targets(new))
      BY <1>4, <2>1, <2>2, <3>1
    <3>3. /\ IsRecord(record, names)
          /\ {record[i].target : i \in DOMAIN record} = Targets(new)
          /\ \A t : Shown(items, record, t) = EntryAt(items, t)
      BY <2>2, <2>3, <3>2, RecordIs
    <3> QED BY <3>1, <3>3
  <2>7. AreItems(disk')
    BY <2>1, <2>5, <2>6 DEF AreItems
  <2>8. Writing'
    <3>1. Len(record) \in Nat
      BY <2>6 DEF IsRecord
    <3>2. 0 \in Nat /\ 1 = 0 + 1 /\ 0 <= Len(record) /\ 1 .. 0 = {}
      BY <3>1
    <3>3. Written1To(0)'
      BY <3>2 DEF Written1To
    <3> QED BY <1>1, <1>4, <2>5, <2>6, <3>2, <3>3 DEF Writing, Target
  <2>9. InvCall' /\ InvLocalStorage'
    BY <1>1, <1>2, <1>4, <2>7, <2>8 DEF InvCall, InvLocalStorage
  <2>10. UNCHANGED Content
    <3>1. ShownAs(disk') = ShownAs(disk)
      BY <2>1, <2>5, <2>6, NoRecord DEF ShownAs
    <3> QED BY <3>1, LocalStorageContent
  <2> QED BY <1>1, <1>4, <2>9, <2>10, ContractNothing DEF CanBeCalled
<1> QED BY <1>1, <1>3, <1>4

LEMMA WriteItemStep ==
    ASSUME InvCall, InvLocalStorage, medium = "LocalStorage", UNCHANGED medium, WebStorage!WriteItem
    PROVE  InvCall' /\ InvLocalStorage' /\ KeepsTheContract
<1>1. Writing /\ run # Idle /\ call \in Calls /\ call # NoCall /\ call.changes \in Changes
  <2>1. Writing /\ run # Idle
    BY LocalStorageAt DEF WebStorage!WriteItem, Idle
  <2> QED BY <2>1, LocalStorageAt, CallsAre DEF Writing
<1>2. PICK n \in Nat : run = [at |-> "write", n |-> n + 1] /\ Written1To(n)
  BY <1>1 DEF Writing
<1>3. PICK items \in Items, names \in SUBSET Store, record \in {disk.record} :
          /\ disk = [items |-> items, names |-> names, record |-> record]
          /\ Under(names, items) /\ IsRecord(record, names)
  BY DEF InvLocalStorage, AreItems
<1>4. PICK i \in DOMAIN record : i = n + 1
  <2>1. Len(record) \in Nat /\ DOMAIN record = 1 .. Len(record)
    BY <1>3 DEF IsRecord
  <2>2. n + 1 <= Len(record)
    BY <1>2, <1>3 DEF WebStorage!WriteItem
  <2>3. n + 1 \in 1 .. Len(record)
    BY <2>1, <2>2
  <2> QED BY <2>1, <2>3
<1>5. PICK target \in Store \X Key : target = record[i].target /\ target[1] \in names /\ target = Target(i)
  BY <1>3 DEF IsRecord, Target
<1>6. PICK new : new = EntryFor(call.changes, target)
  OBVIOUS
<1>7. /\ isOpen' = isOpen
      /\ \/ /\ new \notin Uncloneable
            /\ disk' = [disk EXCEPT !.items = Put(items, target, new)]
            /\ run' = [at |-> "write", n |-> i + 1] /\ UNCHANGED <<call, reply>>
         \/ /\ disk' = disk
            /\ run' = [at |-> "restore", n |-> 1] /\ UNCHANGED <<call, reply>>
  <2>1. run.n = i /\ disk.record[run.n].target = target /\ disk.items = items
    BY <1>2, <1>3, <1>4, <1>5
  <2> QED BY <1>6, <2>1, LocalStorageOperators DEF WebStorage!WriteItem, WebStorage!Goes
<1>8. CASE /\ new \notin Uncloneable
           /\ disk' = [disk EXCEPT !.items = Put(items, target, new)]
           /\ run' = [at |-> "write", n |-> i + 1] /\ UNCHANGED <<call, reply>>
  <2>1. new \in Entry \cup {Null}
    <3>1. target \in Targets(call.changes)
      BY <1>1, <1>3, <1>4, <1>5 DEF Writing
    <3> QED BY <1>1, <1>6, <1>8, <3>1, TargetsAre DEF Entry
  <2>2. PICK after \in Items :
            /\ after = Put(items, target, new) /\ Under(names, after)
            /\ \A u : EntryAt(after, u) = IF u = target THEN new ELSE EntryAt(items, u)
    BY <1>3, <1>5, <2>1, PutAreItems
  <2>3. disk' = [items |-> after, names |-> names, record |-> record]
    BY <1>3, <1>8, <2>2
  <2>4. AreItems(disk')
    BY <1>3, <2>2, <2>3 DEF AreItems
  <2>5. Written1To(i)'
    <3> SUFFICES ASSUME NEW j \in 1 .. i
                 PROVE  /\ EntryFor(call.changes, record[j].target) \notin Uncloneable
                        /\ EntryAt(after, record[j].target) = EntryFor(call.changes, record[j].target)
      BY <1>8, <2>3 DEF Written1To, Target
    <3>1. CASE j = i
      BY <1>5, <1>6, <1>8, <2>2, <3>1
    <3>2. CASE j # i
      <4>1. j \in 1 .. n /\ j \in DOMAIN record
        <5>1. Len(record) \in Nat /\ DOMAIN record = 1 .. Len(record)
          BY <1>3 DEF IsRecord
        <5> QED BY <1>4, <3>2, <5>1
      <4>2. record[j].target # target
        BY <1>3, <1>5, <3>2, <4>1 DEF IsRecord
      <4> QED BY <1>2, <1>3, <2>2, <4>1, <4>2 DEF Written1To, Target
    <3> QED BY <3>1, <3>2
  <2>6. Writing'
    <3>1. i \in Nat /\ i <= Len(record)
      <4>1. Len(record) \in Nat /\ DOMAIN record = 1 .. Len(record)
        BY <1>3 DEF IsRecord
      <4> QED BY <4>1
    <3>2. Targets(call.changes)' = {Target(j) : j \in DOMAIN disk.record}'
      BY <1>1, <1>3, <1>8, <2>3 DEF Writing, Target
    <3> QED BY <1>1, <1>7, <1>8, <2>3, <2>5, <3>1, <3>2 DEF Writing
  <2>7. InvCall' /\ InvLocalStorage'
    BY <1>1, <1>7, <1>8, <2>4, <2>6 DEF InvCall, InvLocalStorage
  <2>8. UNCHANGED Content
    <3>1. \A t : Shown(after, record, t) = Shown(items, record, t)
      <4>1. \A t : Shown(Put(items, record[i].target, new), record, t) = Shown(items, record, t)
        BY <1>3, <2>1, PutUnseen
      <4> QED BY <1>5, <2>2, <4>1
    <3>2. \A s \in names : \A k \in Key : Shown(after, record, <<s, k>>) = Shown(items, record, <<s, k>>)
      BY <3>1
    <3>3. ShownAs(disk') = ShownAs(disk)
      BY <1>3, <2>3, <3>2 DEF ShownAs
    <3> QED BY <3>3, LocalStorageContent
  <2> QED BY <1>7, <1>8, <2>7, <2>8, ContractNothing DEF CanBeCalled
<1>9. CASE /\ disk' = disk
           /\ run' = [at |-> "restore", n |-> 1] /\ UNCHANGED <<call, reply>>
  <2>1. Restoring'
    <3>1. Len(record) \in Nat
      BY <1>3 DEF IsRecord
    <3>2. 0 \in Nat /\ 1 = 0 + 1 /\ 0 <= Len(record) /\ 1 .. 0 = {}
      BY <3>1
    <3>3. Restored1To(0)'
      BY <3>2 DEF Restored1To
    <3> QED BY <1>1, <1>3, <1>7, <1>9, <3>2, <3>3 DEF Restoring, Writing
  <2>2. InvCall' /\ InvLocalStorage'
    BY <1>1, <1>7, <1>9, <2>1 DEF InvCall, InvLocalStorage
  <2> QED BY <1>7, <1>9, <2>2, LocalStorageContent, ContractNothing DEF CanBeCalled
<1> QED BY <1>7, <1>8, <1>9

LEMMA EndSetStep ==
    ASSUME InvCall, InvLocalStorage, medium = "LocalStorage", UNCHANGED medium, WebStorage!EndSet
    PROVE  InvCall' /\ InvLocalStorage' /\ KeepsTheContract
<1>1. Writing /\ run # Idle /\ call \in Calls /\ call # NoCall
  <2>1. Writing /\ run # Idle
    BY LocalStorageAt DEF WebStorage!EndSet, Idle
  <2> QED BY <2>1, LocalStorageAt
<1>2. PICK n \in Nat : /\ run = [at |-> "write", n |-> n + 1] /\ n <= Len(disk.record)
                       /\ Written1To(n)
  BY <1>1 DEF Writing
<1>3. PICK items \in Items, names \in SUBSET Store, record \in {disk.record} :
          /\ disk = [items |-> items, names |-> names, record |-> record]
          /\ Under(names, items) /\ IsRecord(record, names)
  BY DEF InvLocalStorage, AreItems
<1>4. PICK changes \in Changes : changes = call.changes
  BY <1>1, CallsAre DEF Writing
<1>5. /\ disk' = [items |-> items, names |-> names, record |-> <<>>]
      /\ isOpen' = isOpen /\ WebStorage!Returns(reply') /\ reply' = Done
  BY <1>3, LocalStorageOperators DEF WebStorage!EndSet, WebStorage!ClearRecord, WebStorage!Returns
<1>6. ASSUME NEW i \in DOMAIN record
      PROVE  /\ EntryFor(changes, record[i].target) \notin Uncloneable
             /\ EntryAt(items, record[i].target) = EntryFor(changes, record[i].target)
  <2>1. Len(record) \in Nat /\ DOMAIN record = 1 .. Len(record)
    BY <1>3 DEF IsRecord
  <2>2. n + 1 > Len(record)
    BY <1>2, <1>3 DEF WebStorage!EndSet
  <2>3. i \in 1 .. n
    BY <2>1, <2>2
  <2> QED BY <1>2, <1>3, <1>4, <2>3 DEF Written1To, Target
<1>7. Targets(changes) = {record[i].target : i \in DOMAIN record}
  BY <1>1, <1>3, <1>4 DEF Writing, Target
<1>8. ~HasUncloneable(changes)
  BY <1>6, <1>7 DEF HasUncloneable
<1>9. \A t \in Targets(changes) : t[1] \in names
  BY <1>3, <1>7 DEF IsRecord
<1>10. AreItems(disk')
  BY <1>3, <1>5, NoRecord DEF AreItems
<1>11. PICK before \in Contents, after \in Contents, result \in Contents :
           before = ShownAs(disk) /\ after = ShownAs(disk') /\ result = Written(before, changes)
  <2>1. ShownAs(disk) \in Contents /\ ShownAs(disk') \in Contents
    BY <1>10, ShownAsIsContent DEF InvLocalStorage
  <2>2. PICK before \in Contents : before = ShownAs(disk)
    BY <2>1
  <2> QED BY <1>8, <2>1, <2>2, WrittenAreContents
<1>12. DOMAIN before = names /\ DOMAIN after = names /\ DOMAIN result = names
  BY <1>3, <1>5, <1>8, <1>10, <1>11, ShownAsIsContent, WrittenAreContents DEF InvLocalStorage
<1>13. ASSUME NEW s \in names, NEW k \in Key PROVE EntryAt(after[s], k) = EntryAt(result[s], k)
  <2>1. EntryAt(after[s], k) = EntryAt(items, <<s, k>>)
    BY <1>5, <1>10, <1>11, ShownAsIsContent, NoRecord
  <2>2. EntryAt(before[s], k) = Shown(items, record, <<s, k>>)
    BY <1>3, <1>11, ShownAsIsContent DEF InvLocalStorage
  <2>3. EntryAt(result[s], k) = IF <<s, k>> \in Targets(changes) THEN EntryFor(changes, <<s, k>>)
                                ELSE EntryAt(before[s], k)
    BY <1>11, <1>12, WrittenEntries
  <2>4. PICK t : t = <<s, k>>
    OBVIOUS
  <2>5. CASE t \in Targets(changes)
    <3>1. EntryAt(items, t) = EntryFor(changes, t)
      BY <1>6, <1>7, <2>5
    <3> QED BY <2>1, <2>3, <2>4, <2>5, <3>1
  <2>6. CASE t \notin Targets(changes)
    <3>1. Shown(items, record, t) = EntryAt(items, t)
      BY <1>3, <1>7, <2>6, ShownIs
    <3> QED BY <2>1, <2>2, <2>3, <2>4, <2>6, <3>1
  <2> QED BY <2>5, <2>6
<1>14. after = result
  BY <1>12, <1>13, SameContents
<1>15. Content' = Effect(Content, call)
  BY <1>1, <1>4, <1>11, <1>14, LocalStorageContent DEF Effect, Writing
<1>16. InvCall' /\ InvLocalStorage' /\ Replies(Done)
  BY <1>5, <1>10, LocalStorageReplies DEF InvCall
<1>17. \A t \in Targets(call.changes) : t[1] \in DOMAIN Content
  BY <1>4, <1>9, <1>11, <1>12, LocalStorageContent
<1>18. CanBeCalled /\ CanBeCalled' = CanBeCalled
  BY <1>1, <1>5 DEF CanBeCalled, Writing
<1> QED BY <1>1, <1>4, <1>8, <1>15, <1>16, <1>17, <1>18, ContractWrite DEF Writing, WriteOps

LEMMA RestoreItemStep ==
    ASSUME InvCall, InvLocalStorage, medium = "LocalStorage", UNCHANGED medium, RollbackSucceeds,
           WebStorage!RestoreItem
    PROVE  InvCall' /\ InvLocalStorage' /\ KeepsTheContract
<1>1. Restoring /\ run # Idle /\ call \in Calls /\ call # NoCall
  <2>1. Restoring /\ run # Idle
    <3>1. run.at = "restore"
      BY DEF WebStorage!RestoreItem
    <3> QED BY <3>1, LocalStorageAt DEF Idle
  <2> QED BY <2>1, LocalStorageAt
<1>2. PICK n \in Nat : run = [at |-> "restore", n |-> n + 1] /\ Restored1To(n)
  BY <1>1 DEF Restoring
<1>3. PICK items \in Items, names \in SUBSET Store, record \in {disk.record} :
          /\ disk = [items |-> items, names |-> names, record |-> record]
          /\ Under(names, items) /\ IsRecord(record, names)
  BY DEF InvLocalStorage, AreItems
<1>4. PICK i \in DOMAIN record : i = n + 1
  <2>1. Len(record) \in Nat /\ DOMAIN record = 1 .. Len(record)
    BY <1>3 DEF IsRecord
  <2>2. n + 1 <= Len(record)
    BY <1>2, <1>3 DEF WebStorage!RestoreItem
  <2>3. n + 1 \in 1 .. Len(record)
    BY <2>1, <2>2
  <2> QED BY <2>1, <2>3
<1>5. PICK target \in Store \X Key, old \in Entry \cup {Null} :
          target = record[i].target /\ old = record[i].old /\ target[1] \in names
  BY <1>3 DEF IsRecord
<1>6. PICK after \in Items :
          /\ after = Put(items, target, old) /\ Under(names, after)
          /\ \A u : EntryAt(after, u) = IF u = target THEN old ELSE EntryAt(items, u)
  BY <1>3, <1>5, PutAreItems
<1>7. /\ isOpen' = isOpen /\ UNCHANGED <<call, reply>>
      /\ disk' = [items |-> after, names |-> names, record |-> record]
      /\ run' = [at |-> "restore", n |-> i + 1]
  <2>1. /\ run.n = i /\ disk.record[run.n] = record[i] /\ disk.items = items /\ disk.names = names
        /\ record[i].target[1] \in names
        /\ [disk EXCEPT !.items = after] = [items |-> after, names |-> names, record |-> record]
    BY <1>2, <1>3, <1>4, <1>5
  <2>2. WebStorage!PutBack(items, record[i]) = after
    BY <1>5, <1>6, LocalStorageOperators DEF WebStorage!PutBack
  <2> QED BY <2>1, <2>2 DEF WebStorage!RestoreItem, WebStorage!Goes, RollbackSucceeds
<1>8. AreItems(disk')
  BY <1>3, <1>6, <1>7 DEF AreItems
<1>9. Restored1To(i)'
  <2> SUFFICES ASSUME NEW j \in 1 .. i PROVE EntryAt(after, record[j].target) = record[j].old
    BY <1>7 DEF Restored1To, Target
  <2>1. CASE j = i
    BY <1>5, <1>6, <2>1
  <2>2. CASE j # i
    <3>1. j \in 1 .. n /\ j \in DOMAIN record
      <4>1. Len(record) \in Nat /\ DOMAIN record = 1 .. Len(record)
        BY <1>3 DEF IsRecord
      <4> QED BY <1>4, <2>2, <4>1
    <3>2. record[j].target # target
      BY <1>3, <1>5, <2>2, <3>1 DEF IsRecord
    <3> QED BY <1>2, <1>3, <1>6, <3>1, <3>2 DEF Restored1To, Target
  <2> QED BY <2>1, <2>2
<1>10. Restoring'
  <2>1. i \in Nat /\ i <= Len(record)
    <3>1. Len(record) \in Nat /\ DOMAIN record = 1 .. Len(record)
      BY <1>3 DEF IsRecord
    <3> QED BY <3>1
  <2> QED BY <1>1, <1>7, <1>9, <2>1 DEF Restoring
<1>11. InvCall' /\ InvLocalStorage'
  BY <1>1, <1>7, <1>8, <1>10 DEF InvCall, InvLocalStorage
<1>12. UNCHANGED Content
  <2>1. \A t : Shown(after, record, t) = Shown(items, record, t)
    <3>1. \A t : Shown(Put(items, record[i].target, old), record, t) = Shown(items, record, t)
      BY <1>3, PutUnseen
    <3> QED BY <1>5, <1>6, <3>1
  <2>2. \A s \in names : \A k \in Key : Shown(after, record, <<s, k>>) = Shown(items, record, <<s, k>>)
    BY <2>1
  <2>3. ShownAs(disk') = ShownAs(disk)
    BY <1>3, <1>7, <2>2 DEF ShownAs
  <2> QED BY <2>3, LocalStorageContent
<1> QED BY <1>7, <1>11, <1>12, ContractNothing DEF CanBeCalled

LEMMA EndRestoreStep ==
    ASSUME InvCall, InvLocalStorage, medium = "LocalStorage", UNCHANGED medium, WebStorage!EndRestore
    PROVE  InvCall' /\ InvLocalStorage' /\ KeepsTheContract
<1>1. Restoring /\ run # Idle /\ call \in Calls /\ call # NoCall
  <2>1. Restoring /\ run # Idle
    BY LocalStorageAt DEF WebStorage!EndRestore, Idle
  <2> QED BY <2>1, LocalStorageAt
<1>2. PICK n \in Nat : run = [at |-> "restore", n |-> n + 1] /\ Restored1To(n)
  BY <1>1 DEF Restoring
<1>3. PICK items \in Items, names \in SUBSET Store, record \in {disk.record} :
          /\ disk = [items |-> items, names |-> names, record |-> record]
          /\ Under(names, items) /\ IsRecord(record, names)
  BY DEF InvLocalStorage, AreItems
<1>4. /\ disk' = [items |-> items, names |-> names, record |-> <<>>]
      /\ isOpen' = TRUE /\ WebStorage!Returns(reply') /\ reply' = Error
  BY <1>1, <1>3, LocalStorageOperators
     DEF WebStorage!EndRestore, WebStorage!ClearRecord, WebStorage!Returns, Restoring
<1>5. \A i \in DOMAIN record : EntryAt(items, record[i].target) = record[i].old
  <2> SUFFICES ASSUME NEW i \in DOMAIN record PROVE EntryAt(items, record[i].target) = record[i].old
    OBVIOUS
  <2>1. Len(record) \in Nat /\ DOMAIN record = 1 .. Len(record)
    BY <1>3 DEF IsRecord
  <2>2. n + 1 > Len(record)
    BY <1>2, <1>3 DEF WebStorage!EndRestore
  <2>3. i \in 1 .. n
    BY <2>1, <2>2
  <2> QED BY <1>2, <1>3, <2>3 DEF Restored1To, Target
<1>6. AreItems(disk')
  BY <1>3, <1>4, NoRecord DEF AreItems
<1>7. UNCHANGED Content
  <2>1. ASSUME NEW t PROVE Shown(items, record, t) = EntryAt(items, t)
    <3>1. CASE \E i \in DOMAIN record : record[i].target = t
      BY <1>3, <1>5, <3>1, ShownIs
    <3>2. CASE \A i \in DOMAIN record : record[i].target # t
      BY <1>3, <3>2, ShownIs
    <3> QED BY <3>1, <3>2
  <2>2. \A s \in names : \A k \in Key : Shown(items, record, <<s, k>>) = Shown(items, <<>>, <<s, k>>)
    BY <2>1, NoRecord
  <2>3. ShownAs(disk') = ShownAs(disk)
    BY <1>3, <1>4, <2>2 DEF ShownAs
  <2> QED BY <2>3, LocalStorageContent
<1>8. InvCall' /\ InvLocalStorage' /\ Replies(Error)
  BY <1>4, <1>6, LocalStorageReplies
<1>9. CanBeCalled = TRUE /\ CanBeCalled' = TRUE
  BY <1>1, <1>4 DEF CanBeCalled, Restoring
<1> QED BY <1>1, <1>7, <1>8, <1>9, ContractReject

LEMMA StartClearingStep ==
    ASSUME InvCall, InvLocalStorage, medium = "LocalStorage", UNCHANGED medium,
           WebStorage!StartClearing
    PROVE  InvCall' /\ InvLocalStorage' /\ KeepsTheContract
<1>1. /\ call.op \in {"clearObjectStores", "deleteObjectStores", "destroy"} /\ run = Idle /\ isOpen
      /\ run' = [at |-> "clear"] /\ UNCHANGED <<isOpen, disk, call, reply>>
  BY LocalStorageOperators DEF WebStorage!StartClearing, WebStorage!Goes
<1>2. disk.record = <<>> /\ call # NoCall
  BY <1>1, LocalStorageAt, NoCallIsMade
<1>3. InvCall' /\ InvLocalStorage'
  BY <1>1, <1>2 DEF InvCall, InvLocalStorage, Clearing
<1> QED BY <1>1, <1>3, LocalStorageContent, ContractNothing DEF CanBeCalled

LEMMA ClearItemStep ==
    ASSUME InvCall, InvLocalStorage, medium = "LocalStorage", UNCHANGED medium, WebStorage!ClearItem
    PROVE  InvCall' /\ InvLocalStorage' /\ KeepsTheContract
<1>1. Clearing /\ run # Idle /\ call \in Calls /\ call # NoCall
  <2>1. Clearing /\ run # Idle
    BY LocalStorageAt DEF WebStorage!ClearItem, Idle
  <2> QED BY <2>1, LocalStorageAt
<1>2. PICK items \in Items, names \in SUBSET Store :
          disk = [items |-> items, names |-> names, record |-> <<>>] /\ Under(names, items)
  BY <1>1 DEF InvLocalStorage, AreItems, Clearing
<1>3. PICK target \in DOMAIN items :
          /\ target[1] \in WebStorage!Clears
          /\ disk' = [disk EXCEPT !.items = Put(items, target, Null)]
          /\ UNCHANGED <<isOpen, call, reply, run>>
  BY <1>2, LocalStorageOperators DEF WebStorage!ClearItem, WebStorage!ItemsOf, WebStorage!Goes
<1>4. target \in Store \X Key /\ target[1] \in names
  BY <1>2, ItemsAre DEF Under
<1>5. PICK after \in Items :
          /\ after = Put(items, target, Null) /\ Under(names, after)
          /\ \A u : EntryAt(after, u) = IF u = target THEN Null ELSE EntryAt(items, u)
  BY <1>2, <1>4, PutAreItems
<1>6. disk' = [items |-> after, names |-> names, record |-> <<>>]
  BY <1>2, <1>3, <1>5
<1>7. AreItems(disk')
  BY <1>5, <1>6, NoRecord DEF AreItems
<1>8. InvCall' /\ InvLocalStorage'
  <2>1. Clearing'
    BY <1>1, <1>3, <1>6 DEF Clearing
  <2> QED BY <1>1, <1>3, <1>7, <2>1 DEF InvCall, InvLocalStorage
<1>9. PICK a \in Contents, b \in Contents : a = ShownAs(disk') /\ b = ShownAs(disk)
  BY <1>7, ShownAsIsContent DEF InvLocalStorage
<1>10. /\ DOMAIN a = names /\ DOMAIN b = names
       /\ \A s \in names : \A k \in Key : /\ EntryAt(a[s], k) = EntryAt(after, <<s, k>>)
                                          /\ EntryAt(b[s], k) = EntryAt(items, <<s, k>>)
  BY <1>2, <1>6, <1>7, <1>9, ShownAsIsContent, NoRecord DEF InvLocalStorage
<1>11. \A s \in names : \A k \in Key : EntryAt(a[s], k) \in {EntryAt(b[s], k), Null}
  BY <1>5, <1>10
<1>12. ASSUME call.op # "destroy", NEW s \in names \ call.names PROVE a[s] = b[s]
  <2>1. target[1] \in call.names
    BY <1>3, <1>12 DEF WebStorage!Clears
  <2>2. \A k : <<s, k>> # target
    BY <1>12, <2>1
  <2>3. \A k \in Key : EntryAt(a[s], k) = EntryAt(b[s], k)
    BY <1>5, <1>10, <2>2
  <2>4. a[s] \in Rows /\ b[s] \in Rows
    BY <1>10, ContentsAre
  <2> QED BY <2>3, <2>4, SameRows
<1>13. Content = b /\ Content' = a
  BY <1>9, LocalStorageContent
<1>14. CanBeCalled /\ CanBeCalled'
  BY <1>1, <1>3 DEF CanBeCalled, Clearing
<1> QED BY <1>1, <1>3, <1>8, <1>10, <1>11, <1>12, <1>13, <1>14, ContractRemovePart
        DEF Clearing, CanBeCalled

LEMMA EndClearingStep ==
    ASSUME InvCall, InvLocalStorage, medium = "LocalStorage", UNCHANGED medium, WebStorage!EndClearing
    PROVE  InvCall' /\ InvLocalStorage' /\ KeepsTheContract
<1>1. Clearing /\ run # Idle /\ call \in Calls /\ call # NoCall
  <2>1. Clearing /\ run # Idle
    BY LocalStorageAt DEF WebStorage!EndClearing, Idle
  <2> QED BY <2>1, LocalStorageAt
<1>2. PICK items \in Items, names \in SUBSET Store :
          disk = [items |-> items, names |-> names, record |-> <<>>] /\ Under(names, items)
  BY <1>1 DEF InvLocalStorage, AreItems, Clearing
<1>3. \A t \in DOMAIN items : t[1] \notin WebStorage!Clears
  BY <1>2 DEF WebStorage!EndClearing, WebStorage!ItemsOf
<1>4. /\ WebStorage!Returns(reply')
      /\ \/ call.op = "clearObjectStores" /\ disk' = disk /\ isOpen' = isOpen /\ reply' = Done
         \/ disk' = disk /\ isOpen' = isOpen /\ reply' = Error
         \/ /\ call.op = "deleteObjectStores" /\ isOpen' = isOpen /\ reply' = Done
            /\ disk' = [items |-> items, names |-> names \ call.names, record |-> <<>>]
         \/ /\ call.op = "destroy" /\ isOpen' = FALSE /\ reply' = Done
            /\ disk' = [items |-> items, names |-> {}, record |-> <<>>]
  <2>1. \A left : [disk EXCEPT !.names = left] = [items |-> items, names |-> left, record |-> <<>>]
    BY <1>2
  <2>2. disk.names = names
    BY <1>2
  <2> QED BY <1>1, <2>1, <2>2, LocalStorageOperators
          DEF WebStorage!EndClearing, WebStorage!PutNames, WebStorage!Returns, Clearing
<1>5. CanBeCalled = TRUE /\ CanBeCalled' = isOpen' /\ isOpen' \in BOOLEAN /\ isOpen
  BY <1>1, <1>4 DEF CanBeCalled, Clearing
<1>6. PICK b \in Contents :
          /\ b = ShownAs(disk) /\ DOMAIN b = names /\ Content = b
          /\ \A s \in names : \A k \in Key : EntryAt(b[s], k) = EntryAt(items, <<s, k>>)
  BY <1>2, ShownAsIsContent, LocalStorageContent, NoRecord DEF InvLocalStorage
<1>7. CASE disk' = disk /\ isOpen' = isOpen /\ reply' = Error
  BY <1>1, <1>4, <1>7, LocalStorageRejects DEF Clearing
<1>8. CASE call.op = "clearObjectStores" /\ disk' = disk /\ isOpen' = isOpen /\ reply' = Done
  <2>1. PICK c \in Contents : c = Emptied(b, call.names) /\ DOMAIN c = names
    BY <1>6, EmptiedAreContents
  <2>2. ASSUME NEW s \in names, NEW k \in Key PROVE EntryAt(b[s], k) = EntryAt(c[s], k)
    <3>1. EntryAt(c[s], k) = IF s \in call.names THEN Null ELSE EntryAt(b[s], k)
      BY <1>6, <2>1, EmptiedEntries
    <3>2. s \in call.names => <<s, k>> \notin DOMAIN items
      BY <1>3, <1>8 DEF WebStorage!Clears
    <3>3. s \in call.names => EntryAt(b[s], k) = Null
      BY <1>6, <3>2 DEF EntryAt
    <3> QED BY <3>1, <3>3
  <2>3. b = c
    BY <1>6, <2>1, <2>2, SameContents
  <2>4. Content' = Effect(Content, call)
    BY <1>6, <1>8, <2>1, <2>3, LocalStorageContent DEF Effect
  <2>5. InvCall' /\ InvLocalStorage' /\ Replies(Done)
    BY <1>1, <1>4, <1>5, <1>8, LocalStorageReplies DEF InvLocalStorage, Clearing
  <2> QED BY <1>5, <1>8, <2>4, <2>5, ContractWrite DEF WriteOps
<1>9. CASE /\ call.op = "deleteObjectStores" /\ isOpen' = isOpen /\ reply' = Done
           /\ disk' = [items |-> items, names |-> names \ call.names, record |-> <<>>]
  <2>1. PICK left \in SUBSET Store : left = names \ call.names
    OBVIOUS
  <2>2. Under(left, items)
    BY <1>2, <1>3, <1>9, <2>1 DEF Under, WebStorage!Clears
  <2>3. AreItems(disk')
    BY <1>9, <2>1, <2>2, NoRecord DEF AreItems
  <2>4. Content' = Deleted(Content, call.names)
    <3>1. ShownAs(disk') = [s \in left |-> ShownAs(disk)[s]]
      BY <1>2, <1>9, <2>1 DEF ShownAs
    <3> QED BY <1>6, <2>1, <3>1, LocalStorageContent DEF Deleted
  <2>5. InvCall' /\ InvLocalStorage' /\ Replies(Done)
    BY <1>4, <1>5, <1>9, <2>3, LocalStorageReplies
  <2> QED BY <1>5, <1>9, <2>4, <2>5, ContractWrite DEF WriteOps, Effect
<1>10. CASE /\ call.op = "destroy" /\ isOpen' = FALSE /\ reply' = Done
            /\ disk' = [items |-> items, names |-> {}, record |-> <<>>]
  <2>1. Under({}, items)
    BY <1>2, <1>3, <1>10 DEF Under, WebStorage!Clears
  <2>2. AreItems(disk')
    BY <1>10, <2>1, NoRecord DEF AreItems
  <2>3. Content' = NoStores
    <3>1. ShownAs(disk') = NoStores
      BY <1>10 DEF ShownAs, NoStores
    <3> QED BY <3>1, LocalStorageContent
  <2>4. InvCall' /\ InvLocalStorage' /\ Replies(Done)
    BY <1>4, <1>5, <1>10, <2>2, LocalStorageReplies
  <2> QED BY <1>5, <1>10, <2>3, <2>4, ContractDestroy
<1> QED BY <1>4, <1>7, <1>8, <1>9, <1>10

LEMMA LocalStorageStep ==
    ASSUME InvCall, InvLocalStorage, medium = "LocalStorage", UNCHANGED medium, RollbackSucceeds,
           WebStorage!Step
    PROVE  InvCall' /\ InvLocalStorage' /\ KeepsTheContract
<1>1. isOpen \in BOOLEAN /\ CanBeCalled = isOpen /\ (isOpen' \in BOOLEAN => CanBeCalled' = isOpen')
  BY DEF InvCall, CanBeCalled
<1>2. disk' = disk => UNCHANGED Content /\ AreItems(disk')
  BY LocalStorageContent DEF InvLocalStorage
<1>3. ASSUME WebStorage!Open PROVE InvCall' /\ InvLocalStorage' /\ KeepsTheContract
  <2>1. /\ call.op = "open" /\ run = Idle /\ disk' = disk
        /\ \/ /\ disk.record = <<>> /\ isOpen' = TRUE
              /\ WebStorage!Returns(reply') /\ reply' = Done
           \/ disk.record # <<>> /\ isOpen
           \/ /\ disk.record # <<>> /\ ~isOpen /\ isOpen' = isOpen
              /\ WebStorage!Returns(reply') /\ reply' = Error
    BY <1>3, LocalStorageOperators DEF WebStorage!Open, WebStorage!Called, WebStorage!Returns
  <2>2. call # NoCall /\ (isOpen => disk.record = <<>>)
    BY <2>1, CallIsMade, LocalStorageAt
  <2>3. CASE /\ disk.record = <<>> /\ isOpen' = TRUE
             /\ WebStorage!Returns(reply') /\ reply' = Done
    <3>1. InvCall' /\ InvLocalStorage' /\ Replies(Done)
      BY <1>2, <2>1, <2>3, LocalStorageReplies
    <3> QED BY <1>1, <1>2, <2>1, <2>3, <3>1, ContractOpen
  <2>4. CASE /\ disk.record # <<>> /\ ~isOpen /\ isOpen' = isOpen
             /\ WebStorage!Returns(reply') /\ reply' = Error
    BY <2>1, <2>2, <2>4, LocalStorageRejects
  <2> QED BY <2>1, <2>2, <2>3, <2>4
<1>4. ASSUME WebStorage!CreateObjectStoresIfNeeded PROVE InvCall' /\ InvLocalStorage' /\ KeepsTheContract
  <2>1. /\ call.op = "createObjectStoresIfNeeded" /\ run = Idle /\ isOpen /\ isOpen' = isOpen
        /\ WebStorage!Returns(reply')
        /\ \/ disk' = [disk EXCEPT !.names = disk.names \cup call.names] /\ reply' = Done
           \/ disk' = disk /\ reply' = Error
    BY <1>4, LocalStorageOperators
       DEF WebStorage!CreateObjectStoresIfNeeded, WebStorage!Called, WebStorage!PutNames, WebStorage!Returns
  <2>2. disk.record = <<>> /\ call \in Calls /\ call # NoCall /\ call.names \in SUBSET Store
    BY <2>1, LocalStorageAt, CallIsMade, CallsAre DEF WriteOps
  <2>3. CASE disk' = disk /\ reply' = Error
    BY <2>1, <2>2, <2>3, LocalStorageRejects
  <2>4. CASE disk' = [disk EXCEPT !.names = disk.names \cup call.names] /\ reply' = Done
    <3>1. PICK items \in Items, names \in SUBSET Store :
              disk = [items |-> items, names |-> names, record |-> <<>>] /\ Under(names, items)
      BY <2>2 DEF InvLocalStorage, AreItems
    <3>2. PICK all \in SUBSET Store : all = names \cup call.names
      BY <2>2
    <3>3. disk' = [items |-> items, names |-> all, record |-> <<>>] /\ Under(all, items)
      BY <2>4, <3>1, <3>2 DEF Under
    <3>4. AreItems(disk')
      BY <3>3, NoRecord DEF AreItems
    <3>5. PICK a \in Contents, b \in Contents, c \in Contents :
              /\ a = ShownAs(disk') /\ DOMAIN a = disk'.names
              /\ b = ShownAs(disk) /\ DOMAIN b = disk.names
              /\ c = Created(b, call.names) /\ DOMAIN c = DOMAIN b \cup call.names
      <4>1. PICK b \in Contents : b = ShownAs(disk) /\ DOMAIN b = disk.names
        BY ShownAsIsContent DEF InvLocalStorage
      <4>2. PICK c \in Contents : c = Created(b, call.names) /\ DOMAIN c = DOMAIN b \cup call.names
        BY <2>2, CreatedAreContents
      <4> QED BY <3>4, <4>1, <4>2, ShownAsIsContent
    <3>6. DOMAIN a = all /\ DOMAIN b = names /\ DOMAIN c = all
      BY <3>1, <3>2, <3>3, <3>5
    <3>7. ASSUME NEW s \in all, NEW k \in Key PROVE EntryAt(a[s], k) = EntryAt(c[s], k)
      <4>1. EntryAt(a[s], k) = EntryAt(items, <<s, k>>)
        BY <3>3, <3>4, <3>5, ShownAsIsContent, NoRecord
      <4>2. EntryAt(c[s], k) = EntryAt(RowsOf(b, s), k)
        BY <3>2, <3>5, <3>6, CreatedEntries
      <4>3. EntryAt(RowsOf(b, s), k) = EntryAt(items, <<s, k>>)
        <5>1. b = StoredAs(names, items)
          BY <3>1, <3>5, ShownAsIsContent DEF InvLocalStorage
        <5> QED BY <3>1, <3>2, <5>1, RowsOfStored
      <4> QED BY <4>1, <4>2, <4>3
    <3>8. a = c
      BY <3>6, <3>7, SameContents
    <3>9. Content' = Effect(Content, call)
      BY <2>1, <3>5, <3>8, LocalStorageContent DEF Effect
    <3>10. InvCall' /\ InvLocalStorage' /\ Replies(Done)
      BY <1>1, <2>1, <2>4, <3>3, <3>4, LocalStorageReplies
    <3> QED BY <1>1, <2>1, <3>9, <3>10, ContractWrite DEF WriteOps
  <2> QED BY <2>1, <2>3, <2>4
<1>5. ASSUME WebStorage!Read PROVE InvCall' /\ InvLocalStorage' /\ KeepsTheContract
  <2>1. /\ call.op \in ReadOps /\ run = Idle /\ isOpen /\ isOpen' = isOpen /\ disk' = disk
        /\ WebStorage!Returns(reply')
        /\ reply' \in {Error, Answered(call, WebStorage!Answer(call))}
    BY <1>5, LocalStorageOperators DEF WebStorage!Read, WebStorage!Returns
  <2>2. disk.record = <<>> /\ call \in Calls /\ call # NoCall
    BY <2>1, LocalStorageAt, CallIsMade DEF ReadOps
  <2>3. CASE reply' = Error
    BY <2>1, <2>2, <2>3, LocalStorageRejects
  <2>4. CASE reply' = Answered(call, WebStorage!Answer(call))
    <3>1. WebStorage!Answer(call) = Result(Content, call)
      BY <2>1, <2>2, AnsweredFromStorage, LocalStorageContent
    <3>2. InvCall' /\ InvLocalStorage' /\ Replies(reply')
      BY <1>1, <1>2, <2>1, <2>2, LocalStorageReplies
    <3> QED BY <1>1, <1>2, <2>1, <2>4, <3>1, <3>2, ContractRead
  <2> QED BY <2>1, <2>3, <2>4
<1>6. ASSUME WebStorage!Close PROVE InvCall' /\ InvLocalStorage' /\ KeepsTheContract
  <2>1. /\ call.op = "close" /\ disk' = disk /\ isOpen' = FALSE
        /\ WebStorage!Returns(reply') /\ reply' = Done
    BY <1>6, LocalStorageOperators DEF WebStorage!Close, WebStorage!Called, WebStorage!Returns
  <2>2. InvCall' /\ InvLocalStorage' /\ Replies(Done)
    BY <1>2, <2>1, LocalStorageReplies
  <2> QED BY <1>1, <1>2, <2>1, <2>2, ContractClose
<1>7. ASSUME WebStorage!RejectClosed PROVE InvCall' /\ InvLocalStorage' /\ KeepsTheContract
  <2>1. /\ ~isOpen /\ call.op # "none" /\ UNCHANGED <<isOpen, disk>>
        /\ WebStorage!Returns(reply') /\ reply' = Error
    BY <1>7, LocalStorageOperators DEF WebStorage!RejectClosed, WebStorage!Rejected, WebStorage!Returns
  <2> QED BY <2>1, CallIsMade, LocalStorageRejects
<1> QED BY <1>3, <1>4, <1>5, <1>6, <1>7, StartClearingStep, ClearItemStep, EndClearingStep, StartSetStep,
        WriteItemStep, EndSetStep, RestoreItemStep, EndRestoreStep DEF WebStorage!Step

-----------------------------------------------------------------------------
(***************************************************************************)
(* IndexedDB.  While it changes versions, the adapter has no connection    *)
(* but can be called.                                                      *)
(***************************************************************************)
Upgrading(blocked) == [at |-> "upgrade", blocked |-> blocked]

InvIndexedDB ==
    /\ disk \in Contents
    /\ \/ run = Idle
       \/ /\ run \in {Upgrading(TRUE), Upgrading(FALSE)} /\ ~isOpen
          /\ call.op \in {"createObjectStoresIfNeeded", "deleteObjectStores"}
       \/ run = [at |-> "delete"] /\ ~isOpen /\ call.op = "destroy"
    /\ call.op = "set" => ~HasUncloneable(call.changes)

LEMMA IndexedDBOperators ==
    /\ IndexedDB!Idle = Idle /\ IndexedDB!NoCall = NoCall
    /\ IndexedDB!Done = Done /\ IndexedDB!Error = Error
    /\ IndexedDB!ReadOps = ReadOps /\ IndexedDB!NoStores = NoStores
    /\ \A c, result : IndexedDB!Answered(c, result) = Answered(c, result)
    /\ \A content, c : IndexedDB!Effect(content, c) = Effect(content, c)
    /\ \A content, names : IndexedDB!Emptied(content, names) = Emptied(content, names)
    /\ \A content, c : IndexedDB!Result(content, c) = Result(content, c)
    /\ \A changes : IndexedDB!HasUncloneable(changes) = HasUncloneable(changes)
    /\ \A content, changes :
           IndexedDB!StoredBeforeFailure(content, changes) = StoredBeforeFailure(content, changes)
<1>1. /\ IndexedDB!Idle = Idle /\ IndexedDB!NoCall = NoCall
      /\ IndexedDB!Done = Done /\ IndexedDB!Error = Error
      /\ IndexedDB!ReadOps = ReadOps /\ IndexedDB!NoStores = NoStores
  BY DEF IndexedDB!Idle, Idle, IndexedDB!NoCall, NoCall, IndexedDB!Done, Done, IndexedDB!Error, Error,
         IndexedDB!ReadOps, ReadOps, IndexedDB!NoStores, NoStores, IndexedDB!NoRows, NoRows
<1>2. \A c, result : IndexedDB!Answered(c, result) = Answered(c, result)
  BY DEF IndexedDB!Answered, Answered
<1>3. /\ \A content, c : IndexedDB!Effect(content, c) = Effect(content, c)
      /\ \A content, names : IndexedDB!Emptied(content, names) = Emptied(content, names)
  BY DEF IndexedDB!Effect, Effect, IndexedDB!Created, Created, IndexedDB!Deleted, Deleted,
         IndexedDB!Emptied, Emptied, IndexedDB!Written, Written, IndexedDB!Merged, Merged,
         IndexedDB!RowsOf, RowsOf, IndexedDB!NoRows, NoRows
<1>4. \A S : IndexedDB!InOrder(S) = InOrder(S)
  BY DEF IndexedDB!InOrder, InOrder, IndexedDB!SetToSortSeq, SetToSortSeq, IndexedDB!SetToSeq, SetToSeq,
         IndexedDB!SortSeq, SortSeq, IndexedDB!Cardinality, Cardinality, IndexedDB!IsInjective, IsInjective
<1>5. \A content, c : IndexedDB!Result(content, c) = Result(content, c)
  BY <1>4 DEF IndexedDB!Result, Result, IndexedDB!RowsOf, RowsOf, IndexedDB!EntryAt, EntryAt,
         IndexedDB!NoRows, NoRows
<1>6. \A changes : IndexedDB!HasUncloneable(changes) = HasUncloneable(changes)
  BY DEF IndexedDB!HasUncloneable, HasUncloneable, IndexedDB!EntryFor, EntryFor, IndexedDB!Targets, Targets
<1>7. \A content, changes :
          IndexedDB!StoredBeforeFailure(content, changes) = StoredBeforeFailure(content, changes)
  BY DEF IndexedDB!StoredBeforeFailure, StoredBeforeFailure, IndexedDB!Targets, Targets,
         IndexedDB!EntryFor, EntryFor, IndexedDB!SetToSeq, SetToSeq, IndexedDB!Cardinality, Cardinality,
         IndexedDB!IsInjective, IsInjective, IndexedDB!Merged, Merged
<1> QED BY <1>1, <1>2, <1>3, <1>5, <1>6, <1>7

\* An entry that is got is there, as no entry is Null.
LEMMA AnsweredFromObjectStores ==
    ASSUME disk \in Contents, NEW c \in Calls, c.op \in ReadOps
    PROVE  IndexedDB!Answer(c) = Result(disk, c)
<1>1. CASE c.op = "getObjectStoreNames"
  BY <1>1 DEF IndexedDB!Answer, Result
<1>2. CASE c.op = "has"
  <2>1. PICK got : got = [c EXCEPT !.op = "get"]
    OBVIOUS
  <2>2. got.op = "get" /\ got.keys = c.keys /\ got.store = c.store
    BY <1>2, <2>1, CallsAre
  <2>3. PICK rows \in Rows : rows = RowsOf(disk, c.store)
    BY RowsOfContents
  <2>4. \A k : EntryAt(rows, k) # Null <=> k \in DOMAIN rows
    BY <2>3, RowsAre DEF EntryAt
  <2>5. PICK answer : answer = Result(disk, got)
    OBVIOUS
  <2>6. answer = [i \in DOMAIN c.keys |-> EntryAt(rows, c.keys[i])]
    BY <2>2, <2>3, <2>5 DEF Result
  <2>7. IndexedDB!Answer(c) = [i \in DOMAIN answer |-> answer[i] # Null]
    BY <1>2, <2>1, <2>5, IndexedDBOperators DEF IndexedDB!Answer
  <2>8. Result(disk, c) = [i \in DOMAIN c.keys |-> c.keys[i] \in DOMAIN rows]
    BY <1>2, <2>3 DEF Result
  <2>9. \A i \in DOMAIN c.keys : (answer[i] # Null) = (c.keys[i] \in DOMAIN rows)
    BY <2>4, <2>6
  <2>10. DOMAIN answer = DOMAIN c.keys
    BY <2>6
  <2> QED BY <2>7, <2>8, <2>9, <2>10
<1>3. CASE c.op # "getObjectStoreNames" /\ c.op # "has"
  BY <1>3, IndexedDBOperators DEF IndexedDB!Answer
<1> QED BY <1>1, <1>2, <1>3

\* Creating stores that exist, and deleting others, changes nothing.
LEMMA NothingToDoChangesNothing ==
    ASSUME disk \in Contents, IndexedDB!NothingToDo
    PROVE  Effect(disk, call) = disk
<1>1. PICK content \in Contents : content = disk
  OBVIOUS
<1>2. content = [s \in DOMAIN content |-> content[s]]
  BY ContentsAre
<1>3. CASE call.op = "createObjectStoresIfNeeded" /\ call.names \subseteq DOMAIN content
  <2>1. DOMAIN content \cup call.names = DOMAIN content
    BY <1>3
  <2>2. Created(content, call.names) = [s \in DOMAIN content |-> content[s]]
    BY <2>1 DEF Created, RowsOf
  <2> QED BY <1>1, <1>2, <1>3, <2>2 DEF Effect
<1>4. CASE call.op = "deleteObjectStores" /\ call.names \cap DOMAIN content = {}
  <2>1. DOMAIN content \ call.names = DOMAIN content
    BY <1>4
  <2>2. Deleted(content, call.names) = [s \in DOMAIN content |-> content[s]]
    BY <2>1 DEF Deleted
  <2> QED BY <1>1, <1>2, <1>4, <2>2 DEF Effect
<1> QED BY <1>1, <1>3, <1>4 DEF IndexedDB!NothingToDo

LEMMA IndexedDBStep ==
    ASSUME InvCall, InvIndexedDB, medium = "IndexedDB", UNCHANGED medium, IndexedDB!Step
    PROVE  InvCall' /\ InvIndexedDB' /\ KeepsTheContract
<1>1. /\ Content = disk /\ Content' = disk' /\ isOpen \in BOOLEAN /\ isOpen' \in BOOLEAN
      /\ run.at # "upgrade" => CanBeCalled = isOpen
      /\ run'.at # "upgrade" => CanBeCalled' = isOpen'
      /\ run.at = "upgrade" => CanBeCalled = TRUE
      /\ run'.at = "upgrade" => CanBeCalled' = TRUE
  <2>1. isOpen \in BOOLEAN /\ isOpen' \in BOOLEAN
    BY DEF InvCall, IndexedDB!Step, IndexedDB!Open, IndexedDB!ChangeStores, IndexedDB!Blocked,
           IndexedDB!Timeout, IndexedDB!Upgrade, IndexedDB!Set, IndexedDB!ClearObjectStores,
           IndexedDB!Read, IndexedDB!Close, IndexedDB!Destroy, IndexedDB!DeleteDatabase,
           IndexedDB!RejectClosed, IndexedDB!Rejected
  <2> QED BY <2>1 DEF Content, IndexedDB!Content, CanBeCalled
<1>2. disk \in Contents /\ Idle.at # "upgrade"
  BY DEF InvIndexedDB, Idle
<1>3. run.at = "upgrade" => /\ ~isOpen
                             /\ call.op \in {"createObjectStoresIfNeeded", "deleteObjectStores"}
  <2>1. [at |-> "delete"].at # "upgrade"
    OBVIOUS
  <2> QED BY <1>2, <2>1 DEF InvIndexedDB
\* A call that is answered.
<1>4. ASSUME call # NoCall, disk' \in Contents, IndexedDB!Returns(reply')
      PROVE  InvCall' /\ InvIndexedDB' /\ Replies(reply') /\ CanBeCalled' = isOpen'
  <2>1. call' = NoCall /\ run' = Idle
    BY <1>4, IndexedDBOperators DEF IndexedDB!Returns
  <2>2. InvCall' /\ InvIndexedDB'
    BY <1>1, <1>4, <2>1, NoCallIsMade DEF InvCall, InvIndexedDB
  <2> QED BY <1>1, <1>2, <2>1, <2>2 DEF Replies
<1>5. ASSUME call # NoCall, disk' = disk, isOpen' \in {isOpen, FALSE}, run = Idle \/ ~isOpen,
             IndexedDB!Returns(reply'), reply' = Error
      PROVE  InvCall' /\ InvIndexedDB' /\ KeepsTheContract
  <2>1. InvCall' /\ InvIndexedDB' /\ Replies(Error) /\ CanBeCalled' = isOpen'
    BY <1>2, <1>4, <1>5
  <2>2. CanBeCalled' \in {CanBeCalled, FALSE}
    BY <1>1, <1>2, <1>5, <2>1
  <2> QED BY <1>1, <1>5, <2>1, <2>2, ContractReject
<1>6. ASSUME IndexedDB!Open PROVE InvCall' /\ InvIndexedDB' /\ KeepsTheContract
  <2>1. /\ call.op = "open" /\ run = Idle /\ disk' = disk /\ IndexedDB!Returns(reply')
        /\ \/ isOpen' = TRUE /\ reply' = Done
           \/ isOpen' = isOpen /\ reply' = Error
    BY <1>6, IndexedDBOperators DEF IndexedDB!Open, IndexedDB!Called, IndexedDB!Returns
  <2>2. call # NoCall
    BY <2>1, CallIsMade
  <2>3. InvCall' /\ InvIndexedDB' /\ Replies(reply') /\ CanBeCalled' = isOpen'
    BY <1>2, <1>4, <2>1, <2>2
  <2>4. CASE isOpen' = isOpen /\ reply' = Error
    BY <1>5, <2>1, <2>2, <2>4
  <2> QED BY <1>1, <2>1, <2>3, <2>4, ContractOpen
<1>7. ASSUME IndexedDB!ChangeStores PROVE InvCall' /\ InvIndexedDB' /\ KeepsTheContract
  <2>1. /\ call.op \in {"createObjectStoresIfNeeded", "deleteObjectStores"}
        /\ run = Idle /\ isOpen /\ disk' = disk
        /\ \/ /\ IndexedDB!NothingToDo /\ isOpen' = isOpen
              /\ IndexedDB!Returns(reply') /\ reply' = Done
           \/ /\ isOpen' = FALSE /\ run' = Upgrading(FALSE)
              /\ UNCHANGED <<call, reply>>
    BY <1>7, IndexedDBOperators
       DEF IndexedDB!ChangeStores, IndexedDB!Returns, IndexedDB!Goes, Upgrading
  <2>2. call # NoCall /\ CanBeCalled = TRUE
    BY <1>1, <1>2, <2>1, CallIsMade
  <2>3. CASE /\ IndexedDB!NothingToDo /\ isOpen' = isOpen
             /\ IndexedDB!Returns(reply') /\ reply' = Done
    <3>1. Content' = Effect(Content, call)
      BY <1>1, <1>2, <2>1, <2>3, NothingToDoChangesNothing
    <3>2. InvCall' /\ InvIndexedDB' /\ Replies(Done) /\ CanBeCalled' = isOpen'
      BY <1>2, <1>4, <2>1, <2>2, <2>3
    <3> QED BY <1>1, <2>1, <2>2, <2>3, <3>1, <3>2, ContractWrite DEF WriteOps
  <2>4. CASE isOpen' = FALSE /\ run' = Upgrading(FALSE) /\ UNCHANGED <<call, reply>>
    <3>1. InvCall' /\ InvIndexedDB'
      BY <1>2, <2>1, <2>2, <2>4 DEF InvCall, InvIndexedDB
    <3>2. CanBeCalled' = TRUE
      BY <1>1, <2>4 DEF Upgrading
    <3> QED BY <1>1, <2>1, <2>2, <2>4, <3>1, <3>2, ContractNothing
  <2> QED BY <2>1, <2>3, <2>4
<1>8. ASSUME IndexedDB!Blocked PROVE InvCall' /\ InvIndexedDB' /\ KeepsTheContract
  <2>1. run.at = "upgrade" /\ run' = Upgrading(TRUE) /\ UNCHANGED <<isOpen, disk, call, reply>>
    BY <1>8 DEF IndexedDB!Blocked, IndexedDB!Goes, Upgrading
  <2>2. ~isOpen /\ call.op \in {"createObjectStoresIfNeeded", "deleteObjectStores"}
    BY <1>3, <2>1
  <2>3. InvCall' /\ InvIndexedDB'
    BY <1>2, <2>1, <2>2, NoCallIsMade DEF InvCall, InvIndexedDB
  <2>4. CanBeCalled' = CanBeCalled
    BY <1>1, <2>1 DEF Upgrading
  <2> QED BY <1>1, <2>1, <2>3, <2>4, ContractNothing
<1>9. ASSUME IndexedDB!Timeout PROVE InvCall' /\ InvIndexedDB' /\ KeepsTheContract
  <2>1. /\ run.at = "upgrade" /\ isOpen' = isOpen /\ disk' = disk
        /\ IndexedDB!Returns(reply') /\ reply' = Error
    BY <1>9, IndexedDBOperators DEF IndexedDB!Timeout, IndexedDB!Returns
  <2>2. ~isOpen /\ call # NoCall
    BY <1>3, <2>1, NoCallIsMade
  <2> QED BY <1>5, <2>1, <2>2
<1>10. ASSUME IndexedDB!Upgrade PROVE InvCall' /\ InvIndexedDB' /\ KeepsTheContract
  <2>1. /\ run.at = "upgrade" /\ IndexedDB!Returns(reply')
        /\ \/ disk' = Effect(disk, call) /\ isOpen' = TRUE /\ reply' = Done
           \/ disk' = disk /\ isOpen' = isOpen /\ reply' = Error
    BY <1>10, IndexedDBOperators DEF IndexedDB!Upgrade, IndexedDB!Returns
  <2>2. ~isOpen /\ call.op \in {"createObjectStoresIfNeeded", "deleteObjectStores"}
    BY <1>3, <2>1
  <2>3. call \in Calls /\ call # NoCall
    BY <2>2, CallIsMade
  <2>4. CASE disk' = Effect(disk, call) /\ isOpen' = TRUE /\ reply' = Done
    <3>1. disk' \in Contents
      BY <1>2, <2>2, <2>3, <2>4, EffectsAreContents DEF WriteOps
    <3>2. InvCall' /\ InvIndexedDB' /\ Replies(Done) /\ CanBeCalled' = isOpen'
      BY <1>4, <2>1, <2>3, <2>4, <3>1
    <3> QED BY <1>1, <2>1, <2>2, <2>4, <3>2, ContractWrite DEF WriteOps
  <2>5. CASE disk' = disk /\ isOpen' = isOpen /\ reply' = Error
    BY <1>5, <2>1, <2>2, <2>3, <2>5
  <2> QED BY <2>1, <2>4, <2>5
<1>11. ASSUME IndexedDB!Set PROVE InvCall' /\ InvIndexedDB' /\ KeepsTheContract
  <2>1. call.op = "set" /\ run = Idle /\ isOpen /\ isOpen' = isOpen /\ IndexedDB!Returns(reply')
    BY <1>11, IndexedDBOperators DEF IndexedDB!Set, IndexedDB!Called, IndexedDB!Returns
  <2>2. /\ call \in Calls /\ call # NoCall /\ call.changes \in Changes /\ ~HasUncloneable(call.changes)
        /\ CanBeCalled = TRUE
    BY <1>1, <1>2, <2>1, CallIsMade, CallsAre DEF InvIndexedDB
  <2>3. \/ /\ DOMAIN call.changes \subseteq DOMAIN disk
           /\ disk' = StoredBeforeFailure(disk, call.changes)
           /\ reply' = Done
        \/ disk' = disk /\ reply' = Error
    BY <1>11, <2>2, IndexedDBOperators DEF IndexedDB!Set, IndexedDB!Returns
  <2>4. CASE disk' = disk /\ reply' = Error
    BY <1>5, <2>1, <2>2, <2>4
  <2>5. CASE /\ DOMAIN call.changes \subseteq DOMAIN disk
             /\ disk' = StoredBeforeFailure(disk, call.changes)
             /\ reply' = Done
    <3>1. disk' = Written(disk, call.changes) /\ disk' = Effect(disk, call)
      BY <1>2, <2>1, <2>2, <2>5, StoredIsWritten DEF Effect
    <3>2. disk' \in Contents
      BY <1>2, <2>2, <3>1, WrittenAreContents
    <3>3. \A t \in Targets(call.changes) : t[1] \in DOMAIN disk
      BY <2>2, <2>5, TargetsAre
    <3>4. InvCall' /\ InvIndexedDB' /\ Replies(Done) /\ CanBeCalled' = isOpen'
      BY <1>4, <2>1, <2>2, <2>5, <3>2
    <3> QED BY <1>1, <2>1, <2>2, <3>1, <3>3, <3>4, ContractWrite DEF WriteOps
  <2> QED BY <2>3, <2>4, <2>5
<1>12. ASSUME IndexedDB!ClearObjectStores PROVE InvCall' /\ InvIndexedDB' /\ KeepsTheContract
  <2>1. /\ call.op = "clearObjectStores" /\ run = Idle /\ isOpen /\ isOpen' = isOpen
        /\ IndexedDB!Returns(reply')
        /\ \/ disk' = Emptied(disk, call.names) /\ reply' = Done
           \/ disk' = disk /\ reply' = Error
    BY <1>12, IndexedDBOperators
       DEF IndexedDB!ClearObjectStores, IndexedDB!Called, IndexedDB!Returns
  <2>2. call \in Calls /\ call # NoCall /\ CanBeCalled = TRUE
    BY <1>1, <1>2, <2>1, CallIsMade
  <2>3. CASE disk' = disk /\ reply' = Error
    BY <1>5, <2>1, <2>2, <2>3
  <2>4. CASE disk' = Emptied(disk, call.names) /\ reply' = Done
    <3>1. disk' = Effect(disk, call)
      BY <2>1, <2>4 DEF Effect
    <3>2. disk' \in Contents
      BY <1>2, <2>1, <2>2, <3>1, EffectsAreContents DEF WriteOps
    <3>3. InvCall' /\ InvIndexedDB' /\ Replies(Done) /\ CanBeCalled' = isOpen'
      BY <1>4, <2>1, <2>2, <2>4, <3>2
    <3> QED BY <1>1, <2>1, <2>2, <3>1, <3>3, ContractWrite DEF WriteOps
  <2> QED BY <2>1, <2>3, <2>4
<1>13. ASSUME IndexedDB!Read PROVE InvCall' /\ InvIndexedDB' /\ KeepsTheContract
  <2>1. /\ call.op \in ReadOps /\ run = Idle /\ isOpen /\ isOpen' = isOpen /\ disk' = disk
        /\ IndexedDB!Returns(reply')
        /\ reply' \in {Error, Answered(call, IndexedDB!Answer(call))}
    BY <1>13, IndexedDBOperators DEF IndexedDB!Read, IndexedDB!Returns
  <2>2. call \in Calls /\ call # NoCall
    BY <2>1, CallIsMade DEF ReadOps
  <2>3. CASE reply' = Error
    BY <1>5, <2>1, <2>2, <2>3
  <2>4. CASE reply' = Answered(call, IndexedDB!Answer(call))
    <3>1. IndexedDB!Answer(call) = Result(Content, call)
      BY <1>1, <1>2, <2>1, <2>2, AnsweredFromObjectStores
    <3>2. InvCall' /\ InvIndexedDB' /\ Replies(reply') /\ CanBeCalled' = isOpen'
      BY <1>2, <1>4, <2>1, <2>2
    <3> QED BY <1>1, <1>2, <2>1, <2>4, <3>1, <3>2, ContractRead
  <2> QED BY <2>1, <2>3, <2>4
<1>14. ASSUME IndexedDB!Close PROVE InvCall' /\ InvIndexedDB' /\ KeepsTheContract
  <2>1. /\ call.op = "close" /\ disk' = disk /\ isOpen' = FALSE
        /\ IndexedDB!Returns(reply') /\ reply' = Done
    BY <1>14, IndexedDBOperators DEF IndexedDB!Close, IndexedDB!Called, IndexedDB!Returns
  <2>2. InvCall' /\ InvIndexedDB' /\ Replies(Done) /\ CanBeCalled' = isOpen'
    BY <1>2, <1>4, <2>1, CallIsMade
  <2> QED BY <1>1, <2>1, <2>2, ContractClose
<1>15. ASSUME IndexedDB!Destroy PROVE InvCall' /\ InvIndexedDB' /\ KeepsTheContract
  <2>1. /\ call.op = "destroy" /\ run = Idle /\ disk' = disk /\ isOpen' = FALSE
        /\ run' = [at |-> "delete"] /\ UNCHANGED <<call, reply>>
    BY <1>15, IndexedDBOperators DEF IndexedDB!Destroy, IndexedDB!Called, IndexedDB!Goes
  <2>2. InvCall' /\ InvIndexedDB'
    BY <1>2, <2>1, NoCallIsMade DEF InvCall, InvIndexedDB
  <2>3. CanBeCalled' = FALSE
    BY <1>1, <2>1
  <2>4. \A s \in DOMAIN Content' : \A k \in Key :
            EntryAt(Content'[s], k) \in {EntryAt(Content[s], k), Null}
    BY <1>1, <2>1
  <2> QED BY <1>1, <1>2, <2>1, <2>2, <2>3, <2>4, ContractRemovePart
<1>16. ASSUME IndexedDB!DeleteDatabase PROVE InvCall' /\ InvIndexedDB' /\ KeepsTheContract
  <2>1. /\ run.at = "delete" /\ isOpen' = isOpen /\ IndexedDB!Returns(reply')
        /\ \/ disk' = NoStores /\ reply' = Done
           \/ disk' = disk /\ reply' = Error
    BY <1>16, IndexedDBOperators DEF IndexedDB!DeleteDatabase, IndexedDB!Returns
  <2>2. ~isOpen /\ call.op = "destroy"
    BY <1>2, <2>1 DEF InvIndexedDB, Idle, Upgrading
  <2>3. call # NoCall
    BY <2>2, CallIsMade
  <2>4. CASE disk' = NoStores /\ reply' = Done
    <3>1. InvCall' /\ InvIndexedDB' /\ Replies(Done) /\ CanBeCalled' = isOpen'
      BY <1>4, <2>1, <2>3, <2>4, NoStoresAreContents
    <3> QED BY <1>1, <2>1, <2>2, <2>4, <3>1, ContractDestroy
  <2>5. CASE disk' = disk /\ reply' = Error
    BY <1>5, <2>1, <2>2, <2>3, <2>5
  <2> QED BY <2>1, <2>4, <2>5
<1>17. ASSUME IndexedDB!RejectClosed PROVE InvCall' /\ InvIndexedDB' /\ KeepsTheContract
  <2>1. /\ call.op # "none" /\ run = Idle /\ IndexedDB!Returns(reply') /\ reply' = Error
        /\ UNCHANGED <<isOpen, disk>>
    BY <1>17, IndexedDBOperators DEF IndexedDB!RejectClosed, IndexedDB!Rejected, IndexedDB!Returns
  <2>2. call # NoCall
    BY <2>1, CallIsMade
  <2> QED BY <1>5, <2>1, <2>2
<1> QED BY <1>6, <1>7, <1>8, <1>9, <1>10, <1>11, <1>12, <1>13, <1>14, <1>15, <1>16, <1>17
        DEF IndexedDB!Step

\* What other tabs and the engine do meanwhile changes nothing an adapter
\* shows.
LEMMA IndexedDBEnvironment ==
    ASSUME InvCall, InvIndexedDB, medium = "IndexedDB", UNCHANGED medium, IndexedDB!Environment
    PROVE  InvCall' /\ InvIndexedDB' /\ KeepsTheContract
<1>1. UNCHANGED <<isOpen, disk, call, reply, run>>
  BY DEF IndexedDB!Environment, IndexedDB!AbortLateUpgrade, IndexedDB!OtherTab
<1>2. InvCall' /\ InvIndexedDB'
  BY <1>1 DEF InvCall, InvIndexedDB
<1>3. UNCHANGED <<CanBeCalled, Content>>
  BY <1>1 DEF CanBeCalled, Content, IndexedDB!Content
<1> QED BY <1>1, <1>2, <1>3, ContractNothing

-----------------------------------------------------------------------------
(***************************************************************************)
(* Every medium.  The inductive invariant is that of the medium in use.    *)
(***************************************************************************)
Inv ==
    /\ InvCall
    /\ medium = "InMemory" => InvInMemory
    /\ medium = "LocalStorage" => InvLocalStorage
    /\ medium = "LevelDB" => InvLevelDB
    /\ medium = "SQLite" => InvSQLite
    /\ medium = "WebSQL" => InvWebSQL
    /\ medium = "IndexedDB" => InvIndexedDB

LEMMA MediumIs ==
    ASSUME Inv
    PROVE  medium \in {"InMemory", "LocalStorage", "LevelDB", "SQLite", "WebSQL", "IndexedDB"}
  BY MediumAssumption DEF Inv, InvCall

LEMMA ContentIsOnDisk ==
    ASSUME Inv
    PROVE  Content \in Contents /\ (UNCHANGED <<medium, disk>> => Content' = Content)
<1>1. CASE medium \in {"InMemory", "SQLite", "WebSQL", "IndexedDB"}
  <2>1. Content = disk /\ (medium' = medium => Content' = disk') /\ disk \in Contents
    BY <1>1 DEF Inv, Content, InMemory!Content, SQLite!Content, WebSQL!Content, IndexedDB!Content,
                InvInMemory, InvSQLite, InvWebSQL, InvIndexedDB
  <2> QED BY <2>1
<1>2. CASE medium = "LevelDB"
  BY <1>2, LevelDBContent DEF Inv
<1>3. CASE medium = "LocalStorage"
  <2>1. Content = ShownAs(disk) /\ (medium' = medium => Content' = ShownAs(disk'))
    BY <1>3, LocalStorageContent
  <2>2. ShownAs(disk) \in Contents
    BY <1>3, ShownAsIsContent DEF Inv, InvLocalStorage
  <2> QED BY <2>1, <2>2
<1> QED BY <1>1, <1>2, <1>3, MediumIs

LEMMA InitInv == Init => Inv /\ Adapter!Init
<1> SUFFICES ASSUME Init PROVE Inv /\ Adapter!Init
  OBVIOUS
<1>1. /\ medium \in Medium /\ isOpen = FALSE /\ call = NoCall /\ reply = Null /\ run = Idle
      /\ medium \in {"InMemory", "LocalStorage", "LevelDB", "SQLite", "WebSQL", "IndexedDB"}
  BY MediumAssumption DEF Init
<1>2. InvCall
  BY <1>1 DEF InvCall
<1>3. CanBeCalled = FALSE
  BY <1>1 DEF CanBeCalled, Idle
<1>4. [t \in {} |-> Null] \in Items
  <2>1. [t \in {} |-> Null] \in [{} -> Entry]
    OBVIOUS
  <2>2. {} \in SUBSET (Store \X Key)
    OBVIOUS
  <2> QED BY <2>1, <2>2 DEF Items
<1>5. CASE medium \in {"InMemory", "SQLite", "WebSQL", "IndexedDB"}
  <2>1. disk = NoStores /\ Content = disk
    BY <1>5 DEF Init, InMemory!Init, SQLite!Init, WebSQL!Init, IndexedDB!Init,
                Content, InMemory!Content, SQLite!Content, WebSQL!Content, IndexedDB!Content,
                InMemory!NoStores, SQLite!NoStores, WebSQL!NoStores, IndexedDB!NoStores,
                InMemory!NoRows, SQLite!NoRows, WebSQL!NoRows, IndexedDB!NoRows, NoStores, NoRows
  <2>2. medium = "SQLite" => conn = Null
    BY DEF Init, SQLite!Init
  <2>3. disk \in Contents
    BY <2>1, NoStoresAreContents
  <2>4. Inv
    BY <1>1, <1>2, <1>5, <2>2, <2>3, NoCallIsMade
       DEF Inv, InvInMemory, InvSQLite, InvWebSQL, InvIndexedDB
  <2> QED BY <1>1, <1>3, <2>1, <2>4, ContractOperators DEF Adapter!Init, CanBeCalled
<1>6. CASE medium = "LevelDB"
  <2>1. disk = [items |-> [t \in {} |-> Null], names |-> {}]
    BY <1>6 DEF Init, LevelDB!Init
  <2>2. Under(disk.names, disk.items) /\ disk \in [items : Items, names : SUBSET Store]
    BY <1>4, <2>1 DEF Under
  <2>3. run = Idle /\ Idle.at = "idle"
    BY <1>1 DEF Idle
  <2>4. Inv
    BY <1>2, <1>6, <2>2, <2>3 DEF Inv, InvLevelDB
  <2>5. Content = NoStores
    <3>1. Content = StoredAs({}, disk.items)
      BY <1>6, <2>1, LevelDBOperators DEF Content, LevelDB!Content, LevelDB!GetRawValue, StoredAs
    <3> QED BY <3>1 DEF StoredAs, NoStores
  <2> QED BY <1>1, <1>3, <2>4, <2>5, ContractOperators DEF Adapter!Init, CanBeCalled
<1>7. CASE medium = "LocalStorage"
  <2>1. disk = [items |-> [t \in {} |-> Null], names |-> {}, record |-> <<>>]
    BY <1>7 DEF Init, WebStorage!Init
  <2>2. AreItems(disk)
    BY <1>4, <2>1, NoRecord DEF AreItems, Under
  <2>3. Inv
    BY <1>1, <1>2, <1>7, <2>2 DEF Inv, InvLocalStorage
  <2>4. Content = NoStores
    <3>1. Content = ShownAs(disk)
      BY <1>7, LocalStorageOperators
         DEF Content, WebStorage!Content, ShownAs, WebStorage!Restored, Shown, WebStorage!Recorded, RecordedAs
    <3> QED BY <2>1, <3>1 DEF ShownAs, NoStores
  <2> QED BY <1>1, <1>3, <2>3, <2>4, ContractOperators DEF Adapter!Init, CanBeCalled
<1> QED BY <1>1, <1>5, <1>6, <1>7

LEMMA CallStep ==
    ASSUME Inv, Call
    PROVE  Inv' /\ KeepsTheContract
<1>1. /\ call = NoCall /\ run = Idle /\ run' = Idle /\ reply' = Null
      /\ UNCHANGED <<medium, isOpen, disk, conn>>
  BY DEF Call, Inv, InvCall
<1>2. PICK c \in Calls : KeepsContract(c) /\ call' = c
  BY DEF Call
<1>3. UNCHANGED CanBeCalled
  BY <1>1 DEF CanBeCalled
<1>4. UNCHANGED Content
  BY <1>1, ContentIsOnDisk
<1>5. InvCall'
  BY <1>1, <1>2 DEF Inv, InvCall
<1>6. ASSUME medium = "InMemory" PROVE Inv'
  BY <1>1, <1>2, <1>5, <1>6 DEF Inv, InvInMemory, KeepsContract
<1>7. ASSUME medium = "LocalStorage" PROVE Inv'
  BY <1>1, <1>5, <1>7, LocalStorageAt DEF Inv, InvLocalStorage
<1>8. ASSUME medium = "LevelDB" PROVE Inv'
  <2>1. Idle.at = "idle"
    BY DEF Idle
  <2> QED BY <1>1, <1>5, <1>8, <2>1 DEF Inv, InvLevelDB
<1>9. ASSUME medium = "SQLite" PROVE Inv'
  <2>1. conn = Null /\ disk \in Contents
    <3>1. call.op = "none"
      BY <1>1, NoCallIsMade
    <3>2. ~Running /\ call.op # "destroy"
      BY <3>1 DEF Running, SQLWrites, WriteOps
    <3> QED BY <1>9, <3>2 DEF Inv, InvSQLite
  <2>2. c.op = "set" => DOMAIN c.changes \subseteq DOMAIN disk
    BY <1>2, <1>9 DEF KeepsContract, Content, SQLite!Content
  <2> QED BY <1>1, <1>2, <1>5, <1>9, <2>1, <2>2 DEF Inv, InvSQLite
<1>10. ASSUME medium = "WebSQL" PROVE Inv'
  BY <1>1, <1>5, <1>10 DEF Inv, InvWebSQL
<1>11. ASSUME medium = "IndexedDB" PROVE Inv'
  BY <1>1, <1>2, <1>5, <1>11 DEF Inv, InvIndexedDB, KeepsContract
<1>12. Inv'
  BY <1>6, <1>7, <1>8, <1>9, <1>10, <1>11, MediumIs
<1> QED BY <1>1, <1>2, <1>3, <1>4, <1>12, ContractCall

LEMMA CrashStep ==
    ASSUME Inv, Crash
    PROVE  Inv' /\ KeepsTheContract
<1>1. /\ medium # "InMemory" /\ medium' = medium
      /\ isOpen' = FALSE /\ call' = NoCall /\ run' = Idle /\ UNCHANGED <<disk, reply>>
      /\ medium = "SQLite" => conn' = Null
  BY LocalStorageOperators, LevelDBOperators, SQLiteOperators, WebSQLOperators, IndexedDBOperators
     DEF Crash, WebStorage!Crash, LevelDB!Crash, SQLite!Crash, WebSQL!Crash, IndexedDB!Crash,
         WebStorage!StopsAt, LevelDB!StopsAt, SQLite!StopsAt, WebSQL!StopsAt, IndexedDB!StopsAt
<1>2. InvCall'
  BY <1>1 DEF Inv, InvCall
<1>3. CanBeCalled' = FALSE
  BY <1>1 DEF CanBeCalled, Idle
<1>4. UNCHANGED Content
  BY <1>1, ContentIsOnDisk
<1>5. ASSUME medium = "LocalStorage" PROVE Inv'
  BY <1>1, <1>2, <1>5 DEF Inv, InvLocalStorage
<1>6. ASSUME medium = "LevelDB" PROVE Inv'
  <2>1. Idle.at = "idle"
    BY DEF Idle
  <2> QED BY <1>1, <1>2, <1>6, <2>1 DEF Inv, InvLevelDB
<1>7. ASSUME medium \in {"SQLite", "WebSQL", "IndexedDB"} PROVE Inv'
  BY <1>1, <1>2, <1>7, NoCallIsMade DEF Inv, InvSQLite, InvWebSQL, InvIndexedDB
<1>8. Inv'
  BY <1>1, <1>5, <1>6, <1>7, MediumIs
<1> QED BY <1>1, <1>3, <1>4, <1>8, ContractCrash

LEMMA ServeStep ==
    ASSUME Inv, Serve, RollbackSucceeds, StatementsSucceed
    PROVE  Inv' /\ KeepsTheContract
<1>1. medium' = medium
  BY DEF Serve
<1>2. CASE medium = "InMemory" /\ InMemory!Step
  BY <1>1, <1>2, InMemoryStep DEF Inv
<1>3. CASE medium = "LocalStorage" /\ WebStorage!Step
  BY <1>1, <1>3, LocalStorageStep DEF Inv
<1>4. CASE medium = "LevelDB" /\ LevelDB!Step
  BY <1>1, <1>4, LevelDBStep DEF Inv
<1>5. CASE medium = "SQLite" /\ SQLite!Step
  BY <1>1, <1>5, SQLiteStep DEF Inv
<1>6. CASE medium = "WebSQL" /\ WebSQL!Step
  BY <1>1, <1>6, WebSQLStep DEF Inv
<1>7. CASE medium = "IndexedDB" /\ IndexedDB!Step
  BY <1>1, <1>7, IndexedDBStep DEF Inv
<1> QED BY <1>2, <1>3, <1>4, <1>5, <1>6, <1>7 DEF Serve

LEMMA NoStep ==
    ASSUME Inv, UNCHANGED mediaVars
    PROVE  Inv' /\ KeepsTheContract
<1>1. UNCHANGED <<medium, isOpen, disk, conn, call, reply, run>>
  BY DEF mediaVars, vars
<1>2. InvCall' = InvCall
  BY <1>1 DEF InvCall
<1>3. InvInMemory' = InvInMemory /\ InvLevelDB' = InvLevelDB
  BY <1>1 DEF InvInMemory, InvLevelDB
<1>4. InvSQLite' = InvSQLite /\ InvWebSQL' = InvWebSQL /\ InvIndexedDB' = InvIndexedDB
  BY <1>1 DEF InvSQLite, Running, InvWebSQL, InvIndexedDB
<1>5. InvLocalStorage' = InvLocalStorage
  BY <1>1 DEF InvLocalStorage, Writing, Restoring, Clearing, Written1To, Restored1To, Target
<1>6. Inv'
  BY <1>1, <1>2, <1>3, <1>4, <1>5 DEF Inv
<1>7. UNCHANGED CanBeCalled
  BY <1>1 DEF CanBeCalled
<1>8. UNCHANGED Content
  BY <1>1, ContentIsOnDisk
<1> QED BY <1>1, <1>6, <1>7, <1>8, ContractNothing

LEMMA NextInv ==
    ASSUME Inv, [Next]_mediaVars, RollbackSucceeds, StatementsSucceed
    PROVE  Inv' /\ KeepsTheContract
<1>1. CASE Environment
  <2>1. medium = "IndexedDB" /\ medium' = medium /\ IndexedDB!Environment
    BY <1>1 DEF Environment
  <2>2. InvCall' /\ InvIndexedDB' /\ KeepsTheContract
    BY <2>1, IndexedDBEnvironment DEF Inv
  <2> QED BY <2>1, <2>2 DEF Inv
<1> QED BY <1>1, CallStep, ServeStep, CrashStep, NoStep DEF Next

\* The two failures that no adapter recovers from are those that the run
\* about StorageMedia excludes: a SQL statement that fails after BEGIN, and a
\* rollback of web storage that fails.
LEMMA AlwaysInv ==
    ASSUME RollbackSucceeds, StatementsSucceed
    PROVE  Spec => []Inv
<1>1. Inv /\ [Next]_mediaVars => Inv'
  BY NextInv
<1> QED BY <1>1, InitInv, PTL DEF Spec

\* The type invariant.  What a database contains is always object stores of
\* entries that can be stored, whichever medium lays it out, in the middle of a
\* transaction and after a crash too (the Content of each adapter,
\* src/src/DB/LocalDB/Storage Adapters).
THEOREM TypeCorrect ==
    ASSUME RollbackSucceeds, StatementsSucceed
    PROVE  Spec => []TypeOK
<1>1. ASSUME Inv PROVE TypeOK
  <2>1. Content \in Contents
    BY <1>1, ContentIsOnDisk
  <2> QED BY <1>1, <2>1 DEF TypeOK, Inv, InvCall
<1> QED BY <1>1, AlwaysInv, PTL

\* Between calls nothing is left over: an open LocalStorage adapter has no
\* rollback record (WebStorageAdapter.set removes it), and SQLite no open
\* transaction (NodeSQLiteAdapter.executeTransaction commits it).
THEOREM NothingIsLeftOver ==
    ASSUME RollbackSucceeds, StatementsSucceed
    PROVE  Spec => []NothingLeftOver
<1>1. ASSUME Inv, call = NoCall PROVE NothingLeftOver
  <2>1. run = Idle /\ call.op = "none"
    BY <1>1, NoCallIsMade DEF Inv, InvCall
  <2>2. medium = "LocalStorage" /\ isOpen => disk.record = <<>>
    BY <1>1, <2>1, LocalStorageAt DEF Inv
  <2>3. medium = "SQLite" => conn = Null
    <3>1. ~Running /\ call.op # "destroy"
      BY <2>1 DEF Running, SQLWrites, WriteOps
    <3> QED BY <1>1, <3>1 DEF Inv, InvSQLite
  <2> QED BY <2>1, <2>2, <2>3 DEF NothingLeftOver
<1>2. Inv => NothingLeftOver
  BY <1>1 DEF NothingLeftOver
<1> QED BY <1>2, AlwaysInv, PTL

\* Whatever the medium, the adapter serves its calls as the contract of a
\* storage adapter says (StorageAdapter.ts, as LocalDBOperations relies on it):
\* every step of every adapter, each statement of a transaction, each item of
\* a rollback, a crash between any two of them, is a step of the contract or
\* changes nothing it speaks of.
THEOREM ImplementsContract ==
    ASSUME RollbackSucceeds, StatementsSucceed
    PROVE  Spec => ImplementsStorageAdapter
<1>1. Init => Adapter!Init
  BY InitInv
<1>2. Inv /\ [Next]_mediaVars => [Adapter!Next]_(Adapter!vars)
  BY NextInv DEF KeepsTheContract
<1> QED BY <1>1, <1>2, AlwaysInv, PTL DEF Spec, ImplementsStorageAdapter, Adapter!Spec
=============================================================================
