---------------------- MODULE LocalDBTransaction_proofs ----------------------
(***************************************************************************)
(* A transaction, whatever its operations, is one step of the store as     *)
(* LocalDBOperations has it: what is proved there of databases to which    *)
(* assignable sets of leaves are written holds of transactions.  And it    *)
(* does what its operations mean.                                          *)
(***************************************************************************)
EXTENDS LocalDBTransaction, LocalDBOperations_proofs, WellFoundedInduction, FiniteSetTheorems

(***************************************************************************)
(* Numbers, sequences of values, and the last index kept.                  *)
(***************************************************************************)
\* Induction, as the provers here can use it.
LEMMA LeastNumber ==
    ASSUME NEW T \in SUBSET Nat, T # {}
    PROVE  \E m \in T : \A t \in T : m <= t
<1> DEFINE less == OpToRel(<, Nat)
<1>1. PICK m \in T : \A t \in T : <<t, m>> \notin less
  <2> HIDE DEF less
  <2>1. IsWellFoundedOn(less, Nat)
    BY NatLessThanWellFounded DEF less
  <2> QED BY <2>1, WFMin
<1>2. \A t \in T : ~(t < m)
  BY <1>1 DEF OpToRel
<1> QED BY <1>2

\* The greatest of some indices.
LEMMA MaxOfIndices ==
    ASSUME NEW n \in Nat, NEW S \in SUBSET (1 .. n), S # {}
    PROVE  Max(S) \in S /\ \A j \in S : j <= Max(S)
<1> DEFINE T == {n - i : i \in S}
<1>1. \A i \in S : i \in Int /\ n - i \in Nat
  OBVIOUS
<1>2. T \subseteq Nat
  BY <1>1
<1>3. T # {}
  <2>1. PICK i \in S : TRUE
    OBVIOUS
  <2>2. n - i \in T
    BY <2>1
  <2> QED BY <2>2
<1>4. PICK m \in T : \A t \in T : m <= t
  <2> HIDE DEF T
  <2> QED BY <1>2, <1>3, LeastNumber
<1>5. PICK i \in S : m = n - i
  BY <1>4
<1>6. \A j \in S : j <= i
  <2> SUFFICES ASSUME NEW j \in S PROVE j <= i
    OBVIOUS
  <2>1. n - i <= n - j
    BY <1>4, <1>5
  <2>2. i \in Int /\ j \in Int
    BY <1>1
  <2> HIDE DEF T
  <2> QED BY <2>1, <2>2
<1>7. i \in S /\ \A j \in S : i >= j
  BY <1>1, <1>6
<1>8. Max(S) \in S /\ \A j \in S : Max(S) >= j
  <2> HIDE DEF T
  <2> QED BY <1>7 DEF Max
<1> QED BY <1>1, <1>8

LEMMA LastOf ==
    ASSUME NEW S, NEW s \in Seq(S), s # <<>>
    PROVE  Last(s) \in S /\ Front(s) \in Seq(S)
<1>1. Len(s) \in Nat \ {0}
  OBVIOUS
<1> QED BY <1>1 DEF Last, Front

LEMMA AppendOf ==
    ASSUME NEW S, NEW s \in Seq(S), NEW e \in S
    PROVE  Append(s, e) \in Seq(S) /\ Append(s, e) # <<>>
<1>1. Append(s, e) \in Seq(S) /\ Len(Append(s, e)) = Len(s) + 1 /\ Len(s) \in Nat
  OBVIOUS
<1>2. Len(<<>>) = 0
  OBVIOUS
<1> QED BY <1>1, <1>2

-----------------------------------------------------------------------------

(***************************************************************************)
(* The inductive invariant: the leaves written so far share no heritage    *)
(* with each other nor with the lookup.  Only a put adds a leaf, and it    *)
(* asks both; updates and deletions write leaves that were found in one or *)
(* the other.                                                              *)
(***************************************************************************)
WritesShareNoHeritage == running => HeritageFree(lookup \cup Own)

TypeOKTx ==
    /\ running \in BOOLEAN
    /\ operations \in 0 .. MaxOps
    /\ written \in [Key -> Seq(Data)]
    /\ expected \in [Key -> Data]

InvTx == InvStore /\ TypeOKTx /\ WritesShareNoHeritage

LEMMA NothingWrittenYet ==
    /\ 0 \in 0 .. MaxOps
    /\ NoneWritten \in [Key -> Seq(Data)]
    /\ [k \in Key |-> Undefined] \in [Key -> Data]
<1>1. <<>> \in Seq(Data)
  OBVIOUS
<1>2. 0 \in 0 .. MaxOps
  BY MaxOpsAssumption
<1>3. NoneWritten \in [Key -> Seq(Data)]
  BY <1>1 DEF NoneWritten
<1>4. [k \in Key |-> Undefined] \in [Key -> Data]
  BY DEF Data
<1> QED BY <1>2, <1>3, <1>4

LEMMA EmptyTx ==
    ASSUME running' = FALSE, operations' = 0, written' = NoneWritten,
           expected' = [k \in Key |-> Undefined]
    PROVE  TypeOKTx' /\ WritesShareNoHeritage'
<1>1. WritesShareNoHeritage'
  BY DEF WritesShareNoHeritage
<1>2. TypeOKTx'
  BY NothingWrittenYet DEF TypeOKTx
<1> QED BY <1>1, <1>2

LEMMA InitInv == Init => InvTx
<1> SUFFICES ASSUME Init PROVE InvTx
  OBVIOUS
<1>1. InvStore
  BY InitStoreInv DEF Init
<1>2. TypeOKTx
  BY NothingWrittenYet DEF Init, TypeOKTx
<1>3. WritesShareNoHeritage
  BY DEF Init, WritesShareNoHeritage
<1> QED BY <1>1, <1>2, <1>3 DEF InvTx

LEMMA ViewType == ASSUME TypeOKStore, NEW k \in Key PROVE View(k) \in Data
  BY DEF TypeOKStore, View, LocalEntry, RemoteEntry, Data

LEMMA BeginInv == ASSUME InvTx, Begin PROVE InvTx'
<1>1. InvStore'
  BY InvStoreUnchanged DEF InvTx, Begin
<1>2. TypeOKTx'
  BY ViewType, MaxOpsAssumption DEF InvTx, InvStore, TypeOKTx, Begin, NoneWritten
<1>3. WritesShareNoHeritage'
  <2>1. Own' = {} /\ lookup' = lookup
    BY DEF Begin, Own, NoneWritten, storeVars
  <2> QED BY <2>1 DEF WritesShareNoHeritage, InvTx, InvStore, LeavesNeverNest
<1> QED BY <1>1, <1>2, <1>3 DEF InvTx

\* What all operations of a transaction share: the store stays, and nothing is
\* written beyond the leaves known already and those that share no heritage with
\* them.
LEMMA OperationInv ==
    ASSUME InvTx, NextOperation,
           written' \in [Key -> Seq(Data)], expected' \in [Key -> Data],
           HeritageFree(lookup \cup Own')
    PROVE  InvTx'
<1>1. UNCHANGED storeVars /\ running' = running /\ operations' \in 0 .. MaxOps
  BY MaxOpsAssumption DEF NextOperation, InvTx, TypeOKTx
<1>2. InvStore'
  BY <1>1, InvStoreUnchanged DEF InvTx
<1> QED BY <1>1, <1>2 DEF InvTx, TypeOKTx, WritesShareNoHeritage, storeVars

LEMMA HeritageFreeSubset ==
    ASSUME NEW S, NEW T \in SUBSET S, HeritageFree(S)
    PROVE  HeritageFree(T)
  BY DEF HeritageFree

LEMMA WriteType ==
    ASSUME TypeOKTx, NEW k \in Key, NEW x \in Data, Write(k, x)
    PROVE  written' \in [Key -> Seq(Data)] /\ Own' = Own \cup {k}
<1>1. /\ written' = [written EXCEPT ![k] = Append(written[k], x)]
      /\ written \in [Key -> Seq(Data)]
  BY DEF Write, TypeOKTx
<1>2. Append(written[k], x) \in Seq(Data) /\ Append(written[k], x) # <<>>
  BY <1>1, AppendOf
<1> QED BY <1>1, <1>2 DEF Own

LEMMA PutInv ==
    ASSUME InvTx, NEW p \in Key, NEW x \in NewValues[p] \cup {Undefined}, Put(p, x)
    PROVE  InvTx'
<1>1. x \in Data
  BY NewValuesAssumption DEF Data
<1>2. written' \in [Key -> Seq(Data)] /\ Own' = Own \cup {p}
  BY <1>1, WriteType DEF Put, InvTx
<1>3. expected' \in [Key -> Data]
  BY <1>1 DEF Put, InvTx, TypeOKTx
<1>4. HeritageFree(lookup \cup Own')
  <2>1. HeritageFree(lookup \cup Own)
    BY DEF Put, NextOperation, InvTx, WritesShareNoHeritage
  <2>2. CASE p \in Own
    BY <1>2, <2>1, <2>2 DEF HeritageFree
  <2>3. CASE p \notin Own
    <3>1. ~SharesHeritage(Own, p) /\ ~SharesHeritage(lookup, p)
      BY <2>3 DEF Put, PutThrows
    <3>2. lookup \in SUBSET Key /\ Own \in SUBSET Key
      BY DEF InvTx, InvStore, TypeOKStore, Own
    <3> QED BY <1>2, <2>1, <3>1, <3>2, HeritageAssumption DEF HeritageFree, SharesHeritage, Related
  <2> QED BY <2>2, <2>3
<1> QED BY <1>2, <1>3, <1>4, OperationInv DEF Put

LEMMA MeansType ==
    ASSUME InvTx, NEW p \in EntityPath, NEW x \in NewValues[p] \cup {Undefined}, Means(p, x)
    PROVE  expected' \in [Key -> Data]
<1> SUFFICES ASSUME NEW k \in Key
             PROVE  (IF k \in Above(lookup \cup Own, p) THEN Patch(expected[k], Relative(p, k), x)
                     ELSE IF k \in Below(lookup \cup Own, p) THEN ValueAt(x, Relative(k, p))
                     ELSE IF k = p /\ k \in lookup \cup Own THEN x
                     ELSE expected[k]) \in Data
  BY DEF Means
<1>1. expected[k] \in Data
  BY DEF InvTx, TypeOKTx
<1>2. CASE IsStrictPrefix(k, p)
  BY <1>1, <1>2, ClosureAssumption DEF Above, Below
<1>3. k = p => x \in Data
  BY NewValuesAssumption DEF Data
<1>4. k \in Below(lookup \cup Own, p) => ValueAt(x, Relative(k, p)) \in Data
  BY ClosureAssumption DEF Below
<1>5. k \in Above(lookup \cup Own, p) => IsStrictPrefix(k, p)
  BY DEF Above
<1> HIDE DEF Above, Below
<1> QED BY <1>1, <1>2, <1>3, <1>4, <1>5, ClosureAssumption

\* An update or a deletion writes leaves of the database or of the transaction.
LEMMA UpdateWrites ==
    ASSUME InvTx, NEW p \in EntityPath, NEW x \in NewValues[p] \cup {Undefined}, Update(p, x)
    PROVE  written' \in [Key -> Seq(Data)] /\ Own' \subseteq lookup \cup Own
<1>1. TypeOKTx /\ TypeOKStore /\ lookup \in SUBSET Key /\ Own \in SUBSET Key
  BY DEF InvTx, InvStore, TypeOKStore, Own
<1>2. CASE UpdateOwnLeaf(p, x)
  <2>1. p \in Key /\ p \in Own /\ x \in Data
    BY <1>1, <1>2, NewValuesAssumption DEF UpdateOwnLeaf, Data
  <2> QED BY <1>1, <1>2, <2>1, WriteType DEF UpdateOwnLeaf
<1>3. CASE UpdateInOwnLeaf(p, x)
  <2> PICK k \in Above(Own, p) :
        LET patched == Patch(OwnValue(k), Relative(p, k), x)
        IN  IF ValueAt(OwnValue(k), Relative(p, k)) = x
            THEN UNCHANGED written
            ELSE IF IsObject(OwnValue(k))
                 THEN written' = [written EXCEPT ![k] = Append(Front(@), patched)]
                 ELSE Write(k, patched)
    BY <1>3 DEF UpdateInOwnLeaf
  <2> DEFINE patched == Patch(OwnValue(k), Relative(p, k), x)
  <2>1. k \in Own /\ k \in Key /\ IsStrictPrefix(k, p)
    BY <1>1 DEF Above
  <2>2. written[k] \in Seq(Data) /\ written[k] # <<>> /\ written \in [Key -> Seq(Data)]
    BY <1>1, <2>1 DEF TypeOKTx, Own
  <2>3. OwnValue(k) \in Data /\ Front(written[k]) \in Seq(Data)
    BY <2>2, LastOf DEF OwnValue
  <2>4. patched \in Data
    BY <2>1, <2>3, ClosureAssumption
  <2>5. \/ UNCHANGED written
        \/ written' = [written EXCEPT ![k] = Append(Front(written[k]), patched)]
        \/ Write(k, patched)
    OBVIOUS
  <2> HIDE DEF patched
  <2>6. CASE UNCHANGED written
    BY <2>2, <2>6 DEF Own
  <2>7. CASE written' = [written EXCEPT ![k] = Append(Front(written[k]), patched)]
    <3>1. Append(Front(written[k]), patched) \in Seq(Data) /\ Append(Front(written[k]), patched) # <<>>
      BY <2>3, <2>4, AppendOf
    <3> QED BY <2>1, <2>2, <2>7, <3>1 DEF Own
  <2>8. CASE Write(k, patched)
    BY <1>1, <2>1, <2>4, <2>8, WriteType
  <2> QED BY <2>5, <2>6, <2>7, <2>8
<1>4. CASE UpdateLeaf(p, x)
  <2>1. p \in Key /\ p \in lookup /\ x \in Data
    BY <1>1, <1>4, NewValuesAssumption DEF UpdateLeaf, Data
  <2>2. CASE UNCHANGED written
    BY <1>1, <2>2 DEF Own, TypeOKTx
  <2>3. CASE Write(p, x)
    BY <1>1, <2>1, <2>3, WriteType
  <2> QED BY <1>4, <2>2, <2>3 DEF UpdateLeaf
<1>5. CASE UpdateInLeaf(p, x)
  <2> PICK k \in Above(lookup, p) :
        UNCHANGED written \/ Write(k, Patch(View(k), Relative(p, k), x))
    BY <1>5 DEF UpdateInLeaf
  <2>1. k \in lookup /\ k \in Key /\ IsStrictPrefix(k, p)
    BY <1>1 DEF Above
  <2>2. Patch(View(k), Relative(p, k), x) \in Data
    BY <1>1, <2>1, ViewType, ClosureAssumption
  <2>3. CASE UNCHANGED written
    BY <1>1, <2>3 DEF Own, TypeOKTx
  <2>4. CASE Write(k, Patch(View(k), Relative(p, k), x))
    BY <1>1, <2>1, <2>2, <2>4, WriteType
  <2> QED BY <2>3, <2>4
<1>6. CASE UpdateBranch(p, x)
  <2>1. written' = [k \in Key |-> IF k \in ChangedBelow(p, x)
                                  THEN Append(written[k], ValueAt(x, Relative(k, p)))
                                  ELSE written[k]]
    BY <1>6 DEF UpdateBranch
  <2>2. \A k \in ChangedBelow(p, x) : k \in lookup \cup Own /\ IsStrictPrefix(p, k)
    BY DEF ChangedBelow, Matched, Below
  <2>3. written \in [Key -> Seq(Data)]
    BY <1>1 DEF TypeOKTx
  <2>4. ASSUME NEW k \in Key PROVE written'[k] \in Seq(Data)
    <3>1. CASE k \in ChangedBelow(p, x)
      <4>1. ValueAt(x, Relative(k, p)) \in Data
        BY <2>2, <3>1, ClosureAssumption
      <4> QED BY <2>1, <2>3, <3>1, <4>1, AppendOf
    <3>2. CASE k \notin ChangedBelow(p, x)
      BY <2>1, <2>3, <3>2
    <3> QED BY <3>1, <3>2
  <2>5. written' \in [Key -> Seq(Data)]
    BY <2>1, <2>4
  <2>6. \A k \in Key : k \notin lookup \cup Own => written'[k] = written[k]
    BY <2>1, <2>2
  <2> QED BY <2>5, <2>6 DEF Own
<1> QED BY <1>2, <1>3, <1>4, <1>5, <1>6 DEF Update

LEMMA UpdateInv ==
    ASSUME InvTx, NEW p \in EntityPath, NEW x \in NewValues[p] \cup {Undefined}, Update(p, x)
    PROVE  InvTx'
<1>1. written' \in [Key -> Seq(Data)] /\ Own' \subseteq lookup \cup Own
  BY UpdateWrites
<1>2. expected' \in [Key -> Data]
  BY MeansType DEF Update
<1>3. HeritageFree(lookup \cup Own)
  BY DEF Update, NextOperation, InvTx, WritesShareNoHeritage
<1>4. HeritageFree(lookup \cup Own')
  BY <1>1, <1>3 DEF HeritageFree
<1> QED BY <1>1, <1>2, <1>4, OperationInv DEF Update

LEMMA DeleteNothingInv ==
    ASSUME InvTx, NEW p \in EntityPath, DeleteNothing(p)
    PROVE  InvTx'
<1>1. written' = written /\ expected' = expected /\ running
  BY DEF DeleteNothing, NextOperation
<1>2. HeritageFree(lookup \cup Own')
  BY <1>1 DEF InvTx, WritesShareNoHeritage, Own
<1> QED BY <1>1, <1>2, OperationInv DEF DeleteNothing, InvTx, TypeOKTx

-----------------------------------------------------------------------------

(***************************************************************************)
(* The commit.                                                             *)
(***************************************************************************)
LEMMA StaysType ==
    ASSUME TypeOKTx, NEW k \in Key, Kept(k) # {}
    PROVE  Stays(k) \in Data /\ k \in Own
<1>1. written[k] \in Seq(Data)
  BY DEF TypeOKTx
<1>2. Kept(k) \in SUBSET (1 .. Len(written[k])) /\ Len(written[k]) \in Nat
  BY <1>1 DEF Kept
<1>3. Max(Kept(k)) \in 1 .. Len(written[k])
  BY <1>2, MaxOfIndices
<1> QED BY <1>1, <1>3 DEF Stays, Own

\* The step of the store a commit is.
LEMMA CommitIsStoreStep == ASSUME InvTx, Commit PROVE NextStore
<1> DEFINE keys == {k \in Key : Kept(k) # {}}
           new  == [k \in keys |-> Stays(k)]
<1>1. keys \in SUBSET Key /\ \A k \in keys : Stays(k) \in Data /\ k \in Own
  BY StaysType DEF InvTx
<1>2. new \in [keys -> Data] /\ DOMAIN new = keys
  BY <1>1
<1>3. CommitLocalEntries(new)
  BY DEF Commit
<1>4. HeritageFree(lookup \cup Own)
  BY DEF Commit, InvTx, WritesShareNoHeritage
<1> HIDE DEF new, keys
<1>5. Assignable(new)
  BY <1>1, <1>2, <1>4, HeritageAssumption DEF Assignable, HeritageFree, SharesHeritage, Related
<1> QED BY <1>1, <1>2, <1>3, <1>5 DEF NextStore

LEMMA OtherIsStoreStep == ASSUME OtherOperation PROVE NextStore
  BY DEF OtherOperation, NextStore

\* Every step is one of the store, or leaves it alone.
LEMMA StepOfStore == InvTx /\ [Next]_vars => [NextStore]_storeVars
<1> SUFFICES ASSUME InvTx, [Next]_vars PROVE NextStore \/ UNCHANGED storeVars
  OBVIOUS
<1>1. CASE Commit
  BY <1>1, CommitIsStoreStep
<1>2. CASE OtherOperation
  BY <1>2, OtherIsStoreStep
<1>3. CASE Begin \/ Reject
  BY <1>3 DEF Begin, Reject
<1>4. ASSUME NEW p, NEW x, Put(p, x) \/ Update(p, x) \/ DeleteNothing(p)
      PROVE  UNCHANGED storeVars
  BY <1>4 DEF Put, Update, DeleteNothing, NextOperation
<1>5. CASE UNCHANGED vars
  BY <1>5 DEF vars
<1> QED BY <1>1, <1>2, <1>3, <1>4, <1>5 DEF Next

LEMMA NextInv ==
    ASSUME RereadSucceeds, InvTx, [Next]_vars
    PROVE  InvTx'
<1>1. InvStore'
  BY StepOfStore, NextStoreInv DEF InvTx
<1>2. CASE Begin
  BY <1>2, BeginInv
<1>3. ASSUME NEW p \in Key, NEW x \in NewValues[p] \cup {Undefined}, Put(p, x) PROVE InvTx'
  BY <1>3, PutInv
<1>4. ASSUME NEW p \in EntityPath, NEW x \in NewValues[p] \cup {Undefined}, Update(p, x) PROVE InvTx'
  BY <1>4, UpdateInv
<1>5. ASSUME NEW p \in EntityPath, DeleteNothing(p) PROVE InvTx'
  BY <1>5, DeleteNothingInv
<1>6. CASE Reject
  BY <1>1, <1>6, EmptyTx DEF Reject, InvTx
<1>7. CASE Commit
  BY <1>1, <1>7, EmptyTx DEF Commit, InvTx
<1>8. CASE OtherOperation
  <2>1. ~running /\ UNCHANGED txVars
    BY <1>8 DEF OtherOperation
  <2> QED BY <1>1, <2>1 DEF InvTx, TypeOKTx, WritesShareNoHeritage, txVars
<1>9. CASE UNCHANGED vars
  <2>1. lookup' = lookup /\ UNCHANGED txVars
    BY <1>9 DEF vars, storeVars
  <2> QED BY <1>1, <2>1 DEF InvTx, TypeOKTx, WritesShareNoHeritage, txVars, Own
<1> QED BY <1>2, <1>3, <1>4, <1>5, <1>6, <1>7, <1>8, <1>9 DEF Next

-----------------------------------------------------------------------------

\* As for the store alone, a reset must not fail where it reads the pending keys
\* for the lookup (RereadSucceeds).

\* The types of the store and of the transaction in progress.
THEOREM TransactionTypeCorrect ==
    ASSUME RereadSucceeds
    PROVE  Spec => []TypeOK
<1>1. InvTx => TypeOK
  BY DEF InvTx, InvStore, TypeOKTx, TypeOK
<1>2. InvTx /\ [Next]_vars => InvTx'
  BY NextInv
<1> QED BY <1>1, <1>2, InitInv, PTL DEF Spec

\* A committed transaction is one step of the store, with an assignable set of
\* leaves, whatever its operations were.
THEOREM TransactionsImplementStore ==
    ASSUME RereadSucceeds
    PROVE  Spec => ImplementsStore
<1>1. Init => InitStore
  BY DEF Init
<1>2. InvTx /\ [Next]_vars => [storeVars' # storeVars => NextStore]_vars
  BY StepOfStore
<1>3. InvTx /\ [Next]_vars => InvTx'
  BY NextInv
<1> QED BY <1>1, <1>2, <1>3, InitInv, PTL DEF Spec, ImplementsStore

\* So nothing a transaction writes ever nests one leaf in another, or hides a
\* stored entry from the lookup.
THEOREM TransactionsNestNothing ==
    ASSUME RereadSucceeds
    PROVE  Spec => [](LookupCoversStores /\ LeavesNeverNest)
<1>1. InvTx => LookupCoversStores /\ LeavesNeverNest
  BY DEF InvTx, InvStore
<1>2. InvTx /\ [Next]_vars => InvTx'
  BY NextInv
<1> QED BY <1>1, <1>2, InitInv, PTL DEF Spec

-----------------------------------------------------------------------------

(***************************************************************************)
(* What the folds compute.  A fold is a recursive function, and that a     *)
(* choice among the functions that satisfy the equation: what has to be    *)
(* shown is that there is one.  It is built from the empty set upwards,    *)
(* which needs no more than that every set of numbers has a least one.     *)
(***************************************************************************)

\* The index sets of a path, and the last of one.
LEMMA LastIndex ==
    ASSUME NEW m \in Nat \ {0}, NEW s \in SUBSET (1 .. m), s # {}
    PROVE  Max(s) \in s /\ s \ {Max(s)} \in SUBSET (1 .. m - 1)
<1>1. \A x \in s : x \in Int /\ x <= m
  OBVIOUS
<1>2. Max(s) \in s
  BY MaxOfIndices
<1>3. \A x \in s : x <= Max(s)
  BY MaxOfIndices
<1>4. ASSUME NEW x \in s, x # Max(s) PROVE x \in 1 .. m - 1
  <2>1. PICK i \in s : i = Max(s)
    BY <1>2
  <2>2. x \in Int /\ i \in Int /\ 1 <= x /\ x <= i /\ i <= m /\ x # i
    BY <1>3, <1>4, <2>1
  <2> QED BY <2>2
<1> QED BY <1>2, <1>4

\* getValueByKeypath, as the fold over the specifiers of the path has it.
IterValue(v, path, iter, s) ==
    IF s = {} THEN v ELSE Property(iter[s \ {Max(s)}], path[Max(s)])

LEMMA ValueIterExists ==
    ASSUME NEW v, NEW path, NEW n \in Nat
    PROVE  \E iter : iter = [s \in SUBSET (1 .. n) |-> IterValue(v, path, iter, s)]
<1> DEFINE Is(g, m) == g = [s \in SUBSET (1 .. m) |-> IterValue(v, path, g, s)]
           T == {m \in Nat : ~ \E g : Is(g, m)}
<1>1. Is([s \in SUBSET (1 .. 0) |-> v], 0)
  <2>1. \A s \in SUBSET (1 .. 0) : s = {}
    OBVIOUS
  <2> QED BY <2>1 DEF IterValue
<1>2. ASSUME NEW m \in Nat \ {0}, NEW g, Is(g, m - 1) PROVE \E h : Is(h, m)
  <2> DEFINE h == [s \in SUBSET (1 .. m) |-> IterValue(v, path, g, s)]
  <2>1. ASSUME NEW s \in SUBSET (1 .. m) PROVE h[s] = IterValue(v, path, h, s)
    <3>1. CASE s = {}
      BY <3>1 DEF IterValue
    <3>2. CASE s # {}
      <4> DEFINE t == s \ {Max(s)}
      <4>1. t \in SUBSET (1 .. m - 1) /\ t \in SUBSET (1 .. m)
        BY <3>2, LastIndex
      <4>2. g[t] = IterValue(v, path, g, t)
        BY <1>2, <4>1
      <4>3. h[t] = g[t]
        BY <4>1, <4>2
      <4>4. h[s] = Property(g[t], path[Max(s)])
        BY <3>2 DEF IterValue
      <4> HIDE DEF h
      <4> QED BY <3>2, <4>3, <4>4 DEF IterValue
    <3> QED BY <3>1, <3>2
  <2>2. h = [s \in SUBSET (1 .. m) |-> h[s]]
    OBVIOUS
  <2> HIDE DEF h
  <2>3. h = [s \in SUBSET (1 .. m) |-> IterValue(v, path, h, s)]
    BY <2>1, <2>2
  <2> QED BY <2>3
<1> HIDE DEF Is
<1>3. T = {}
  <2> SUFFICES ASSUME T # {} PROVE FALSE
    OBVIOUS
  <2>1. PICK m \in T : \A t \in T : m <= t
    BY LeastNumber
  <2>2. m # 0
    BY <1>1, <2>1
  <2>3. m - 1 \in Nat /\ m - 1 \notin T
    BY <2>1, <2>2
  <2>4. PICK g : Is(g, m - 1)
    BY <2>3
  <2> QED BY <1>2, <2>1, <2>2, <2>4
<1>4. PICK iter : Is(iter, n)
  BY <1>3
<1> QED BY <1>4 DEF Is

IsValueIter(v, n, path, iter) == iter = [s \in SUBSET (1 .. n) |-> IterValue(v, path, iter, s)]

LEMMA ValueIterIs ==
    ASSUME NEW v, NEW n \in Nat, NEW path, DOMAIN path = 1 .. n
    PROVE  \E iter : IsValueIter(v, n, path, iter) /\ ValueAt(v, path) = iter[1 .. n]
<1> DEFINE chosen == CHOOSE g : g = [s \in SUBSET (1 .. n) |-> IterValue(v, path, g, s)]
<1>1. ValueAt(v, path) = chosen[1 .. n]
  BY DEF ValueAt, FoldLeft, MapThenFoldSet, IterValue
<1>2. chosen = [s \in SUBSET (1 .. n) |-> IterValue(v, path, chosen, s)]
  BY ValueIterExists
<1> QED BY <1>1, <1>2 DEF IsValueIter

\* The indices up to m, and the last of them.
LEMMA FirstIndices ==
    ASSUME NEW m \in Nat
    PROVE  m > 0 => Max(1 .. m) = m /\ (1 .. m) \ {Max(1 .. m)} = 1 .. m - 1
<1> SUFFICES ASSUME m > 0 PROVE Max(1 .. m) = m /\ (1 .. m) \ {Max(1 .. m)} = 1 .. m - 1
  OBVIOUS
<1>1. m \in 1 .. m /\ \A x \in 1 .. m : m >= x
  OBVIOUS
<1>2. Max(1 .. m) \in 1 .. m /\ \A x \in 1 .. m : Max(1 .. m) >= x
  BY <1>1 DEF Max
<1>3. Max(1 .. m) = m
  BY <1>1, <1>2
<1> HIDE DEF Max
<1> QED BY <1>3

\* What getValueByKeypath returns is what is reached step by step.
ValueSteps(v, n, path, g) ==
    g[0] = v /\ \A i \in 1 .. n : g[i] = Property(g[i - 1], path[i])

LEMMA ValueAtSteps ==
    ASSUME NEW v, NEW n \in Nat, NEW path, DOMAIN path = 1 .. n,
           NEW g, ValueSteps(v, n, path, g)
    PROVE  ValueAt(v, path) = g[n]
<1>0. g[0] = v /\ \A i \in 1 .. n : g[i] = Property(g[i - 1], path[i])
  BY DEF ValueSteps
<1>p. PICK iter : IsValueIter(v, n, path, iter) /\ ValueAt(v, path) = iter[1 .. n]
  BY ValueIterIs
<1>1. /\ iter = [s \in SUBSET (1 .. n) |-> IterValue(v, path, iter, s)]
      /\ ValueAt(v, path) = iter[1 .. n]
  BY <1>p DEF IsValueIter
<1> DEFINE T == {i \in 0 .. n : iter[1 .. i] # g[i]}
<1>2. T = {}
  <2> SUFFICES ASSUME T # {} PROVE FALSE
    OBVIOUS
  <2>1. PICK i \in T : \A j \in T : i <= j
    <3>1. T \in SUBSET Nat
      OBVIOUS
    <3> HIDE DEF T
    <3> QED BY <3>1, LeastNumber
  <2>2. i \in 0 .. n /\ i \in Nat /\ iter[1 .. i] # g[i]
    BY <2>1
  <2>3. 1 .. i \in SUBSET (1 .. n)
    BY <2>2
  <2>4. iter[1 .. i] = IterValue(v, path, iter, 1 .. i)
    BY <1>1, <2>3
  <2>5. CASE i = 0
    <3>1. 1 .. i = {}
      BY <2>5
    <3> QED BY <1>0, <2>2, <2>4, <2>5, <3>1 DEF IterValue
  <2>6. CASE i > 0
    <3>1. 1 .. i # {} /\ i - 1 \in 0 .. n /\ i - 1 \notin T /\ i \in 1 .. n
      BY <2>1, <2>2, <2>6
    <3>2. iter[1 .. i - 1] = g[i - 1]
      BY <3>1
    <3>3. iter[1 .. i] = Property(iter[1 .. i - 1], path[i])
      BY <2>2, <2>4, <2>6, <3>1, FirstIndices DEF IterValue
    <3> QED BY <1>0, <2>2, <3>1, <3>2, <3>3
  <2> QED BY <2>2, <2>5, <2>6
<1>3. n \in 0 .. n
  OBVIOUS
<1>4. iter[1 .. n] = g[n]
  BY <1>2, <1>3
<1> QED BY <1>1, <1>4

LEMMA ValueStepsExist ==
    ASSUME NEW v, NEW n \in Nat, NEW path, DOMAIN path = 1 .. n
    PROVE  \E g : ValueSteps(v, n, path, g)
<1>p. PICK iter : IsValueIter(v, n, path, iter)
  BY ValueIterIs
<1>1. iter = [s \in SUBSET (1 .. n) |-> IterValue(v, path, iter, s)]
  BY <1>p DEF IsValueIter
<1> DEFINE g == [i \in 0 .. n |-> iter[1 .. i]]
<1>2. g[0] = v
  <2>1. 1 .. 0 = {} /\ {} \in SUBSET (1 .. n) /\ 0 \in 0 .. n
    OBVIOUS
  <2>2. iter[{}] = v
    BY <1>1, <2>1 DEF IterValue
  <2> QED BY <2>1, <2>2
<1>3. ASSUME NEW i \in 1 .. n PROVE g[i] = Property(g[i - 1], path[i])
  <2>1. i \in Nat /\ i > 0 /\ 1 .. i \in SUBSET (1 .. n) /\ 1 .. i # {} /\ i - 1 \in 0 .. n /\ i \in 0 .. n
    OBVIOUS
  <2>2. iter[1 .. i] = IterValue(v, path, iter, 1 .. i)
    BY <1>1, <2>1
  <2>3. iter[1 .. i] = Property(iter[1 .. i - 1], path[i])
    BY <2>1, <2>2, FirstIndices DEF IterValue
  <2> QED BY <2>1, <2>3
<1> HIDE DEF g
<1> QED BY <1>2, <1>3 DEF ValueSteps

\* One specifier more, one property further.
LEMMA ValueAtPrefix ==
    ASSUME NEW v, NEW S, NEW path \in Seq(S)
    PROVE  /\ ValueAt(v, SubSeq(path, 1, 0)) = v
           /\ \A i \in 1 .. Len(path) :
                 ValueAt(v, SubSeq(path, 1, i)) = Property(ValueAt(v, SubSeq(path, 1, i - 1)), path[i])
<1> DEFINE n == Len(path)
<1>1. n \in Nat /\ DOMAIN path = 1 .. n
  OBVIOUS
<1>s. PICK g : ValueSteps(v, n, path, g)
  <2> HIDE DEF n
  <2> QED BY <1>1, ValueStepsExist
<1>2. g[0] = v /\ \A i \in 1 .. n : g[i] = Property(g[i - 1], path[i])
  BY <1>s DEF ValueSteps
<1>3. ASSUME NEW i \in 0 .. n PROVE ValueAt(v, SubSeq(path, 1, i)) = g[i]
  <2> DEFINE part == SubSeq(path, 1, i)
  <2>1. DOMAIN part = 1 .. i /\ \A j \in 1 .. i : part[j] = path[j] /\ j \in 1 .. n
    OBVIOUS
  <2> HIDE DEF part, n
  <2>2. i \in Nat /\ ValueSteps(v, i, part, g)
    BY <1>1, <1>2, <2>1 DEF ValueSteps
  <2>3. ValueAt(v, part) = g[i]
    BY <2>1, <2>2, ValueAtSteps
  <2> QED BY <2>3 DEF part
<1>4. \A i \in 1 .. n : i \in 0 .. n /\ i - 1 \in 0 .. n
  OBVIOUS
<1>5. 0 \in 0 .. n
  OBVIOUS
<1> HIDE DEF n
<1>6. \A i \in 1 .. n : ValueAt(v, SubSeq(path, 1, i)) = Property(ValueAt(v, SubSeq(path, 1, i - 1)), path[i])
  BY <1>2, <1>3, <1>4
<1> QED BY <1>2, <1>3, <1>5, <1>6 DEF n

\* Nothing is in what is not there.
LEMMA ValueAtUndefined ==
    ASSUME NEW S, NEW path \in Seq(S)
    PROVE  ValueAt(Undefined, path) = Undefined
<1> DEFINE n == Len(path)
           g == [i \in 0 .. n |-> Undefined]
<1>1. n \in Nat /\ DOMAIN path = 1 .. n
  OBVIOUS
<1>2. \A i \in 1 .. n : g[i] = Property(g[i - 1], path[i])
  BY DEF Property, IsObject
<1>3. g[0] = Undefined /\ g[n] = Undefined
  BY <1>1
<1>4. ValueSteps(Undefined, n, path, g)
  BY <1>2, <1>3 DEF ValueSteps
<1> HIDE DEF g, n
<1> QED BY <1>1, <1>3, <1>4, ValueAtSteps

\* patchObject goes through the path from its end.
LEMMA FirstIndex ==
    ASSUME NEW a \in Nat, NEW n \in Nat, NEW s \in SUBSET (a .. n), s # {}
    PROVE  Min(s) \in s /\ s \ {Min(s)} \in SUBSET (a + 1 .. n)
<1>1. \A x \in s : x \in Nat /\ a <= x /\ x <= n
  OBVIOUS
<1>2. PICK i \in s : \A x \in s : i <= x
  <2>1. s \in SUBSET Nat
    BY <1>1
  <2> QED BY <2>1, LeastNumber
<1>3. Min(s) \in s /\ \A x \in s : Min(s) <= x
  BY <1>2 DEF Min
<1>4. ASSUME NEW x \in s, x # Min(s) PROVE x \in a + 1 .. n
  <2>1. PICK j \in s : j = Min(s)
    BY <1>3
  <2>2. x \in Int /\ j \in Int /\ a <= j /\ j <= x /\ x <= n /\ x # j
    BY <1>1, <1>3, <1>4, <2>1
  <2> QED BY <2>2
<1> QED BY <1>3, <1>4

\* The indices from i on, and the first of them.
LEMMA LastIndices ==
    ASSUME NEW i \in Nat, NEW n \in Nat, i <= n
    PROVE  Min(i .. n) = i /\ (i .. n) \ {Min(i .. n)} = i + 1 .. n
<1>1. i \in i .. n /\ \A x \in i .. n : i <= x
  OBVIOUS
<1>2. Min(i .. n) \in i .. n /\ \A x \in i .. n : Min(i .. n) <= x
  BY <1>1 DEF Min
<1>3. Min(i .. n) = i
  BY <1>1, <1>2
<1> HIDE DEF Min
<1> QED BY <1>3

\* patchObject, as the fold has it.
IterPatch(v, n, path, x, iter, s) ==
    IF s = {} THEN x
    ELSE SetProperty(ValueAt(v, SubSeq(path, 1, [i \in 1 .. n |-> i][Min(s)] - 1)),
                     path[[i \in 1 .. n |-> i][Min(s)]], iter[s \ {Min(s)}])

LEMMA PatchIterExists ==
    ASSUME NEW v, NEW path, NEW x, NEW n \in Nat
    PROVE  \E iter : iter = [s \in SUBSET (1 .. n) |-> IterPatch(v, n, path, x, iter, s)]
<1> DEFINE Is(g, m) == g = [s \in SUBSET (n - m + 1 .. n) |-> IterPatch(v, n, path, x, g, s)]
           T == {m \in 0 .. n : ~ \E g : Is(g, m)}
<1>1. Is([s \in SUBSET (n - 0 + 1 .. n) |-> x], 0)
  <2>1. \A s \in SUBSET (n - 0 + 1 .. n) : s = {}
    OBVIOUS
  <2> QED BY <2>1 DEF IterPatch
<1>2. ASSUME NEW m \in 1 .. n, NEW g, Is(g, m - 1) PROVE \E h : Is(h, m)
  <2> DEFINE h == [s \in SUBSET (n - m + 1 .. n) |-> IterPatch(v, n, path, x, g, s)]
  <2>1. ASSUME NEW s \in SUBSET (n - m + 1 .. n) PROVE h[s] = IterPatch(v, n, path, x, h, s)
    <3>1. CASE s = {}
      BY <3>1 DEF IterPatch
    <3>2. CASE s # {}
      <4> DEFINE t == s \ {Min(s)}
      <4>1. t \in SUBSET (n - (m - 1) + 1 .. n) /\ t \in SUBSET (n - m + 1 .. n)
        <5>1. n - m + 1 \in Nat /\ n - (m - 1) + 1 = (n - m + 1) + 1
          OBVIOUS
        <5> QED BY <3>2, <5>1, FirstIndex
      <4>2. g[t] = IterPatch(v, n, path, x, g, t)
        BY <1>2, <4>1
      <4>3. h[t] = g[t]
        BY <4>1, <4>2
      <4>4. h[s] = IterPatch(v, n, path, x, g, s)
        OBVIOUS
      <4> HIDE DEF h
      <4> QED BY <3>2, <4>3, <4>4 DEF IterPatch
    <3> QED BY <3>1, <3>2
  <2>2. h = [s \in SUBSET (n - m + 1 .. n) |-> h[s]]
    OBVIOUS
  <2> HIDE DEF h
  <2>3. h = [s \in SUBSET (n - m + 1 .. n) |-> IterPatch(v, n, path, x, h, s)]
    BY <2>1, <2>2
  <2> QED BY <2>3
<1> HIDE DEF Is
<1>3. T = {}
  <2> SUFFICES ASSUME T # {} PROVE FALSE
    OBVIOUS
  <2>1. PICK m \in T : \A t \in T : m <= t
    <3>1. T \in SUBSET Nat
      OBVIOUS
    <3> HIDE DEF T
    <3> QED BY <3>1, LeastNumber
  <2>2. m # 0
    BY <1>1, <2>1
  <2>3. m \in 1 .. n /\ m - 1 \in 0 .. n /\ m - 1 \notin T
    BY <2>1, <2>2
  <2>4. PICK g : Is(g, m - 1)
    BY <2>3
  <2> QED BY <1>2, <2>1, <2>3, <2>4
<1>4. PICK iter : Is(iter, n)
  BY <1>3
<1>5. n - n + 1 = 1
  OBVIOUS
<1> QED BY <1>4, <1>5 DEF Is

IsPatchIter(v, n, path, x, iter) == iter = [s \in SUBSET (1 .. n) |-> IterPatch(v, n, path, x, iter, s)]

LEMMA PatchIterIs ==
    ASSUME NEW v, NEW S, NEW path \in Seq(S), NEW x
    PROVE  \E iter : /\ IsPatchIter(v, Len(path), path, x, iter)
                     /\ Patch(v, path, x) = iter[1 .. Len(path)]
<1> DEFINE n == Len(path)
           chosen == CHOOSE g : g = [s \in SUBSET (1 .. n) |-> IterPatch(v, n, path, x, g, s)]
<1>1. Patch(v, path, x) = chosen[1 .. n]
  BY DEF Patch, FoldRight, MapThenFoldSet, IterPatch
<1>2. chosen = [s \in SUBSET (1 .. n) |-> IterPatch(v, n, path, x, chosen, s)]
  BY PatchIterExists
<1> QED BY <1>1, <1>2 DEF IsPatchIter

\* What patchObject makes of the values on the way, from the last to the first.
PatchSteps(v, n, path, x, g) ==
    /\ g[n + 1] = x
    /\ \A i \in 1 .. n : g[i] = SetProperty(ValueAt(v, SubSeq(path, 1, i - 1)), path[i], g[i + 1])

LEMMA PatchHasSteps ==
    ASSUME NEW v, NEW S, NEW path \in Seq(S), NEW x
    PROVE  \E g : PatchSteps(v, Len(path), path, x, g) /\ Patch(v, path, x) = g[1]
<1> DEFINE n == Len(path)
<1>0. n \in Nat
  OBVIOUS
<1>p. PICK iter : IsPatchIter(v, n, path, x, iter) /\ Patch(v, path, x) = iter[1 .. n]
  BY PatchIterIs
<1> HIDE DEF n
<1>1. iter = [s \in SUBSET (1 .. n) |-> IterPatch(v, n, path, x, iter, s)]
  BY <1>p DEF IsPatchIter
<1> DEFINE g == [i \in 1 .. n + 1 |-> iter[i .. n]]
<1>2. g[n + 1] = x
  <2>1. (n + 1) .. n = {} /\ {} \in SUBSET (1 .. n) /\ n + 1 \in 1 .. n + 1
    BY <1>0
  <2>2. iter[{}] = x
    BY <1>1, <2>1 DEF IterPatch
  <2> QED BY <2>1, <2>2
<1>3. ASSUME NEW i \in 1 .. n
      PROVE  g[i] = SetProperty(ValueAt(v, SubSeq(path, 1, i - 1)), path[i], g[i + 1])
  <2>0. i \in Nat /\ 1 <= i /\ i <= n /\ i \in i .. n /\ i \in 1 .. n + 1 /\ i + 1 \in 1 .. n + 1
    BY <1>0
  <2>1. i .. n \in SUBSET (1 .. n) /\ i .. n # {}
    <3>1. \A j \in i .. n : j \in 1 .. n
      BY <1>0, <2>0
    <3> QED BY <2>0, <3>1
  <2>2. iter[i .. n] = IterPatch(v, n, path, x, iter, i .. n)
    BY <1>1, <2>1
  <2>3. Min(i .. n) = i /\ (i .. n) \ {Min(i .. n)} = i + 1 .. n
    BY <1>0, <2>0, LastIndices
  <2>4. [j \in 1 .. n |-> j][i] = i
    OBVIOUS
  <2>5. iter[i .. n] = SetProperty(ValueAt(v, SubSeq(path, 1, i - 1)), path[i], iter[i + 1 .. n])
    BY <2>1, <2>2, <2>3, <2>4 DEF IterPatch
  <2> QED BY <2>0, <2>5
<1>4. g[1] = iter[1 .. n]
  BY <1>0
<1> HIDE DEF g
<1> QED BY <1>p, <1>2, <1>3, <1>4 DEF PatchSteps, n

-----------------------------------------------------------------------------

(***************************************************************************)
(* Values as trees: an object has values as its properties, and a property *)
(* that is undefined is one that is not there.                             *)
(***************************************************************************)
AreTrees(trees) ==
    /\ Undefined \notin trees
    /\ \A t \in trees : IsObject(t) => /\ t = [name \in DOMAIN t |-> t[name]]
                                       /\ \A name \in DOMAIN t : t[name] \in trees

\* Setting a property to what it is changes nothing.
LEMMA SetSame ==
    ASSUME NEW trees, AreTrees(trees), NEW w \in trees \cup {Undefined}, NEW name
    PROVE  /\ Property(w, name) \in trees \cup {Undefined}
           /\ SetProperty(w, name, Property(w, name)) = w
<1>1. CASE ~IsObject(w)
  BY <1>1 DEF Property, SetProperty
<1>2. CASE IsObject(w)
  <2>1. w \in trees /\ w = [a \in DOMAIN w |-> w[a]] /\ \A a \in DOMAIN w : w[a] \in trees
    BY <1>2 DEF AreTrees, IsObject
  <2>2. CASE name \in DOMAIN w
    <3>1. Property(w, name) = w[name] /\ w[name] \in trees /\ w[name] # Undefined
      BY <1>2, <2>1, <2>2 DEF Property, AreTrees
    <3>2. SetProperty(w, name, w[name]) =
             [a \in DOMAIN w \cup {name} |-> IF a = name THEN w[name] ELSE w[a]]
      BY <1>2, <3>1 DEF SetProperty
    <3>3. [a \in DOMAIN w \cup {name} |-> IF a = name THEN w[name] ELSE w[a]] = [a \in DOMAIN w |-> w[a]]
      BY <2>2
    <3> QED BY <2>1, <3>1, <3>2, <3>3
  <2>3. CASE name \notin DOMAIN w
    <3>1. Property(w, name) = Undefined
      BY <2>3 DEF Property
    <3>2. SetProperty(w, name, Undefined) = Restrict(w, DOMAIN w \ {name})
      BY <1>2 DEF SetProperty
    <3>3. DOMAIN w \ {name} = DOMAIN w
      BY <2>3
    <3> QED BY <2>1, <3>1, <3>2, <3>3 DEF Restrict
  <2> QED BY <2>2, <2>3
<1> QED BY <1>1, <1>2

\* A property that was set is there, another one is what it was; unless nothing is
\* there at all.
LEMMA SetThenGet ==
    ASSUME NEW w, NEW a, NEW y, NEW c
    PROVE  /\ Property(SetProperty(w, a, y), a) \in {y, Undefined}
           /\ a # c => Property(SetProperty(w, a, y), c) \in {Property(w, c), Undefined}
<1>1. CASE y # Undefined
  <2> DEFINE f == IF IsObject(w) THEN w ELSE <<>>
             h == [b \in DOMAIN f \cup {a} |-> IF b = a THEN y ELSE f[b]]
  <2>1. SetProperty(w, a, y) = h
    BY <1>1 DEF SetProperty
  <2>3. h[a] = y /\ DOMAIN h = {a} \cup DOMAIN f /\ \A b \in DOMAIN f : b # a => h[b] = f[b]
    OBVIOUS
  <2>4. a # c => Property(h, c) \in {Property(w, c), Undefined}
    <3>1. ~IsObject(w) => DOMAIN f = {}
      OBVIOUS
    <3> HIDE DEF h
    <3> QED BY <2>3, <3>1 DEF Property
  <2>5. Property(h, a) \in {y, Undefined}
    <3> HIDE DEF h
    <3> QED BY <2>3 DEF Property
  <2> QED BY <2>1, <2>4, <2>5
<1>2. CASE y = Undefined
  <2>1. SetProperty(w, a, y) = IF IsObject(w) THEN Restrict(w, DOMAIN w \ {a}) ELSE w
    BY <1>2 DEF SetProperty
  <2>2. CASE IsObject(w)
    <3> DEFINE h == Restrict(w, DOMAIN w \ {a})
    <3>1. DOMAIN h = DOMAIN w \ {a} /\ \A b \in DOMAIN h : h[b] = w[b]
      BY DEF Restrict
    <3> HIDE DEF h
    <3>2. Property(h, a) = Undefined
      BY <3>1 DEF Property
    <3>3. a # c => Property(h, c) \in {Property(w, c), Undefined}
      BY <2>2, <3>1 DEF Property
    <3> QED BY <2>1, <2>2, <3>2, <3>3 DEF h
  <2>3. CASE ~IsObject(w)
    BY <2>1, <2>3 DEF Property
  <2> QED BY <2>2, <2>3
<1> QED BY <1>1, <1>2

\* Patching a value with what it has at the path changes nothing.
LEMMA PatchSame ==
    ASSUME NEW trees, AreTrees(trees), NEW v \in trees \cup {Undefined}, NEW S, NEW path \in Seq(S)
    PROVE  Patch(v, path, ValueAt(v, path)) = v
<1> DEFINE n == Len(path)
           x == ValueAt(v, path)
           W(i) == ValueAt(v, SubSeq(path, 1, i))
<1>0. n \in Nat /\ SubSeq(path, 1, n) = path
  OBVIOUS
<1>1. PICK g : PatchSteps(v, n, path, x, g) /\ Patch(v, path, x) = g[1]
  <2> HIDE DEF x
  <2> QED BY PatchHasSteps
<1>2. /\ g[n + 1] = x
      /\ \A i \in 1 .. n : g[i] = SetProperty(W(i - 1), path[i], g[i + 1])
  BY <1>1 DEF PatchSteps
<1>3. W(0) = v /\ \A i \in 1 .. n : W(i) = Property(W(i - 1), path[i])
  BY ValueAtPrefix
<1>4. W(n) = x
  BY <1>0
<1> HIDE DEF n, x, W
<1>5. \A i \in 0 .. n : W(i) \in trees \cup {Undefined}
  <2> DEFINE T == {i \in 0 .. n : W(i) \notin trees \cup {Undefined}}
  <2> SUFFICES ASSUME T # {} PROVE FALSE
    OBVIOUS
  <2>1. PICK i \in T : \A j \in T : i <= j
    <3>1. T \in SUBSET Nat
      OBVIOUS
    <3> HIDE DEF T
    <3> QED BY <3>1, LeastNumber
  <2>2. i # 0
    BY <1>3, <2>1
  <2>3. i \in 1 .. n /\ i - 1 \in 0 .. n
    BY <1>0, <2>1, <2>2
  <2>4. W(i - 1) \in trees \cup {Undefined}
    <3>1. i \in Int /\ i - 1 \in Int /\ ~(i <= i - 1)
      BY <2>3
    <3>2. i - 1 \notin T
      BY <2>1, <3>1
    <3> QED BY <2>3, <3>2
  <2>5. W(i) \in trees \cup {Undefined}
    BY <1>3, <2>3, <2>4, SetSame
  <2> QED BY <2>1, <2>5
<1>6. \A m \in 0 .. n : g[n - m + 1] = W(n - m)
  <2> DEFINE T == {m \in 0 .. n : g[n - m + 1] # W(n - m)}
  <2> SUFFICES ASSUME T # {} PROVE FALSE
    OBVIOUS
  <2>1. PICK m \in T : \A j \in T : m <= j
    <3>1. T \in SUBSET Nat
      OBVIOUS
    <3> HIDE DEF T
    <3> QED BY <3>1, LeastNumber
  <2>2. m # 0
    BY <1>0, <1>2, <1>4, <2>1
  <2>3. m \in 1 .. n /\ m - 1 \in 0 .. n
    BY <1>0, <2>1, <2>2
  <2>4. g[n - (m - 1) + 1] = W(n - (m - 1))
    <3>1. m \in Int /\ m - 1 \in Int /\ ~(m <= m - 1)
      BY <2>3
    <3>2. m - 1 \notin T
      BY <2>1, <3>1
    <3> QED BY <2>3, <3>2
  <2>5. PICK i \in 1 .. n : i = n - m + 1
    BY <1>0, <2>3
  <2>6. n - (m - 1) + 1 = i + 1 /\ n - (m - 1) = i /\ n - m = i - 1 /\ i - 1 \in 0 .. n
    BY <1>0, <2>3, <2>5
  <2>7. g[i + 1] = W(i) /\ W(i) = Property(W(i - 1), path[i])
    BY <1>3, <2>4, <2>6
  <2>8. g[i] = W(i - 1)
    <3>1. SetProperty(W(i - 1), path[i], Property(W(i - 1), path[i])) = W(i - 1)
      BY <1>5, <2>6, SetSame
    <3> QED BY <1>2, <2>7, <3>1
  <2> QED BY <2>1, <2>5, <2>6, <2>8
<1>7. n \in 0 .. n /\ n - n + 1 = 1 /\ n - n = 0
  BY <1>0
<1>8. g[1] = v
  BY <1>3, <1>6, <1>7
<1> QED BY <1>1, <1>8 DEF x

\* ValueAtPrefix by a name.
ValueBySteps(v, path) ==
    /\ ValueAt(v, SubSeq(path, 1, 0)) = v
    /\ \A i \in 1 .. Len(path) :
          ValueAt(v, SubSeq(path, 1, i)) = Property(ValueAt(v, SubSeq(path, 1, i - 1)), path[i])

LEMMA StepByStep ==
    ASSUME NEW v, NEW S, NEW path \in Seq(S)
    PROVE  ValueBySteps(v, path)
  BY ValueAtPrefix DEF ValueBySteps

\* Patching a value at one path puts nothing at another one where nothing was.
LEMMA PatchElsewhere ==
    ASSUME NEW b, NEW S, NEW q \in Seq(S), NEW r \in Seq(S), NEW x,
           NEW d \in 1 .. Len(q), d <= Len(r), q[d] # r[d], \A j \in 1 .. d - 1 : q[j] = r[j],
           ValueAt(b, r) = Undefined
    PROVE  ValueAt(Patch(b, q, x), r) = Undefined
<1> DEFINE n == Len(q)
           m == Len(r)
           P == Patch(b, q, x)
           W(j) == ValueAt(P, SubSeq(r, 1, j))
           B(j) == ValueAt(b, SubSeq(r, 1, j))
           C(j) == ValueAt(b, SubSeq(q, 1, j))
<1>0. m \in Nat /\ n \in Nat /\ SubSeq(r, 1, m) = r /\ d \in 1 .. n /\ d <= m
  OBVIOUS
<1>1. PICK g : PatchSteps(b, n, q, x, g) /\ P = g[1]
  BY PatchHasSteps
<1>2. \A i \in 1 .. n : g[i] = SetProperty(C(i - 1), q[i], g[i + 1])
  BY <1>1 DEF PatchSteps
<1>r. ASSUME NEW u PROVE ValueBySteps(u, r)
  BY StepByStep
<1>3. W(0) = P /\ \A i \in 1 .. m : W(i) = Property(W(i - 1), r[i])
  <2>1. ValueBySteps(P, r)
    <3> HIDE DEF P
    <3> QED BY <1>r
  <2> QED BY <2>1 DEF ValueBySteps
<1>4. \A i \in 1 .. m : B(i) = Property(B(i - 1), r[i])
  BY <1>r DEF ValueBySteps
<1>5. C(d - 1) = B(d - 1)
  <2>1. SubSeq(q, 1, d - 1) = SubSeq(r, 1, d - 1)
    OBVIOUS
  <2> QED BY <2>1
<1>6. W(m) = ValueAt(P, r) /\ B(m) = Undefined
  BY <1>0
<1> HIDE DEF n, m, P, W, B, C
<1>7. \A a : Property(Undefined, a) = Undefined
  BY DEF Property, IsObject
<1>8. \A j \in 0 .. d - 1 : W(j) \in {g[j + 1], Undefined}
  <2> DEFINE T == {j \in 0 .. d - 1 : W(j) \notin {g[j + 1], Undefined}}
  <2> SUFFICES ASSUME T # {} PROVE FALSE
    OBVIOUS
  <2>1. PICK j \in T : \A k \in T : j <= k
    <3>1. T \in SUBSET Nat
      OBVIOUS
    <3> HIDE DEF T
    <3> QED BY <3>1, LeastNumber
  <2>2. j # 0
    BY <1>1, <1>3, <2>1
  <2>3. j \in 1 .. d - 1 /\ j - 1 \in 0 .. d - 1 /\ j \in 1 .. m /\ j \in 1 .. n /\ j - 1 + 1 = j
    BY <1>0, <2>1, <2>2
  <2>4. W(j - 1) \in {g[j], Undefined}
    <3>1. j \in Int /\ j - 1 \in Int /\ ~(j <= j - 1)
      BY <2>3
    <3>2. j - 1 \notin T
      BY <2>1, <3>1
    <3> QED BY <2>3, <3>2
  <2>5. W(j) = Property(W(j - 1), q[j])
    BY <1>3, <2>3
  <2>6. g[j] = SetProperty(C(j - 1), q[j], g[j + 1])
    BY <1>2, <2>3
  <2>7. Property(g[j], q[j]) \in {g[j + 1], Undefined}
    BY <2>6, SetThenGet
  <2>8. W(j) \in {g[j + 1], Undefined}
    BY <1>7, <2>4, <2>5, <2>7
  <2> QED BY <2>1, <2>8
<1>9. W(d) \in {B(d), Undefined}
  <2>1. d - 1 \in 0 .. d - 1 /\ d \in 1 .. m /\ d \in 1 .. n /\ d - 1 + 1 = d
    BY <1>0
  <2>2. W(d - 1) \in {g[d], Undefined}
    BY <1>8, <2>1
  <2>3. g[d] = SetProperty(B(d - 1), q[d], g[d + 1])
    BY <1>2, <1>5, <2>1
  <2>4. Property(g[d], r[d]) \in {Property(B(d - 1), r[d]), Undefined}
    BY <2>3, SetThenGet
  <2> QED BY <1>3, <1>4, <1>7, <2>1, <2>2, <2>4
<1>10. \A j \in d .. m : W(j) \in {B(j), Undefined}
  <2> DEFINE T == {j \in d .. m : W(j) \notin {B(j), Undefined}}
  <2> SUFFICES ASSUME T # {} PROVE FALSE
    OBVIOUS
  <2>1. PICK j \in T : \A k \in T : j <= k
    <3>1. T \in SUBSET Nat
      BY <1>0
    <3> HIDE DEF T
    <3> QED BY <3>1, LeastNumber
  <2>2. j # d
    BY <1>9, <2>1
  <2>3. j - 1 \in d .. m /\ j \in 1 .. m
    BY <1>0, <2>1, <2>2
  <2>4. W(j - 1) \in {B(j - 1), Undefined}
    <3>1. j \in Int /\ j - 1 \in Int /\ ~(j <= j - 1)
      BY <2>3
    <3>2. j - 1 \notin T
      BY <2>1, <3>1
    <3> QED BY <2>3, <3>2
  <2>5. W(j) \in {B(j), Undefined}
    BY <1>3, <1>4, <1>7, <2>3, <2>4
  <2> QED BY <2>1, <2>5
<1>11. m \in d .. m
  BY <1>0
<1>12. ValueAt(P, r) = Undefined
  BY <1>6, <1>10, <1>11
<1> QED BY <1>12 DEF P

-----------------------------------------------------------------------------

(***************************************************************************)
(* What a branch of some leaves has nowhere else.                          *)
(***************************************************************************)
IterBranch(p, v, iter, s) ==
    IF s = {} THEN Undefined
    ELSE Patch(iter[s \ {CHOOSE k \in s : TRUE}], Relative(CHOOSE k \in s : TRUE, p),
               ValueAt(v, Relative(CHOOSE k \in s : TRUE, p)))

LEMMA BranchIterExists ==
    ASSUME NEW S, IsFiniteSet(S), NEW p, NEW v
    PROVE  \E iter : iter = [s \in SUBSET S |-> IterBranch(p, v, iter, s)]
<1> DEFINE Small(m) == {s \in SUBSET S : Cardinality(s) <= m}
           Is(g, m) == g = [s \in Small(m) |-> IterBranch(p, v, g, s)]
           T == {m \in Nat : ~ \E g : Is(g, m)}
<1>0. \A s \in SUBSET S : IsFiniteSet(s) /\ Cardinality(s) \in Nat /\ Cardinality(s) <= Cardinality(S)
  BY FS_Subset, FS_CardinalityType
<1>1. Is([s \in Small(0) |-> Undefined], 0)
  <2>1. \A s \in Small(0) : s = {}
    BY <1>0, FS_EmptySet
  <2> QED BY <2>1 DEF IterBranch
<1>2. ASSUME NEW m \in Nat \ {0}, NEW g, Is(g, m - 1) PROVE \E h : Is(h, m)
  <2> DEFINE h == [s \in Small(m) |-> IterBranch(p, v, g, s)]
  <2>1. ASSUME NEW s \in Small(m) PROVE h[s] = IterBranch(p, v, h, s)
    <3>1. CASE s = {}
      BY <3>1 DEF IterBranch
    <3>2. CASE s # {}
      <4> DEFINE t == s \ {CHOOSE k \in s : TRUE}
      <4>1. t \in Small(m - 1) /\ t \in Small(m)
        <5>1. (CHOOSE k \in s : TRUE) \in s
          BY <3>2
        <5>2. IsFiniteSet(s) /\ Cardinality(s) \in Nat /\ Cardinality(s) <= m
          BY <1>0
        <5>3. Cardinality(t) = Cardinality(s) - 1
          BY <5>1, <5>2, FS_RemoveElement
        <5>4. Cardinality(t) <= m - 1 /\ Cardinality(t) <= m
          BY <5>2, <5>3
        <5> HIDE DEF Is
        <5>5. t \in SUBSET S
          OBVIOUS
        <5> HIDE DEF t
        <5> QED BY <5>4, <5>5
      <4>2. g[t] = IterBranch(p, v, g, t)
        BY <1>2, <4>1
      <4>3. h[t] = g[t]
        BY <4>1, <4>2
      <4>4. h[s] = IterBranch(p, v, g, s)
        OBVIOUS
      <4> HIDE DEF h
      <4> QED BY <3>2, <4>3, <4>4 DEF IterBranch
    <3> QED BY <3>1, <3>2
  <2>2. h = [s \in Small(m) |-> h[s]]
    OBVIOUS
  <2> HIDE DEF h
  <2>3. h = [s \in Small(m) |-> IterBranch(p, v, h, s)]
    BY <2>1, <2>2
  <2> QED BY <2>3
<1> HIDE DEF Is
<1>3. T = {}
  <2> SUFFICES ASSUME T # {} PROVE FALSE
    OBVIOUS
  <2>1. PICK m \in T : \A t \in T : m <= t
    BY LeastNumber
  <2>2. m # 0
    BY <1>1, <2>1
  <2>3. m - 1 \in Nat /\ m - 1 \notin T
    BY <2>1, <2>2
  <2>4. PICK g : Is(g, m - 1)
    BY <2>3
  <2> QED BY <1>2, <2>1, <2>2, <2>4
<1>4. PICK iter : Is(iter, Cardinality(S))
  BY <1>3, FS_CardinalityType
<1>5. Small(Cardinality(S)) = SUBSET S
  BY <1>0
<1> QED BY <1>4, <1>5 DEF Is

IsBranchIter(p, S, v, iter) == iter = [s \in SUBSET S |-> IterBranch(p, v, iter, s)]

LEMMA BranchIterIs ==
    ASSUME NEW S, IsFiniteSet(S), NEW p, NEW v
    PROVE  \E iter : IsBranchIter(p, S, v, iter) /\ Branch(p, S, v) = iter[S]
<1> DEFINE chosen == CHOOSE g : g = [s \in SUBSET S |-> IterBranch(p, v, g, s)]
<1>1. Branch(p, S, v) = chosen[S]
  BY DEF Branch, FoldSet, MapThenFoldSet, IterBranch
<1>2. chosen = [s \in SUBSET S |-> IterBranch(p, v, chosen, s)]
  BY BranchIterExists
<1> QED BY <1>1, <1>2 DEF IsBranchIter

\* The paths part before either of them ends.
Part(q, r) ==
    \E d \in 1 .. Len(q) : d <= Len(r) /\ q[d] # r[d] /\ \A j \in 1 .. d - 1 : q[j] = r[j]

\* PatchElsewhere by that name.
LEMMA PatchApart ==
    ASSUME NEW b, NEW S, NEW q \in Seq(S), NEW r \in Seq(S), NEW x, Part(q, r),
           ValueAt(b, r) = Undefined
    PROVE  ValueAt(Patch(b, q, x), r) = Undefined
  BY PatchElsewhere DEF Part

\* A branch has nothing at a path that parts from those of all its leaves.
LEMMA BranchElsewhere ==
    ASSUME NEW M, IsFiniteSet(M), NEW p, NEW v, NEW S, NEW r \in Seq(S),
           \A k \in M : Relative(k, p) \in Seq(S) /\ Part(Relative(k, p), r)
    PROVE  ValueAt(Branch(p, M, v), r) = Undefined
<1>1. PICK iter : IsBranchIter(p, M, v, iter) /\ Branch(p, M, v) = iter[M]
  BY BranchIterIs
<1>2. iter = [s \in SUBSET M |-> IterBranch(p, v, iter, s)]
  BY <1>1 DEF IsBranchIter
<1>0. \A s \in SUBSET M : IsFiniteSet(s) /\ Cardinality(s) \in Nat
  BY FS_Subset, FS_CardinalityType
<1> DEFINE Wrong == {s \in SUBSET M : ValueAt(iter[s], r) # Undefined}
           T == {Cardinality(s) : s \in Wrong}
<1>3. T = {}
  <2> SUFFICES ASSUME T # {} PROVE FALSE
    OBVIOUS
  <2>1. PICK m \in T : \A t \in T : m <= t
    <3>1. T \in SUBSET Nat
      BY <1>0
    <3> HIDE DEF T
    <3> QED BY <3>1, LeastNumber
  <2>2. PICK s \in Wrong : m = Cardinality(s)
    BY <2>1
  <2>3. iter[s] = IterBranch(p, v, iter, s) /\ ValueAt(iter[s], r) # Undefined /\ s \in SUBSET M
    BY <1>2, <2>2
  <2>4. s # {}
    <3>1. ValueAt(Undefined, r) = Undefined
      BY ValueAtUndefined
    <3> QED BY <2>3, <3>1 DEF IterBranch
  <2>5. PICK k \in s : k = CHOOSE l \in s : TRUE
    BY <2>4
  <2> DEFINE t == s \ {k}
  <2>6. iter[s] = Patch(iter[t], Relative(k, p), ValueAt(v, Relative(k, p)))
    BY <2>3, <2>4, <2>5 DEF IterBranch
  <2>7. t \in SUBSET M /\ Cardinality(t) = m - 1 /\ m \in Nat
    BY <1>0, <2>2, <2>3, FS_RemoveElement
  <2>8. Cardinality(t) \notin T
    <3> HIDE DEF T, t
    <3> QED BY <1>0, <2>1, <2>7
  <2>9. ValueAt(iter[t], r) = Undefined
    BY <2>7, <2>8
  <2> HIDE DEF t
  <2>10. Relative(k, p) \in Seq(S) /\ Part(Relative(k, p), r)
    BY <2>3
  <2>11. ValueAt(iter[s], r) = Undefined
    BY <2>6, <2>9, <2>10, PatchApart
  <2> QED BY <2>3, <2>11
<1>4. M \notin Wrong
  BY <1>3
<1> QED BY <1>1, <1>4

\* Below one path, paths of which neither is a prefix of the other part.
LEMMA SiblingsPart ==
    ASSUME NEW S, NEW p \in Seq(S), NEW k \in Seq(S), NEW l \in Seq(S),
           IsStrictPrefix(p, k), IsStrictPrefix(p, l), ~IsPrefix(k, l), ~IsPrefix(l, k)
    PROVE  Part(Relative(k, p), Relative(l, p))
<1> DEFINE D == {d \in 1 .. Len(k) : d <= Len(l) /\ k[d] # l[d]}
<1>1. /\ \A j \in 1 .. Len(p) : p[j] = k[j] /\ p[j] = l[j]
      /\ Len(p) <= Len(k) /\ Len(p) <= Len(l)
  <2>1. Len(p) <= Len(k) /\ Len(p) <= Len(l) /\ SubSeq(p, 1, Len(p)) = SubSeq(k, 1, Len(p))
        /\ SubSeq(p, 1, Len(p)) = SubSeq(l, 1, Len(p))
    BY DEF IsStrictPrefix, IsPrefix
  <2>2. ASSUME NEW j \in 1 .. Len(p) PROVE p[j] = k[j] /\ p[j] = l[j]
    <3>1. SubSeq(p, 1, Len(p))[j] = p[j] /\ SubSeq(k, 1, Len(p))[j] = k[j] /\ SubSeq(l, 1, Len(p))[j] = l[j]
      BY <2>1
    <3> QED BY <2>1, <3>1
  <2> QED BY <2>1, <2>2
<1>2. D # {}
  <2> SUFFICES ASSUME D = {} PROVE FALSE
    OBVIOUS
  <2>1. CASE Len(k) <= Len(l)
    <3>1. SubSeq(k, 1, Len(k)) = SubSeq(l, 1, Len(k))
      BY <2>1
    <3> QED BY <2>1, <3>1 DEF IsPrefix
  <2>2. CASE Len(l) <= Len(k)
    <3>1. SubSeq(l, 1, Len(l)) = SubSeq(k, 1, Len(l))
      BY <2>2
    <3> QED BY <2>2, <3>1 DEF IsPrefix
  <2> QED BY <2>1, <2>2
<1>3. PICK d \in D : \A j \in D : d <= j
  <2>1. D \in SUBSET Nat
    OBVIOUS
  <2> HIDE DEF D
  <2> QED BY <1>2, <2>1, LeastNumber
<1>4. d \in 1 .. Len(k) /\ d <= Len(l) /\ k[d] # l[d] /\ \A j \in 1 .. d - 1 : k[j] = l[j]
  BY <1>3
<1>5. d > Len(p)
  BY <1>1, <1>4
<1>6. PICK e \in Nat : d = Len(p) + e /\ e > 0
  <2>1. d - Len(p) \in Nat /\ d - Len(p) > 0 /\ d = Len(p) + (d - Len(p))
    BY <1>4, <1>5
  <2> QED BY <2>1
<1>7. /\ Len(Relative(k, p)) = Len(k) - Len(p) /\ \A j \in 1 .. Len(k) - Len(p) : Relative(k, p)[j] = k[Len(p) + j]
      /\ Len(Relative(l, p)) = Len(l) - Len(p) /\ \A j \in 1 .. Len(l) - Len(p) : Relative(l, p)[j] = l[Len(p) + j]
  BY <1>1 DEF Relative
<1>8. e \in 1 .. Len(k) - Len(p) /\ e <= Len(l) - Len(p)
  BY <1>4, <1>6
<1>9. \A j \in 1 .. e - 1 : Len(p) + j \in 1 .. d - 1 /\ j \in 1 .. Len(k) - Len(p) /\ j \in 1 .. Len(l) - Len(p)
  BY <1>6, <1>8
<1> HIDE DEF D
<1>10. Relative(k, p)[e] # Relative(l, p)[e]
  BY <1>4, <1>6, <1>7, <1>8
<1>11. \A j \in 1 .. e - 1 : Relative(k, p)[j] = Relative(l, p)[j]
  BY <1>4, <1>7, <1>9
<1> QED BY <1>7, <1>8, <1>10, <1>11 DEF Part

-----------------------------------------------------------------------------

(***************************************************************************)
(* The leaf, or the leaves, an operation finds.                            *)
(***************************************************************************)
\* A prefix, index by index.
LEMMA PrefixByIndex ==
    ASSUME NEW S, NEW s \in Seq(S), NEW t \in Seq(S)
    PROVE  IsPrefix(s, t) <=> Len(s) <= Len(t) /\ \A j \in 1 .. Len(s) : s[j] = t[j]
<1>1. ASSUME Len(s) <= Len(t)
      PROVE  SubSeq(s, 1, Len(s)) = SubSeq(t, 1, Len(s)) <=> \A j \in 1 .. Len(s) : s[j] = t[j]
  <2>1. /\ \A j \in 1 .. Len(s) : SubSeq(s, 1, Len(s))[j] = s[j] /\ SubSeq(t, 1, Len(s))[j] = t[j]
        /\ SubSeq(s, 1, Len(s)) \in Seq(S) /\ SubSeq(t, 1, Len(s)) \in Seq(S)
        /\ Len(SubSeq(s, 1, Len(s))) = Len(s) /\ Len(SubSeq(t, 1, Len(s))) = Len(s)
    BY <1>1
  <2> QED BY <2>1
<1> QED BY <1>1 DEF IsPrefix

\* Two prefixes of one path are prefixes of each other.
LEMMA PrefixesOfOne ==
    ASSUME NEW S, NEW k \in Seq(S), NEW l \in Seq(S), NEW p \in Seq(S)
    PROVE  /\ IsStrictPrefix(k, p) /\ IsStrictPrefix(l, p) /\ k # l =>
                 IsStrictPrefix(k, l) \/ IsStrictPrefix(l, k)
           /\ IsStrictPrefix(k, p) /\ IsStrictPrefix(p, l) => IsStrictPrefix(k, l)
<1>1. ASSUME IsStrictPrefix(k, p), IsStrictPrefix(l, p), k # l
      PROVE  IsStrictPrefix(k, l) \/ IsStrictPrefix(l, k)
  <2>1. /\ Len(k) <= Len(p) /\ \A j \in 1 .. Len(k) : k[j] = p[j]
        /\ Len(l) <= Len(p) /\ \A j \in 1 .. Len(l) : l[j] = p[j]
    BY <1>1, PrefixByIndex DEF IsStrictPrefix
  <2>2. CASE Len(k) <= Len(l)
    <3>1. \A j \in 1 .. Len(k) : k[j] = l[j]
      BY <2>1, <2>2
    <3> QED BY <1>1, <2>2, <3>1, PrefixByIndex DEF IsStrictPrefix
  <2>3. CASE Len(l) <= Len(k)
    <3>1. \A j \in 1 .. Len(l) : k[j] = l[j]
      BY <2>1, <2>3
    <3> QED BY <1>1, <2>3, <3>1, PrefixByIndex DEF IsStrictPrefix
  <2> QED BY <2>2, <2>3
<1>2. ASSUME IsStrictPrefix(k, p), IsStrictPrefix(p, l) PROVE IsStrictPrefix(k, l)
  <2>1. /\ Len(k) <= Len(p) /\ \A j \in 1 .. Len(k) : k[j] = p[j]
        /\ Len(p) <= Len(l) /\ \A j \in 1 .. Len(p) : p[j] = l[j]
        /\ k # p
    BY <1>2, PrefixByIndex DEF IsStrictPrefix
  <2>2. Len(k) <= Len(l) /\ \A j \in 1 .. Len(k) : k[j] = l[j]
    BY <2>1
  <2>3. k # l
    <3> SUFFICES ASSUME k = l PROVE FALSE
      OBVIOUS
    <3>1. Len(k) = Len(p)
      BY <2>1
    <3> QED BY <2>1, <3>1
  <2> QED BY <2>2, <2>3, PrefixByIndex DEF IsStrictPrefix
<1> QED BY <1>1, <1>2

\* findMatchingLeafNodes, where no leaf is below another one: the leaf at the path,
\* or the one above it, or those below it.
LEMMA OneMatch ==
    ASSUME NEW S, EntityPath \subseteq Seq(S), NEW L \in SUBSET Key, HeritageFree(L), NEW p \in EntityPath
    PROVE  /\ p \in L => Above(L, p) = {} /\ Below(L, p) = {}
           /\ \A k \in Above(L, p) : Above(L, p) = {k} /\ Below(L, p) = {} /\ p \notin L
<1>1. /\ \A k \in L : k \in Key /\ k \in Seq(S)
      /\ p \in Seq(S)
  BY PathAssumption
<1>2. \A k, l \in L : ~IsStrictPrefix(k, l)
  BY <1>1, PathAssumption DEF HeritageFree
<1>3. p \in L => Above(L, p) = {} /\ Below(L, p) = {}
  BY <1>2 DEF Above, Below
<1>4. ASSUME NEW k \in Above(L, p) PROVE Above(L, p) = {k} /\ Below(L, p) = {} /\ p \notin L
  <2>1. k \in L /\ IsStrictPrefix(k, p)
    BY DEF Above
  <2>2. ASSUME NEW l \in Above(L, p) PROVE l = k
    <3>1. l \in L /\ IsStrictPrefix(l, p)
      BY DEF Above
    <3> QED BY <1>1, <1>2, <2>1, <3>1, PrefixesOfOne
  <2>3. ASSUME NEW l \in Below(L, p) PROVE FALSE
    <3>1. l \in L /\ IsStrictPrefix(p, l)
      BY DEF Below
    <3> QED BY <1>1, <1>2, <2>1, <3>1, PrefixesOfOne
  <2>4. p \notin L
    BY <1>3
  <2> QED BY <2>2, <2>3, <2>4
<1> QED BY <1>3, <1>4

-----------------------------------------------------------------------------

(***************************************************************************)
(* What a reader would see if the transaction were committed now is what   *)
(* its operations mean.                                                    *)
(***************************************************************************)
Pending(k) == IF k \in Own THEN OwnValue(k) ELSE View(k)

PendingIsMeant == \A k \in Key : expected[k] = Pending(k)

LEMMA AppendedLast ==
    ASSUME NEW S, NEW s \in Seq(S), NEW e \in S
    PROVE  Last(Append(s, e)) = e
<1>1. Len(s) \in Nat /\ Len(Append(s, e)) = Len(s) + 1 /\ Append(s, e)[Len(s) + 1] = e
  OBVIOUS
<1> QED BY <1>1 DEF Last

LEMMA PendingType ==
    ASSUME InvTx, NEW k \in Key
    PROVE  Pending(k) \in Data
<1>1. View(k) \in Data
  BY ViewType DEF InvTx, InvStore
<1>2. CASE k \in Own
  <2>1. written[k] \in Seq(Data) /\ written[k] # <<>>
    BY <1>2 DEF InvTx, TypeOKTx, Own
  <2>2. Last(written[k]) \in Data
    BY <2>1, LastOf
  <2> QED BY <1>2, <2>2 DEF Pending, OwnValue
<1> QED BY <1>1, <1>2 DEF Pending

\* A leaf is written, and what else is pending stays.
LEMMA WrittenIsPending ==
    ASSUME InvTx, UNCHANGED storeVars, NEW k \in Key, NEW s, s = written[k] \/ s = Front(written[k]),
           s \in Seq(Data), NEW x \in Data,
           written' = [written EXCEPT ![k] = Append(s, x)]
    PROVE  Pending(k)' = x /\ \A l \in Key \ {k} : Pending(l)' = Pending(l)
<1>1. written \in [Key -> Seq(Data)]
  BY DEF InvTx, TypeOKTx
<1>2. written'[k] = Append(s, x) /\ \A l \in Key \ {k} : written'[l] = written[l]
  BY <1>1
<1>3. Append(s, x) # <<>> /\ Last(Append(s, x)) = x
  BY AppendOf, AppendedLast
<1>4. \A l \in Key : View(l)' = View(l)
  BY DEF View, storeVars
<1>5. k \in Own' /\ OwnValue(k)' = x
  BY <1>2, <1>3 DEF Own, OwnValue
<1>6. \A l \in Key \ {k} : (l \in Own' <=> l \in Own) /\ OwnValue(l)' = OwnValue(l)
  BY <1>2 DEF Own, OwnValue
<1> QED BY <1>4, <1>5, <1>6 DEF Pending

\* Nothing is written, and what is pending stays.
LEMMA NothingWritten ==
    ASSUME UNCHANGED <<storeVars, written>>, NEW k \in Key
    PROVE  Pending(k)' = Pending(k)
<1>1. View(k)' = View(k)
  BY DEF View, storeVars
<1>2. (k \in Own' <=> k \in Own) /\ OwnValue(k)' = OwnValue(k)
  BY DEF Own, OwnValue
<1> QED BY <1>1, <1>2 DEF Pending

\* A put: the leaf holds what was put.
LEMMA PutMeant ==
    ASSUME InvTx, PendingIsMeant, NEW p \in Key, NEW x \in NewValues[p] \cup {Undefined}, Put(p, x)
    PROVE  PendingIsMeant'
<1>1. UNCHANGED storeVars /\ written' = [written EXCEPT ![p] = Append(written[p], x)]
      /\ expected' = [expected EXCEPT ![p] = x] /\ expected \in [Key -> Data]
      /\ written[p] \in Seq(Data)
  BY DEF Put, NextOperation, Write, InvTx, TypeOKTx
<1>2. x \in Data
  BY NewValuesAssumption DEF Data
<1>3. Pending(p)' = x /\ \A l \in Key \ {p} : Pending(l)' = Pending(l)
  BY <1>1, <1>2, WrittenIsPending
<1>4. \A k \in Key : expected'[k] = Pending(k)'
  BY <1>1, <1>3 DEF PendingIsMeant
<1> QED BY <1>4 DEF PendingIsMeant

\* At the start nothing is pending.
LEMMA BeginMeant ==
    ASSUME Begin
    PROVE  PendingIsMeant' /\ \A k \in Key : ~WritesBack(k)'
<1>1. UNCHANGED storeVars /\ written' = [k \in Key |-> <<>>] /\ expected' = [k \in Key |-> View(k)]
  BY DEF Begin, NoneWritten
<1>2. ASSUME NEW k \in Key PROVE expected'[k] = Pending(k)' /\ ~WritesBack(k)'
  <2>1. View(k)' = View(k)
    BY <1>1 DEF View, storeVars
  <2>2. k \notin Own'
    BY <1>1 DEF Own
  <2>3. 1 .. Len(written'[k]) = {}
    BY <1>1
  <2>4. Kept(k)' = {}
    BY <2>3 DEF Kept
  <2> QED BY <1>1, <2>1, <2>2, <2>4 DEF Pending, WritesBack
<1> QED BY <1>2 DEF PendingIsMeant

\* A path below another one, as seen from there.
LEMMA RelativeType ==
    ASSUME NEW S, NEW p \in Seq(S), NEW k \in Seq(S), IsStrictPrefix(k, p)
    PROVE  Relative(p, k) \in Seq(S)
<1>1. Len(k) <= Len(p)
  BY DEF IsStrictPrefix, IsPrefix
<1> QED BY <1>1 DEF Relative

\* An update at a leaf changes what that leaf means, and one below a leaf changes
\* that leaf.
LEMMA MeansOneLeaf ==
    ASSUME InvTx, running, NEW Names, EntityPath \subseteq Seq(Names),
           NEW p \in EntityPath, NEW x, Means(p, x)
    PROVE  /\ p \in lookup \cup Own =>
                 expected'[p] = x /\ \A l \in Key \ {p} : expected'[l] = expected[l]
           /\ \A k \in Above(lookup \cup Own, p) :
                 /\ expected'[k] = Patch(expected[k], Relative(p, k), x)
                 /\ \A l \in Key \ {k} : expected'[l] = expected[l]
<1> DEFINE L == lookup \cup Own
<1>1. L \in SUBSET Key /\ HeritageFree(L)
  BY DEF InvTx, InvStore, TypeOKStore, WritesShareNoHeritage, Own
<1>2. \A k \in Key : expected'[k] =
          IF k \in Above(L, p) THEN Patch(expected[k], Relative(p, k), x)
          ELSE IF k \in Below(L, p) THEN ValueAt(x, Relative(k, p))
          ELSE IF k = p /\ k \in L THEN x
          ELSE expected[k]
  BY DEF Means
<1> HIDE DEF L
<1>3. /\ p \in L => Above(L, p) = {} /\ Below(L, p) = {}
      /\ \A k \in Above(L, p) : Above(L, p) = {k} /\ Below(L, p) = {} /\ p \notin L
  BY <1>1, OneMatch
<1>4. \A k \in Above(L, p) : k \in Key
  BY <1>1 DEF Above
<1>5. p \in L => expected'[p] = x /\ \A l \in Key \ {p} : expected'[l] = expected[l]
  BY <1>1, <1>2, <1>3
<1>6. ASSUME NEW k \in Above(L, p)
      PROVE  /\ expected'[k] = Patch(expected[k], Relative(p, k), x)
             /\ \A l \in Key \ {k} : expected'[l] = expected[l]
  BY <1>2, <1>3, <1>4
<1> QED BY <1>5, <1>6 DEF L

\* An update or a deletion of a leaf.
LEMMA UpdateOwnLeafMeant ==
    ASSUME InvTx, running, PendingIsMeant, NEW Names, EntityPath \subseteq Seq(Names),
           NEW p \in EntityPath, NEW x \in NewValues[p] \cup {Undefined},
           UNCHANGED storeVars, Means(p, x), p \in lookup \cup Own, Write(p, x)
    PROVE  PendingIsMeant'
<1>1. p \in Key
  BY DEF InvTx, InvStore, TypeOKStore, Own
<1>2. x \in Data
  BY <1>1, NewValuesAssumption DEF Data
<1>3. expected'[p] = x /\ \A l \in Key \ {p} : expected'[l] = expected[l]
  BY MeansOneLeaf
<1>4. written[p] \in Seq(Data) /\ written' = [written EXCEPT ![p] = Append(written[p], x)]
  BY <1>1 DEF InvTx, TypeOKTx, Write
<1>5. Pending(p)' = x /\ \A l \in Key \ {p} : Pending(l)' = Pending(l)
  BY <1>1, <1>2, <1>4, WrittenIsPending
<1>6. \A k \in Key : expected'[k] = Pending(k)'
  BY <1>3, <1>5 DEF PendingIsMeant
<1> QED BY <1>6 DEF PendingIsMeant

\* The value of a leaf is patched, or has at the path what it is patched with.
LEMMA UpdateInOneLeafMeant ==
    ASSUME InvTx, running, PendingIsMeant, NEW Names, EntityPath \subseteq Seq(Names),
           NEW trees, AreTrees(trees), Value \subseteq trees,
           NEW p \in EntityPath, NEW x \in NewValues[p] \cup {Undefined},
           UNCHANGED storeVars, Means(p, x), NEW k \in Above(lookup \cup Own, p),
           \/ written' = [written EXCEPT ![k] = Append(written[k], Patch(Pending(k), Relative(p, k), x))]
           \/ /\ k \in Own
              /\ written' = [written EXCEPT ![k] = Append(Front(written[k]), Patch(Pending(k), Relative(p, k), x))]
           \/ /\ ValueAt(Pending(k), Relative(p, k)) = x
              /\ UNCHANGED written
    PROVE  PendingIsMeant'
<1>1. k \in Key /\ IsStrictPrefix(k, p)
  BY DEF InvTx, InvStore, TypeOKStore, Own, Above
<1>2. /\ expected'[k] = Patch(Pending(k), Relative(p, k), x)
      /\ \A l \in Key \ {k} : expected'[l] = expected[l]
  <2>1. expected[k] = Pending(k)
    BY <1>1 DEF PendingIsMeant
  <2>2. /\ expected'[k] = Patch(expected[k], Relative(p, k), x)
        /\ \A l \in Key \ {k} : expected'[l] = expected[l]
    <3>1. \A m \in Above(lookup \cup Own, p) :
             /\ expected'[m] = Patch(expected[m], Relative(p, m), x)
             /\ \A l \in Key \ {m} : expected'[l] = expected[l]
      BY MeansOneLeaf
    <3> QED BY <3>1
  <2> QED BY <2>1, <2>2
<1>3. Pending(k) \in Data
  BY <1>1, PendingType
<1> DEFINE patched == Patch(Pending(k), Relative(p, k), x)
<1>4. patched \in Data
  BY <1>1, <1>3, ClosureAssumption
<1>5. written[k] \in Seq(Data) /\ (k \in Own => Front(written[k]) \in Seq(Data))
  <2>1. written[k] \in Seq(Data)
    BY <1>1 DEF InvTx, TypeOKTx
  <2> QED BY <2>1, LastOf DEF Own
<1>6. CASE ValueAt(Pending(k), Relative(p, k)) = x /\ UNCHANGED written
  <2>1. Relative(p, k) \in Seq(Names)
    BY <1>1, PathAssumption, RelativeType
  <2>2. Pending(k) \in trees \cup {Undefined}
    BY <1>3 DEF Data
  <2>3. patched = Pending(k)
    BY <1>6, <2>1, <2>2, PatchSame
  <2>4. \A l \in Key : Pending(l)' = Pending(l)
    BY <1>6, NothingWritten
  <2> HIDE DEF patched
  <2>5. \A l \in Key : expected'[l] = Pending(l)'
    BY <1>2, <2>3, <2>4 DEF PendingIsMeant, patched
  <2> QED BY <2>5 DEF PendingIsMeant
<1>7. CASE ~(ValueAt(Pending(k), Relative(p, k)) = x /\ UNCHANGED written)
  <2>1. PICK s : /\ s = written[k] \/ s = Front(written[k])
                 /\ s \in Seq(Data)
                 /\ written' = [written EXCEPT ![k] = Append(s, patched)]
    BY <1>5, <1>7
  <2>2. Pending(k)' = patched /\ \A l \in Key \ {k} : Pending(l)' = Pending(l)
    <3> HIDE DEF patched
    <3> QED BY <1>1, <1>4, <2>1, WrittenIsPending
  <2>3. \A l \in Key : expected'[l] = Pending(l)'
    <3> HIDE DEF Pending
    <3> QED BY <1>2, <2>2 DEF PendingIsMeant
  <2> QED BY <2>3 DEF PendingIsMeant
<1> QED BY <1>6, <1>7

\* Leaves below the path: those that have their part of the new value already are
\* not written, and those of which nothing was found have no part in it.
LEMMA UpdateBranchMeant ==
    ASSUME InvTx, running, PendingIsMeant, NEW Names, EntityPath \subseteq Seq(Names), IsFiniteSet(Key),
           NEW p \in EntityPath, NEW x \in NewValues[p] \cup {Undefined},
           UNCHANGED storeVars, Means(p, x), UpdateBranch(p, x)
    PROVE  PendingIsMeant'
<1> DEFINE L == lookup \cup Own
           part(k) == ValueAt(x, Relative(k, p))
<1>1. L \in SUBSET Key /\ HeritageFree(L) /\ lookup \in SUBSET Key
  BY DEF InvTx, InvStore, TypeOKStore, WritesShareNoHeritage, Own
<1>2. Above(L, p) = {} /\ p \notin L
  <2>1. Below(L, p) # {}
    BY DEF UpdateBranch
  <2> HIDE DEF L
  <2> QED BY <1>1, <2>1, OneMatch
<1>3. \A k \in Key : expected'[k] = IF k \in Below(L, p) THEN part(k) ELSE expected[k]
  <2>1. \A k \in Key : expected'[k] =
          IF k \in Above(L, p) THEN Patch(expected[k], Relative(p, k), x)
          ELSE IF k \in Below(L, p) THEN part(k)
          ELSE IF k = p /\ k \in L THEN x
          ELSE expected[k]
    BY DEF Means
  <2> HIDE DEF L, part
  <2> QED BY <1>2, <2>1
<1>4. \A k \in Key : written'[k] = IF k \in ChangedBelow(p, x) THEN Append(written[k], part(k)) ELSE written[k]
  BY DEF UpdateBranch
<1>5. \A k \in Below(L, p) : k \in Key /\ IsStrictPrefix(p, k) /\ Relative(k, p) \in Seq(Names)
  <2>1. \A k \in Below(L, p) : k \in Key /\ IsStrictPrefix(p, k)
    BY <1>1 DEF Below
  <2>2. \A k \in Key : k \in Seq(Names)
    BY PathAssumption
  <2> QED BY <2>1, <2>2, RelativeType
<1>6. Matched(p) \subseteq Below(L, p)
  BY DEF Matched, Below
<1>7. \A k \in Key : View(k)' = View(k)
  BY DEF View, storeVars
<1>8. ASSUME NEW k \in Key, k \in ChangedBelow(p, x)
      PROVE  expected'[k] = Pending(k)'
  <2>1. k \in Below(L, p)
    BY <1>6, <1>8 DEF ChangedBelow
  <2>2. part(k) \in Data
    BY <1>5, <2>1, ClosureAssumption
  <2>3. written[k] \in Seq(Data) /\ written'[k] = Append(written[k], part(k))
    BY <1>4, <1>8 DEF InvTx, TypeOKTx
  <2> HIDE DEF part
  <2>4. k \in Own' /\ OwnValue(k)' = part(k)
    BY <2>2, <2>3, AppendOf, AppendedLast DEF Own, OwnValue
  <2>5. expected'[k] = part(k)
    BY <1>3, <2>1
  <2> QED BY <2>4, <2>5 DEF Pending
<1>9. ASSUME NEW k \in Key, k \notin ChangedBelow(p, x)
      PROVE  expected'[k] = Pending(k)'
  <2>1. Pending(k)' = Pending(k)
    <3>1. written'[k] = written[k]
      BY <1>4, <1>9
    <3>2. (k \in Own' <=> k \in Own) /\ OwnValue(k)' = OwnValue(k)
      BY <3>1 DEF Own, OwnValue
    <3> QED BY <1>7, <3>2 DEF Pending
  <2>2. CASE k \notin Below(L, p)
    <3>1. expected'[k] = expected[k]
      BY <1>3, <2>2
    <3> QED BY <2>1, <3>1 DEF PendingIsMeant
  <2>3. CASE k \in Below(L, p) /\ k \in Own
    <3>1. k \in Matched(p)
      BY <2>3 DEF Matched, Below
    <3>2. part(k) = OwnValue(k)
      BY <1>9, <2>3, <3>1 DEF ChangedBelow
    <3>3. expected'[k] = part(k)
      BY <1>3, <2>3
    <3> QED BY <2>1, <2>3, <3>2, <3>3 DEF Pending
  <2>4. CASE k \in Below(L, p) /\ k \notin Own /\ Found(Below(lookup, p), k)
    <3>1. k \in lookup /\ k \in Below(lookup, p) /\ k \in Matched(p)
      BY <2>4 DEF Matched, Below
    <3>2. part(k) = View(k)
      BY <1>9, <2>4, <3>1 DEF ChangedBelow
    <3>3. expected'[k] = part(k)
      BY <1>3, <2>4
    <3> QED BY <2>1, <2>4, <3>2, <3>3 DEF Pending
  <2>5. CASE k \in Below(L, p) /\ k \notin Own /\ ~Found(Below(lookup, p), k)
    <3>1. View(k) = Undefined
      BY <2>5 DEF Found
    <3>2. k \notin Matched(p)
      BY <2>5 DEF Matched, Below
    <3>3. ASSUME x = Undefined PROVE part(k) = Undefined
      <4>1. Relative(k, p) \in Seq(Names)
        BY <1>5, <2>5
      <4> QED BY <3>3, <4>1, ValueAtUndefined
    <3>4. ASSUME x = Branch(p, Matched(p), x) PROVE part(k) = Undefined
      <4>1. IsFiniteSet(Matched(p))
        <5>1. Matched(p) \in SUBSET Key
          BY <1>5, <1>6
        <5> QED BY <5>1, FS_Subset
      <4>2. ASSUME NEW l \in Matched(p)
            PROVE  Relative(l, p) \in Seq(Names) /\ Part(Relative(l, p), Relative(k, p))
        <5>1. /\ l \in Key /\ l \in L /\ l \in Seq(Names) /\ IsStrictPrefix(p, l) /\ Relative(l, p) \in Seq(Names)
              /\ k \in L /\ k \in Seq(Names) /\ IsStrictPrefix(p, k)
              /\ l # k /\ p \in Seq(Names)
          BY <1>5, <1>6, <2>5, <3>2, PathAssumption DEF Below
        <5>2. ~IsPrefix(k, l) /\ ~IsPrefix(l, k)
          BY <1>1, <5>1, PathAssumption DEF HeritageFree, IsStrictPrefix
        <5> QED BY <5>1, <5>2, SiblingsPart
      <4>3. Relative(k, p) \in Seq(Names)
        BY <1>5, <2>5
      <4>4. ValueAt(Branch(p, Matched(p), x), Relative(k, p)) = Undefined
        BY <4>1, <4>2, <4>3, BranchElsewhere
      <4> QED BY <3>4, <4>4
    <3>5. part(k) = Undefined
      BY <3>3, <3>4 DEF UpdateBranch, FitsBranch
    <3>6. expected'[k] = part(k)
      BY <1>3, <2>5
    <3> QED BY <2>1, <2>5, <3>1, <3>5, <3>6 DEF Pending
  <2> QED BY <2>2, <2>3, <2>4, <2>5
<1>10. \A k \in Key : expected'[k] = Pending(k)'
  BY <1>8, <1>9
<1> QED BY <1>10 DEF PendingIsMeant

\* The five ways of processUpdateOrDeleteOperation.  A leaf of which nothing is
\* found is left out, which is right for a deletion alone.
LEMMA UpdateMeant ==
    ASSUME InvTx, PendingIsMeant, "updateDeleted" \notin Allowed,
           NEW Names, EntityPath \subseteq Seq(Names), IsFiniteSet(Key),
           NEW trees, AreTrees(trees), Value \subseteq trees,
           NEW p \in EntityPath, NEW x \in NewValues[p] \cup {Undefined}, Update(p, x)
    PROVE  PendingIsMeant'
<1>1. running /\ UNCHANGED storeVars /\ Means(p, x)
  BY DEF Update, NextOperation
<1>2. IsDeleted(p) => x = Undefined
  BY DEF Update
<1>3. CASE UpdateOwnLeaf(p, x)
  <2>1. p \in lookup \cup Own /\ Write(p, x)
    BY <1>3 DEF UpdateOwnLeaf
  <2> QED BY <1>1, <2>1, UpdateOwnLeafMeant
<1>4. CASE UpdateInOwnLeaf(p, x)
  <2> DEFINE patched(k) == Patch(OwnValue(k), Relative(p, k), x)
  <2>1. PICK k \in Above(Own, p) :
            IF ValueAt(OwnValue(k), Relative(p, k)) = x
            THEN UNCHANGED written
            ELSE IF IsObject(OwnValue(k))
                 THEN written' = [written EXCEPT ![k] = Append(Front(written[k]), patched(k))]
                 ELSE written' = [written EXCEPT ![k] = Append(written[k], patched(k))]
    BY <1>4 DEF UpdateInOwnLeaf, Write
  <2>2. k \in Own /\ k \in Above(lookup \cup Own, p) /\ Pending(k) = OwnValue(k)
    BY DEF Above, Pending
  <2>3. \/ written' = [written EXCEPT ![k] = Append(written[k], Patch(Pending(k), Relative(p, k), x))]
        \/ /\ k \in Own
           /\ written' = [written EXCEPT ![k] = Append(Front(written[k]), Patch(Pending(k), Relative(p, k), x))]
        \/ /\ ValueAt(Pending(k), Relative(p, k)) = x
           /\ UNCHANGED written
    BY <2>1, <2>2
  <2> QED BY <1>1, <2>2, <2>3, UpdateInOneLeafMeant
<1>5. CASE UpdateLeaf(p, x)
  <2>1. p \in lookup \cup Own /\ p \in Key /\ p \notin Own
    BY <1>5 DEF UpdateLeaf, OwnMatch, InvTx, InvStore, TypeOKStore
  <2>2. CASE Write(p, x)
    BY <1>1, <2>1, <2>2, UpdateOwnLeafMeant
  <2>3. CASE ~Found({p}, p) /\ UNCHANGED written
    <3>1. IsDeleted(p) /\ View(p) = Undefined
      BY <1>5, <2>3 DEF IsDeleted, UpdateLeaf, Found
    <3>2. x = Undefined /\ Pending(p) = Undefined
      BY <1>2, <2>1, <3>1 DEF Pending
    <3>3. expected'[p] = x /\ \A l \in Key \ {p} : expected'[l] = expected[l]
      BY <1>1, <2>1, MeansOneLeaf
    <3>4. \A l \in Key : Pending(l)' = Pending(l)
      BY <1>1, <2>3, NothingWritten
    <3>5. \A l \in Key : expected'[l] = Pending(l)'
      BY <3>2, <3>3, <3>4 DEF PendingIsMeant
    <3> QED BY <3>5 DEF PendingIsMeant
  <2> QED BY <1>5, <2>2, <2>3 DEF UpdateLeaf
<1>6. CASE UpdateInLeaf(p, x)
  <2>1. PICK k \in Above(lookup, p) :
            IF Found({k}, k) /\ ValueAt(View(k), Relative(p, k)) # x
            THEN written' = [written EXCEPT ![k] = Append(written[k], Patch(View(k), Relative(p, k), x))]
            ELSE UNCHANGED written
    BY <1>6 DEF UpdateInLeaf, Write
  <2>2. k \notin Own /\ k \in Above(lookup \cup Own, p) /\ Pending(k) = View(k)
    BY <1>6 DEF UpdateInLeaf, OwnMatch, Above, Pending
  <2>3. ASSUME ~Found({k}, k) PROVE ValueAt(View(k), Relative(p, k)) = x
    <3>1. View(k) = Undefined
      BY <2>3 DEF Found
    <3>2. IsDeleted(p)
      BY <1>6, <2>3 DEF IsDeleted, UpdateInLeaf, Above
    <3>3. Relative(p, k) \in Seq(Names)
      <4>1. k \in Key /\ IsStrictPrefix(k, p)
        BY DEF Above, InvTx, InvStore, TypeOKStore
      <4> QED BY <4>1, PathAssumption, RelativeType
    <3> QED BY <1>2, <3>1, <3>2, <3>3, ValueAtUndefined
  <2>4. \/ written' = [written EXCEPT ![k] = Append(written[k], Patch(Pending(k), Relative(p, k), x))]
        \/ /\ k \in Own
           /\ written' = [written EXCEPT ![k] = Append(Front(written[k]), Patch(Pending(k), Relative(p, k), x))]
        \/ /\ ValueAt(Pending(k), Relative(p, k)) = x
           /\ UNCHANGED written
    BY <2>1, <2>2, <2>3
  <2> QED BY <1>1, <2>2, <2>4, UpdateInOneLeafMeant
<1>7. CASE UpdateBranch(p, x)
  BY <1>1, <1>7, UpdateBranchMeant
<1> QED BY <1>3, <1>4, <1>5, <1>6, <1>7 DEF Update

(***************************************************************************)
(* The inductive invariant: after each operation, what is pending is what  *)
(* the operations so far mean, and the last of several values of a leaf is *)
(* the one that would stay.                                                *)
(***************************************************************************)
InvMeant == running => PendingIsMeant /\ \A k \in Key : ~WritesBack(k)

LEMMA InvMeantStep ==
    ASSUME Allowed = {}, NEW Names, EntityPath \subseteq Seq(Names), IsFiniteSet(Key),
           NEW trees, AreTrees(trees), Value \subseteq trees
    PROVE  InvTx /\ InvMeant /\ [Next]_vars => InvMeant'
<1> SUFFICES ASSUME InvTx, InvMeant, [Next]_vars PROVE InvMeant'
  OBVIOUS
<1>1. CASE Begin
  BY <1>1, BeginMeant DEF InvMeant
<1>2. ASSUME NEW p \in Key, NEW x \in NewValues[p] \cup {Undefined}, Put(p, x) PROVE InvMeant'
  <2>1. PendingIsMeant
    BY <1>2 DEF Put, NextOperation, InvMeant
  <2>2. PendingIsMeant'
    BY <1>2, <2>1, PutMeant
  <2>3. \A k \in Key : ~WritesBack(k)'
    BY <1>2 DEF Put, NothingWrittenBack
  <2> QED BY <2>2, <2>3 DEF InvMeant
<1>3. ASSUME NEW p \in EntityPath, NEW x \in NewValues[p] \cup {Undefined}, Update(p, x) PROVE InvMeant'
  <2>1. PendingIsMeant
    BY <1>3 DEF Update, NextOperation, InvMeant
  <2>2. PendingIsMeant'
    BY <1>3, <2>1, UpdateMeant
  <2>3. \A k \in Key : ~WritesBack(k)'
    BY <1>3 DEF Update, NothingWrittenBack
  <2> QED BY <2>2, <2>3 DEF InvMeant
<1>4. CASE UNCHANGED <<storeVars, running, written, expected>>
  <2>1. ASSUME NEW k \in Key PROVE Pending(k)' = Pending(k) /\ (WritesBack(k)' <=> WritesBack(k))
    <3>1. Pending(k)' = Pending(k)
      BY <1>4, NothingWritten
    <3>2. local' = local /\ written' = written
      BY <1>4 DEF storeVars
    <3>3. Kept(k)' = Kept(k) /\ Stays(k)' = Stays(k) /\ OwnValue(k)' = OwnValue(k)
      BY <3>2 DEF Kept, Stays, OwnValue
    <3> QED BY <3>1, <3>3 DEF WritesBack
  <2> QED BY <1>4, <2>1 DEF InvMeant, PendingIsMeant
<1>5. ASSUME NEW p \in EntityPath, DeleteNothing(p) PROVE InvMeant'
  BY <1>4, <1>5 DEF DeleteNothing, NextOperation
<1>6. CASE Reject \/ Commit
  BY <1>6 DEF Reject, Commit, InvMeant
<1>7. CASE OtherOperation
  BY <1>7 DEF OtherOperation, txVars, InvMeant
<1>8. CASE UNCHANGED vars
  BY <1>4, <1>8 DEF vars, txVars
<1> QED BY <1>1, <1>2, <1>3, <1>5, <1>6, <1>7, <1>8 DEF Next

\* Of several entries of a leaf the one that stays is what was last written.
LEMMA CommitMeant ==
    ASSUME InvTx, InvMeant, Commit
    PROVE  \A k \in Key : View(k)' = expected[k]
<1> SUFFICES ASSUME NEW k \in Key PROVE View(k)' = expected[k]
  OBVIOUS
<1>1. expected[k] = Pending(k) /\ ~WritesBack(k)
  BY DEF Commit, InvMeant, PendingIsMeant
<1> DEFINE new == [l \in {m \in Key : Kept(m) # {}} |-> Stays(l)]
<1>2. /\ remote' = remote
      /\ local'[k] = IF k \in DOMAIN new /\ (local[k] = Absent \/ local[k].value # new[k])
                     THEN [value |-> new[k], syncReferenceTime |-> SyncReferenceTime(k)]
                     ELSE local[k]
  BY DEF Commit, CommitLocalEntries
<1>3. local \in [Key -> LocalEntry \cup {Absent}] /\ written[k] \in Seq(Data)
  BY DEF InvTx, InvStore, TypeOKStore, TypeOKTx
<1>4. CASE Kept(k) = {}
  <2>1. View(k)' = View(k)
    BY <1>2, <1>4 DEF View
  <2>2. CASE k \in Own
    <3>1. Len(written[k]) \in 1 .. Len(written[k]) /\ Last(written[k]) = written[k][Len(written[k])]
      <4>1. written[k] # <<>>
        BY <2>2 DEF Own
      <4>2. Len(written[k]) \in Nat \ {0}
        BY <1>3, <4>1
      <4> QED BY <4>2 DEF Last
    <3>2. local[k] # Absent /\ OwnValue(k) = local[k].value
      BY <1>4, <3>1 DEF Kept, OwnValue
    <3> QED BY <1>1, <2>1, <2>2, <3>2 DEF Pending, View
  <2>3. CASE k \notin Own
    BY <1>1, <2>1, <2>3 DEF Pending
  <2> QED BY <2>2, <2>3
<1>5. CASE Kept(k) # {}
  <2>1. Stays(k) \in Data /\ k \in Own
    BY <1>5, StaysType DEF InvTx
  <2>2. expected[k] = Stays(k)
    BY <1>1, <1>5, <2>1 DEF WritesBack, Pending
  <2>3. k \in DOMAIN new /\ new[k] = Stays(k)
    BY <1>5
  <2> HIDE DEF new
  <2>4. CASE local[k] = Absent \/ local[k].value # new[k]
    <3>1. local'[k] = [value |-> new[k], syncReferenceTime |-> SyncReferenceTime(k)]
      BY <1>2, <2>3, <2>4
    <3>2. local'[k] # Absent
      <4>1. local'[k] \in LocalEntry
        <5>1. SyncReferenceTime(k) \in Time \cup {0}
          BY <1>3 DEF InvTx, InvStore, TypeOKStore, SyncReferenceTime, LocalEntry
        <5> QED BY <2>1, <2>3, <3>1, <5>1 DEF LocalEntry
      <4> QED BY <4>1, AbsentAssumption
    <3> QED BY <2>2, <2>3, <3>1, <3>2 DEF View
  <2>5. CASE ~(local[k] = Absent \/ local[k].value # new[k])
    BY <1>2, <2>2, <2>3, <2>5 DEF View
  <2> QED BY <2>4, <2>5
<1> QED BY <1>4, <1>5

\* After a commit a reader sees at every leaf what the operations of the
\* transaction mean in their order.  The application must not update what is
\* deleted, nor write a pending value back after another one (Allowed); values are
\* trees, paths are sequences of names, and the leaves are finitely many.
THEOREM TransactionsCommitWhatWasAsked ==
    ASSUME RereadSucceeds, Allowed = {}, NEW Names, EntityPath \subseteq Seq(Names), IsFiniteSet(Key),
           NEW trees, AreTrees(trees), Value \subseteq trees
    PROVE  Spec => CommitsWhatWasAsked
<1>1. Init => InvMeant
  BY DEF Init, InvMeant
<1>2. InvTx /\ InvMeant /\ [Next]_vars => InvMeant'
  BY InvMeantStep
<1>3. InvTx /\ InvMeant /\ [Next]_vars => [Commit => \A k \in Key : View(k)' = expected[k]]_vars
  BY CommitMeant
<1>4. InvTx /\ [Next]_vars => InvTx'
  BY NextInv
<1> QED BY <1>1, <1>2, <1>3, <1>4, InitInv, PTL DEF Spec, CommitsWhatWasAsked
=============================================================================
