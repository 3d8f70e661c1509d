------------------------- MODULE LocalDBTransaction -------------------------
(***************************************************************************)
(* commitLocalTransaction (src/src/DB/LocalDB/LocalDBOperations.ts) and the*)
(* builder of its argument (src/src/DB/LocalDB/LocalDBTransaction.ts): the *)
(* operations of a transaction are turned one by one into entries, each of *)
(* them over what storage holds and what the earlier ones wrote, and the   *)
(* entries are committed together.  The builder only collects operations,  *)
(* so they are chosen here when they are processed.                        *)
(*                                                                         *)
(* A value is a scalar, or an object: a function from names to values.  A  *)
(* property that is undefined is one that is not there.                    *)
(***************************************************************************)
EXTENDS LocalDBOperations, SequencesExt

CONSTANTS EntityPath,  \* paths: of leaves, of branches, and into the values of leaves
          Scalar,      \* the values that are not objects
          NewValues,   \* for each path what the application may write there
          MaxOps,      \* operations in one transaction
          Allowed      \* what the application may do, see below

\* The disciplines the properties depend on.
\*   updateDeleted  a transaction may update a leaf that is deleted
\*   writeBack      it may write a leaf and then write the pending value back
ASSUME AllowedAssumption == Allowed \subseteq {"updateDeleted", "writeBack"}

ASSUME PathAssumption ==
    /\ Key \subseteq EntityPath
    /\ \A p, q \in Key : Related(p, q) <=> (IsStrictPrefix(p, q) \/ IsStrictPrefix(q, p))

ASSUME NewValuesAssumption == \A p \in Key : NewValues[p] \subseteq Value

ASSUME MaxOpsAssumption == MaxOps \in Nat

-----------------------------------------------------------------------------

IsObject(v) == v \notin Scalar \cup {Undefined}

Property(v, name) == IF IsObject(v) /\ name \in DOMAIN v THEN v[name] ELSE Undefined

\* getValueByKeypath
ValueAt(v, path) == FoldLeft(Property, v, path)

\* One level of patchObject.  What is not an object becomes one, unless there
\* is nothing to put into it.
SetProperty(v, name, x) ==
    LET properties == IF IsObject(v) THEN v ELSE <<>>
    IN  CASE x # Undefined -> [n \in DOMAIN properties \cup {name} |->
                                  IF n = name THEN x ELSE properties[n]]
          [] x = Undefined -> IF IsObject(v) THEN Restrict(v, DOMAIN v \ {name}) ELSE v

\* patchObject
Patch(v, path, x) ==
    FoldRight(LAMBDA i, below : SetProperty(ValueAt(v, SubSeq(path, 1, i - 1)), path[i], below),
              [i \in 1 .. Len(path) |-> i], x)

Relative(p, ancestor) == SubSeq(p, Len(ancestor) + 1, Len(p))

\* The part of v, a value for the branch p, that its leaves hold.
Branch(p, leaves, v) ==
    FoldSet(LAMBDA k, branch : Patch(branch, Relative(k, p), ValueAt(v, Relative(k, p))),
            Undefined, leaves)

\* The matches of findMatchingLeafNodes other than the exact one.
Above(leaves, p) == {k \in leaves : IsStrictPrefix(k, p)}
Below(leaves, p) == {k \in leaves : IsStrictPrefix(p, k)}

\* Value holds whatever leaves come to hold.
ASSUME ClosureAssumption ==
    \A k \in Key, p \in EntityPath : \A x \in NewValues[p] \cup {Undefined} :
        /\ IsStrictPrefix(k, p) => \A v \in Data : Patch(v, Relative(p, k), x) \in Data
        /\ IsStrictPrefix(p, k) => ValueAt(x, Relative(k, p)) \in Data

-----------------------------------------------------------------------------

VARIABLES running,   \* is a transaction being processed?
          operations,\* how many of its operations were
          written,   \* per leaf the values written, in order: transactionEntries
          expected   \* history: what a reader should see after it

txVars == <<running, operations, written, expected>>
vars == <<storeVars, txVars>>

NoneWritten == [k \in Key |-> <<>>]

\* The leaves of transactionNodeLookup.
Own == {k \in Key : written[k] # <<>>}

OwnValue(k) == Last(written[k])

\* getEntries, asked for these leaves, has an entry for k (see BranchReadThrows).
Found(leaves, k) ==
    \/ \A l \in leaves : local[l] # Absent
    \/ View(k) # Undefined

(***************************************************************************)
(* commitLocalEntries over a list with several entries of one key: those   *)
(* equal to the pending value are skipped, of the others the last is       *)
(* stored.                                                                 *)
(***************************************************************************)
Kept(k) ==
    {i \in 1 .. Len(written[k]) : local[k] = Absent \/ written[k][i] # local[k].value}

Stays(k) == written[k][Max(Kept(k))]

WritesBack(k) == Kept(k) # {} /\ Stays(k) # OwnValue(k)

\* The discipline, for an operation that has written.
NothingWrittenBack == "writeBack" \notin Allowed => \A k \in Key : ~WritesBack(k)

-----------------------------------------------------------------------------

Begin ==
    /\ isOpen
    /\ ~running
    /\ running' = TRUE
    /\ operations' = 0
    /\ written' = NoneWritten
    /\ expected' = [k \in Key |-> View(k)]
    /\ UNCHANGED storeVars

NextOperation ==
    /\ running
    /\ operations < MaxOps
    /\ operations' = operations + 1
    /\ UNCHANGED <<storeVars, running>>

\* appendToResult
Write(k, v) == written' = [written EXCEPT ![k] = Append(@, v)]

\* What an update means: the value at the path is v.
Means(p, v) ==
    LET leaves == lookup \cup Own
    IN  expected' = [k \in Key |->
            IF k \in Above(leaves, p) THEN Patch(expected[k], Relative(p, k), v)
            ELSE IF k \in Below(leaves, p) THEN ValueAt(v, Relative(k, p))
            ELSE IF k = p /\ k \in leaves THEN v
            ELSE expected[k]]

-----------------------------------------------------------------------------

(***************************************************************************)
(* processPutOperation                                                     *)
(***************************************************************************)
PutThrowsOnStored(p) == SharesHeritage(lookup, p)  \* mutant: the transaction's own unseen

PutThrows(p) ==
    \/ SharesHeritage(Own, p)
    \/ p \notin Own /\ SharesHeritage(lookup, p)

Put(p, v) ==
    /\ NextOperation
    /\ ~PutThrows(p)
    /\ Write(p, v)
    /\ expected' = [expected EXCEPT ![p] = v]
    /\ NothingWrittenBack'

(***************************************************************************)
(* processUpdateOrDeleteOperation; a deletion is an update to Undefined    *)
(* that does not mind when there is nothing to delete.  A leaf the         *)
(* transaction wrote comes before one in the database.                     *)
(***************************************************************************)
UpdateOwnLeaf(p, v) ==
    /\ p \in Own
    /\ Write(p, v)

\* An object is patched in place: the entry that was written before has it too.
UpdateInOwnLeaf(p, v) ==
    \E k \in Above(Own, p) :
        LET patched == Patch(OwnValue(k), Relative(p, k), v)
        IN  IF ValueAt(OwnValue(k), Relative(p, k)) = v
            THEN UNCHANGED written
            ELSE IF IsObject(OwnValue(k))
                 THEN written' = [written EXCEPT ![k] = Append(Front(@), patched)]
                 ELSE Write(k, patched)

OwnMatch(p) == p \in Own \/ Above(Own, p) # {}

UpdateLeaf(p, v) ==
    /\ ~OwnMatch(p)
    /\ p \in lookup
    /\ IF Found({p}, p) THEN Write(p, v) ELSE UNCHANGED written

UpdateInLeaf(p, v) ==
    /\ ~OwnMatch(p)
    /\ \E k \in Above(lookup, p) :
          IF Found({k}, k) /\ ValueAt(View(k), Relative(p, k)) # v
          THEN Write(k, Patch(View(k), Relative(p, k), v))
          ELSE UNCHANGED written

\* The leaves below p that were found, in the database or the transaction.
Matched(p) ==
    LET leaves == Below(lookup, p)
    IN  {k \in leaves : Found(leaves, k)} \cup Below(Own, p)

\* Every part of the new value belongs to a leaf.
FitsBranch(p, v) ==
    v = Undefined \/ v = Branch(p, Matched(p), v)

ChangedInStore(p, v) ==  \* mutant: the transaction's own leaves left out
    {k \in Matched(p) : ValueAt(v, Relative(k, p)) # View(k)}

\* A leaf in both lists is compared with both its values, and written twice if it
\* differs from both; once is enough, it is the same object.
ChangedBelow(p, v) ==
    {k \in Matched(p) :
        \/ k \in lookup /\ Found(Below(lookup, p), k) /\ ValueAt(v, Relative(k, p)) # View(k)
        \/ k \in Own /\ ValueAt(v, Relative(k, p)) # OwnValue(k)}

UpdateBranch(p, v) ==
    /\ ~OwnMatch(p)
    /\ Below(lookup \cup Own, p) # {}
    /\ FitsBranch(p, v)
    /\ written' = [k \in Key |-> IF k \in ChangedBelow(p, v)
                                 THEN Append(written[k], ValueAt(v, Relative(k, p)))
                                 ELSE written[k]]

NoMatch(p) ==
    /\ ~OwnMatch(p)
    /\ p \notin lookup
    /\ Above(lookup, p) = {}
    /\ Below(lookup \cup Own, p) = {}

\* A leaf that is deleted, or in the lookup and not in storage.
IsDeleted(p) ==
    /\ ~OwnMatch(p)
    /\ \E k \in {p} \cup Above(lookup, p) : k \in lookup /\ ~Found({k}, k)

Update(p, v) ==
    /\ NextOperation
    /\ v # Undefined /\ IsDeleted(p) => "updateDeleted" \in Allowed
    /\ \/ UpdateOwnLeaf(p, v)
       \/ UpdateInOwnLeaf(p, v)
       \/ UpdateLeaf(p, v)
       \/ UpdateInLeaf(p, v)
       \/ UpdateBranch(p, v)
    /\ Means(p, v)
    /\ NothingWrittenBack'

DeleteNothing(p) ==
    /\ NextOperation
    /\ NoMatch(p)
    /\ UNCHANGED <<written, expected>>

UpdateThrows(p, v) ==
    \/ v # Undefined /\ NoMatch(p)
    \/ ~OwnMatch(p) /\ Below(lookup \cup Own, p) # {} /\ ~FitsBranch(p, v)

\* An operation throws, and the transaction is dropped.
Reject ==
    /\ running
    /\ operations < MaxOps
    /\ \/ \E p \in Key : PutThrows(p)
       \/ \E p \in EntityPath : \E v \in NewValues[p] : UpdateThrows(p, v)
    /\ running' = FALSE
    /\ operations' = 0
    /\ written' = NoneWritten
    /\ expected' = [k \in Key |-> Undefined]
    /\ UNCHANGED storeVars

-----------------------------------------------------------------------------

Commit ==
    /\ running
    /\ CommitLocalEntries([k \in {l \in Key : Kept(l) # {}} |-> Stays(k)])
    /\ running' = FALSE
    /\ operations' = 0
    /\ written' = NoneWritten
    /\ expected' = [k \in Key |-> Undefined]

-----------------------------------------------------------------------------

\* The other operations of the database wait until this one is done.
OtherOperation ==
    /\ ~running
    /\ \/ \E keys \in SUBSET Key :
             \/ \E commitTime \in Time : SetAsRemotelyCommited(keys, commitTime)
             \/ DiscardLocalEntryKeys(keys)
       \/ \E batch \in Batches :
             CommitRemoteEntries(batch) \/ CrashDuringReset(batch) \/ ResetFails(batch)
       \/ Open
       \/ Close
       \/ DestroyLocalData
    /\ UNCHANGED txVars

Init ==
    /\ InitStore
    /\ running = FALSE
    /\ operations = 0
    /\ written = NoneWritten
    /\ expected = [k \in Key |-> Undefined]

Next ==
    \/ Begin
    \/ \E p \in Key : \E v \in NewValues[p] \cup {Undefined} : Put(p, v)
    \/ \E p \in EntityPath : \E v \in NewValues[p] \cup {Undefined} : Update(p, v)
    \/ \E p \in EntityPath : DeleteNothing(p)
    \/ Reject
    \/ Commit
    \/ OtherOperation

Spec == Init /\ [][Next]_vars

-----------------------------------------------------------------------------

TypeOK ==
    /\ TypeOKStore
    /\ running \in BOOLEAN
    /\ operations \in 0 .. MaxOps
    /\ written \in [Key -> Seq(Data)]
    /\ expected \in [Key -> Data]

\* However puts, updates and deletions of leaves, branches and parts of values
\* follow each other in a transaction, it is to the database what LocalDBOperations
\* takes it for: one step that writes leaves which share no heritage with the
\* database's leaves, nor with each other.
ImplementsStore == InitStore /\ [][storeVars' # storeVars => NextStore]_vars

\* A committed transaction has the effect of its operations in their order:
\* leaf by leaf a reader sees what they mean, also where one of them reads what
\* an earlier one wrote, and where some leaves were deleted, pulled or pushed.
CommitsWhatWasAsked == [][Commit => \A k \in Key : View(k)' = expected[k]]_vars
=============================================================================
