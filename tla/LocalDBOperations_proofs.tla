---------------------- MODULE LocalDBOperations_proofs ----------------------
(***************************************************************************)
(* Proofs about the operations of one database, for every set of paths and *)
(* values, every heritage relation and every answer a server may give.     *)
(***************************************************************************)
EXTENDS LocalDBOperations, TLAPS

(***************************************************************************)
(* The lookup.                                                             *)
(***************************************************************************)

\* A heritage-free set of leaves to which paths of another such set are added
\* stays heritage-free: the leaves in their way give way.
LEMMA AddLeavesHeritageFree ==
    ASSUME NEW leaves \in SUBSET Key, NEW paths \in SUBSET Key,
           HeritageFree(leaves), HeritageFree(paths)
    PROVE  /\ AddLeaves(leaves, paths) \in SUBSET Key
           /\ HeritageFree(AddLeaves(leaves, paths))
  BY HeritageAssumption DEF AddLeaves, HeritageFree, SharesHeritage, Related

\* Leaves that share heritage with none of the added paths all stay.
LEMMA AddLeavesKeeps ==
    ASSUME NEW leaves \in SUBSET Key, NEW paths \in SUBSET Key,
           \A p \in paths : ~SharesHeritage(leaves, p)
    PROVE  AddLeaves(leaves, paths) = leaves \cup paths
  BY HeritageAssumption DEF AddLeaves, SharesHeritage, Related

\* Removing leaves of a heritage-free set takes these leaves only.
LEMMA RemoveLeavesExact ==
    ASSUME NEW leaves \in SUBSET Key, NEW paths \in SUBSET leaves,
           HeritageFree(leaves)
    PROVE  RemoveLeaves(leaves, paths) = leaves \ paths
  BY DEF RemoveLeaves, HeritageFree, SharesHeritage

-----------------------------------------------------------------------------

(***************************************************************************)
(* The revisions a batch stores.                                           *)
(***************************************************************************)

\* The revision picked for a key is one of the accepted ones, and the only one.
LEMMA RevisionOfKey ==
    ASSUME NEW revs \in SUBSET Revision, NEW r \in revs
    PROVE  /\ RevisionOf(revs, r.key) \in revs
           /\ RevisionOf(revs, r.key).key = r.key
  BY DEF RevisionOf

\* The keys of what is accepted share no heritage, with each other or with the
\* leaves that were there.
LEMMA AcceptedHeritageFree ==
    ASSUME NEW leaves \in SUBSET Key, NEW news,
           NEW accepted \in SUBSET Revision,
           IsAccepted(accepted, news, leaves)
    PROVE  /\ {r.key : r \in accepted} \in SUBSET Key
           /\ HeritageFree({r.key : r \in accepted})
           /\ \A r \in accepted : ~SharesHeritage(leaves, r.key)
<1>1. \A r \in accepted :
         /\ ~SharesHeritage(leaves, r.key)
         /\ \A q \in accepted : Related(q.key, r.key) => r.commitTime < q.commitTime
  BY DEF IsAccepted
<1>2. ASSUME NEW r \in accepted
      PROVE  r.key \in Key /\ r.commitTime \in Nat
  BY TimeAssumption DEF Revision
<1>3. ASSUME NEW q \in accepted, NEW r \in accepted
      PROVE  ~Related(q.key, r.key)
  <2>1. SUFFICES ASSUME Related(q.key, r.key) PROVE FALSE
    OBVIOUS
  <2>2. Related(r.key, q.key)
    BY <1>2, <2>1, HeritageAssumption DEF Related
  <2> QED BY <1>1, <1>2, <2>1, <2>2
<1> QED BY <1>1, <1>2, <1>3 DEF HeritageFree

-----------------------------------------------------------------------------

(***************************************************************************)
(* Types, operation by operation.                                          *)
(***************************************************************************)

LEMMA CommitLocalEntriesType ==
    ASSUME TypeOKStore,
           NEW keys \in SUBSET Key, NEW new \in [keys -> Data], CommitLocalEntries(new)
    PROVE  TypeOKStore'
<1> DEFINE kept == {k \in keys : local[k] = Absent \/ local[k].value # new[k]}
<1>1. /\ isOpen /\ isOpen' = isOpen /\ remote' = remote /\ lastModified' = lastModified
      /\ local' = [k \in Key |->
                        IF k \in kept
                        THEN [value |-> new[k], syncReferenceTime |-> SyncReferenceTime(k)]
                        ELSE local[k]]
      /\ lookup' = AddLeaves(lookup, kept)
      /\ diff' = [origin  |-> "local", cleared |-> {},
                  changed |-> {[key |-> k, value |-> new[k]] : k \in kept}]
  BY DEF CommitLocalEntries
<1>2. \A k \in Key : SyncReferenceTime(k) \in Time \cup {0}
  BY DEF TypeOKStore, SyncReferenceTime, LocalEntry
<1>3. local' \in [Key -> LocalEntry \cup {Absent}]
  BY <1>1, <1>2 DEF TypeOKStore, LocalEntry
<1>4. lookup' \in SUBSET Key
  BY <1>1 DEF TypeOKStore, AddLeaves
<1>5. diff' \in [origin : {"none", "failed", "local", "remote"}, cleared : SUBSET Key, changed : SUBSET Change]
  BY <1>1 DEF Change
<1> QED BY <1>1, <1>3, <1>4, <1>5 DEF TypeOKStore

LEMMA CommitRemoteEntriesType ==
    ASSUME TypeOKStore, NEW batch \in Answer, CommitRemoteEntries(batch)
    PROVE  TypeOKStore'
<1> DEFINE store   == IF Resets(batch) THEN Empty ELSE remote
           leaves  == IF Resets(batch) THEN Stored(local) ELSE lookup
           cleared == Cleared(batch)
           news    == {r \in batch.revs : IsNews(store, r)}
<1> USE DEF Cleared, Shown
<1>1. PICK accepted \in SUBSET news :
        LET shown == Shown(accepted)
            keys  == {r.key : r \in accepted}
        IN  /\ IsAccepted(accepted, news, leaves)
            /\ remote' = [k \in Key |->
                            IF k \in keys
                            THEN [value      |-> RevisionOf(accepted, k).value,
                                  commitTime |-> RevisionOf(accepted, k).commitTime]
                            ELSE store[k]]
            /\ lookup' = AddLeaves(AddLeaves(leaves, cleared), {r.key : r \in shown})
            /\ diff' = [origin  |-> "remote",
                        cleared |-> cleared,
                        changed |-> {[key |-> r.key, value |-> r.value] : r \in shown}]
  BY DEF CommitRemoteEntries
<1> DEFINE shown == Shown(accepted)
           keys  == {r.key : r \in accepted}
<1>2. isOpen /\ isOpen' /\ local' = local /\ lastModified' = batch.last
  BY DEF CommitRemoteEntries, TypeOKStore
<1>3. accepted \in SUBSET Revision /\ batch.last \in Time
  BY DEF Answer
<1>4. leaves \in SUBSET Key /\ cleared \in SUBSET Key
  BY DEF TypeOKStore, Stored
<1>5. \A k \in keys : RevisionOf(accepted, k) \in Revision
  BY <1>3, RevisionOfKey
<1>6. \A k \in Key : store[k] \in RemoteEntry \cup {Absent}
  BY DEF TypeOKStore, Empty
<1>7. remote' \in [Key -> RemoteEntry \cup {Absent}]
  <2> DEFINE entry(k) == IF k \in keys
                         THEN [value      |-> RevisionOf(accepted, k).value,
                               commitTime |-> RevisionOf(accepted, k).commitTime]
                         ELSE store[k]
  <2>1. remote' = [k \in Key |-> entry(k)]
    BY <1>1
  <2>2. ASSUME NEW k \in Key PROVE entry(k) \in RemoteEntry \cup {Absent}
    <3> HIDE DEF store, keys
    <3>1. CASE k \in keys
      BY <1>5, <3>1 DEF Revision, RemoteEntry
    <3>2. CASE k \notin keys
      BY <1>6, <3>2
    <3> QED BY <3>1, <3>2
  <2> HIDE DEF entry
  <2> QED BY <2>1, <2>2
<1>8. lookup' \in SUBSET Key
  BY <1>1, <1>3, <1>4 DEF AddLeaves, Revision
<1>9. diff' \in [origin : {"none", "failed", "local", "remote"}, cleared : SUBSET Key, changed : SUBSET Change]
  <2> HIDE DEF cleared
  <2>1. {[key |-> r.key, value |-> r.value] : r \in shown} \in SUBSET Change
    BY <1>3 DEF Revision, Change
  <2> QED BY <1>1, <1>4, <2>1
<1> QED BY <1>2, <1>3, <1>7, <1>8, <1>9 DEF TypeOKStore

LEMMA SetAsRemotelyCommitedType ==
    ASSUME TypeOKStore, NEW keys \in SUBSET Key, NEW commitTime \in Time,
           SetAsRemotelyCommited(keys, commitTime)
    PROVE  TypeOKStore'
  BY AbsentAssumption DEF SetAsRemotelyCommited, CommitedEntry, TypeOKStore, LocalEntry,
                          RemoteEntry, Stored, NoDiff

LEMMA DiscardLocalEntryKeysType ==
    ASSUME TypeOKStore, NEW keys \in SUBSET Key, DiscardLocalEntryKeys(keys)
    PROVE  TypeOKStore'
<1> USE DEF Purged
<1>1. local' \in [Key -> LocalEntry \cup {Absent}]
  BY DEF DiscardLocalEntryKeys, TypeOKStore
<1>2. lookup' \in SUBSET Key
  BY DEF DiscardLocalEntryKeys, TypeOKStore, RemoveLeaves
<1>3. diff' \in [origin : {"none", "failed", "local", "remote"}, cleared : SUBSET Key, changed : SUBSET Change]
  BY DEF DiscardLocalEntryKeys, TypeOKStore, Change, Data, RemoteEntry, Stored
<1> QED BY <1>1, <1>2, <1>3 DEF DiscardLocalEntryKeys, TypeOKStore

\* Opening and closing, by any means.
LEMMA LifecycleType ==
    ASSUME TypeOKStore,
           Open \/ Close \/ DestroyLocalData \/ \E batch : CrashDuringReset(batch)
    PROVE  TypeOKStore'
<1>1. CASE Open
  BY <1>1 DEF Open, TypeOKStore, AddLeaves, AllKeys, Stored
<1>2. CASE DestroyLocalData
  BY <1>2 DEF DestroyLocalData, TypeOKStore, Empty, NoDiff
<1>3. CASE Close
  <2>1. CASE Persistent
    <3>1. /\ isOpen' = FALSE /\ lookup' = {} /\ diff' = NoDiff
          /\ local' = local /\ remote' = remote /\ lastModified' = lastModified
      BY <1>3, <2>1 DEF Close
    <3> QED BY <3>1 DEF TypeOKStore, NoDiff
  <2>2. CASE ~Persistent
    BY <1>2, <1>3, <2>2 DEF Close
  <2> QED BY <2>1, <2>2
<1>4. CASE \E batch : CrashDuringReset(batch)
  <2>1. /\ lookup' = {} /\ isOpen' = FALSE /\ diff' = NoDiff
        /\ local' = local /\ lastModified' = lastModified
    BY <1>4 DEF CrashDuringReset
  <2>2. remote' \in [Key -> RemoteEntry \cup {Absent}]
    BY <1>4 DEF CrashDuringReset, TypeOKStore
  <2> QED BY <2>1, <2>2 DEF TypeOKStore, NoDiff
<1> QED BY <1>1, <1>2, <1>3, <1>4

LEMMA ResetFailsType ==
    ASSUME TypeOKStore, NEW batch, ResetFails(batch)
    PROVE  TypeOKStore'
<1>1. /\ isOpen' = isOpen /\ local' = local /\ lastModified' = lastModified
      /\ remote' = Empty /\ diff' = FailedDiff
      /\ lookup' \in {Stored(local), {}}
  BY DEF ResetFails
<1>2. lookup' \in SUBSET Key /\ remote' \in [Key -> RemoteEntry \cup {Absent}]
  BY <1>1 DEF Stored, Empty
<1> QED BY <1>1, <1>2 DEF TypeOKStore, FailedDiff, NoDiff

\* Every operation preserves the types.
LEMMA NextStoreType == TypeOKStore /\ [NextStore]_storeVars => TypeOKStore'
<1> SUFFICES ASSUME TypeOKStore, [NextStore]_storeVars PROVE TypeOKStore'
  OBVIOUS
<1>1. CASE NextStore
  BY <1>1, CommitLocalEntriesType, SetAsRemotelyCommitedType, DiscardLocalEntryKeysType,
     CommitRemoteEntriesType, ResetFailsType, LifecycleType, BatchesAssumption DEF NextStore
<1>2. CASE UNCHANGED storeVars
  BY <1>2 DEF storeVars, TypeOKStore
<1> QED BY <1>1, <1>2

-----------------------------------------------------------------------------

(***************************************************************************)
(* The inductive invariant: types, and that the lookup and the stores stay *)
(* heritage-free with every stored key in the lookup.  The lookup part is  *)
(* needed for the stores: what a write or a pull may store is decided by   *)
(* the lookup alone, so a stored key missing from it could be nested in.   *)
(*                                                                         *)
(* It holds where a reset that has cleared the remote store gets to read   *)
(* the pending keys: a storage medium that fails that very read leaves the *)
(* database open with an empty lookup over the pending entries.            *)
(***************************************************************************)
RereadSucceeds == "getLocalEntryKeys" \notin ResetFailsAt

InvStore == TypeOKStore /\ LookupCoversStores /\ LeavesNeverNest

LEMMA InitStoreInv == InitStore => InvStore
  BY DEF InitStore, InvStore, TypeOKStore, LookupCoversStores, LeavesNeverNest,
         HeritageFree, AllKeys, Stored, Empty, NoDiff

LEMMA CommitLocalEntriesInv ==
    ASSUME InvStore,
           NEW keys \in SUBSET Key, NEW new \in [keys -> Data],
           Assignable(new), CommitLocalEntries(new)
    PROVE  InvStore'
<1> DEFINE kept == {k \in keys : local[k] = Absent \/ local[k].value # new[k]}
<1> USE DEF InvStore
<1>0. DOMAIN new = keys
  OBVIOUS
<1>1. /\ isOpen /\ isOpen' = isOpen /\ remote' = remote /\ lastModified' = lastModified
      /\ local' = [k \in Key |->
                        IF k \in kept
                        THEN [value |-> new[k], syncReferenceTime |-> SyncReferenceTime(k)]
                        ELSE local[k]]
      /\ lookup' = AddLeaves(lookup, kept)
      /\ diff' = [origin  |-> "local", cleared |-> {},
                  changed |-> {[key |-> k, value |-> new[k]] : k \in kept}]
  BY <1>0 DEF CommitLocalEntries
<1>2. TypeOKStore'
  BY CommitLocalEntriesType
<1>3. lookup' = lookup \cup kept
  <2>1. \A k \in kept : ~SharesHeritage(lookup, k)
    BY <1>0 DEF Assignable
  <2> QED BY <1>1, <2>1, AddLeavesKeeps DEF TypeOKStore
<1>4. AllKeys' \subseteq AllKeys \cup kept
  BY <1>1 DEF AllKeys, Stored
<1>5. HeritageFree(lookup')
  <2>1. HeritageFree(kept)
    BY <1>0 DEF Assignable, HeritageFree
  <2> QED BY <1>1, <2>1, AddLeavesHeritageFree DEF TypeOKStore, LeavesNeverNest
<1> QED BY <1>1, <1>2, <1>3, <1>4, <1>5 DEF LookupCoversStores, LeavesNeverNest, HeritageFree

LEMMA CommitRemoteEntriesInv ==
    ASSUME InvStore, NEW batch \in Answer, CommitRemoteEntries(batch)
    PROVE  InvStore'
<1> DEFINE store   == IF Resets(batch) THEN Empty ELSE remote
           leaves  == IF Resets(batch) THEN Stored(local) ELSE lookup
           cleared == Cleared(batch)
           news    == {r \in batch.revs : IsNews(store, r)}
<1> USE DEF InvStore, Cleared, Shown
<1>1. PICK accepted \in SUBSET news :
        LET shown == Shown(accepted)
            keys  == {r.key : r \in accepted}
        IN  /\ IsAccepted(accepted, news, leaves)
            /\ remote' = [k \in Key |->
                            IF k \in keys
                            THEN [value      |-> RevisionOf(accepted, k).value,
                                  commitTime |-> RevisionOf(accepted, k).commitTime]
                            ELSE store[k]]
            /\ lookup' = AddLeaves(AddLeaves(leaves, cleared), {r.key : r \in shown})
            /\ diff' = [origin  |-> "remote",
                        cleared |-> cleared,
                        changed |-> {[key |-> r.key, value |-> r.value] : r \in shown}]
  BY DEF CommitRemoteEntries
<1> DEFINE shown == Shown(accepted)
           keys  == {r.key : r \in accepted}
           shownKeys == {r.key : r \in shown}
<1>2. isOpen /\ isOpen' /\ local' = local /\ lastModified' = batch.last
  BY DEF CommitRemoteEntries, TypeOKStore
<1>3. accepted \in SUBSET Revision /\ batch.last \in Time
  BY DEF Answer
<1>4. leaves \in SUBSET Key /\ cleared \in SUBSET Key
  BY DEF TypeOKStore, Stored
<1>5. /\ keys \in SUBSET Key
      /\ HeritageFree(keys)
      /\ \A r \in accepted : ~SharesHeritage(leaves, r.key)
  <2>1. IsAccepted(accepted, news, leaves)
    BY <1>1
  <2> HIDE DEF leaves, news
  <2> QED BY <1>3, <1>4, <2>1, AcceptedHeritageFree
<1>6. shownKeys \in SUBSET keys /\ HeritageFree(shownKeys)
  BY <1>5 DEF HeritageFree
<1>7. TypeOKStore'
  BY CommitRemoteEntriesType
<1>8. AddLeaves(leaves, cleared) \in SUBSET Key /\ HeritageFree(AddLeaves(leaves, cleared))
  <2>1. HeritageFree(leaves) /\ HeritageFree(cleared)
    BY DEF LeavesNeverNest, HeritageFree, AllKeys
  <2> HIDE DEF leaves, cleared
  <2> QED BY <1>4, <2>1, AddLeavesHeritageFree
<1>9. HeritageFree(lookup')
  <2> HIDE DEF leaves, cleared, shownKeys
  <2> DEFINE before == AddLeaves(leaves, cleared)
  <2>1. lookup' = AddLeaves(before, shownKeys)
    BY <1>1 DEF shownKeys
  <2> HIDE DEF before
  <2>2. before \in SUBSET Key /\ HeritageFree(before)
    BY <1>8 DEF before
  <2> QED BY <1>5, <1>6, <2>1, <2>2, AddLeavesHeritageFree
\* What is stored afterwards was a leaf before, or is accepted; the former
\* share no heritage with the latter, so neither drops the other.
<1>10. leaves \subseteq lookup'
  <2>1. \A q \in leaves : ~SharesHeritage(cleared, q)
    BY DEF LeavesNeverNest, HeritageFree, AllKeys, SharesHeritage
  <2>2. \A q \in leaves : ~SharesHeritage(shownKeys, q)
    BY <1>3, <1>4, <1>5, HeritageAssumption DEF SharesHeritage, Related, Revision
  <2> QED BY <1>1, <2>1, <2>2 DEF AddLeaves
<1>11. Stored(local) \subseteq leaves /\ Stored(store) \subseteq leaves
  BY <1>2 DEF LookupCoversStores, AllKeys, Stored, Empty
<1>12. keys \subseteq lookup'
  <2>1. ASSUME NEW r \in accepted PROVE r.key \in lookup'
    <3>1. CASE local[r.key] = Absent
      BY <1>1, <3>1 DEF AddLeaves
    <3>2. CASE local[r.key] # Absent
      BY <1>3, <1>10, <1>11, <3>2 DEF Stored, Revision
    <3> QED BY <3>1, <3>2
  <2> QED BY <2>1
<1>13. AllKeys' \subseteq lookup'
  <2>1. Stored(remote)' \subseteq keys \cup Stored(store)
    <3> HIDE DEF store
    <3> QED BY <1>1 DEF Stored
  <2>2. Stored(local)' = Stored(local)
    BY <1>2 DEF Stored
  <2> QED BY <1>10, <1>11, <1>12, <2>1, <2>2 DEF AllKeys
<1> QED BY <1>7, <1>9, <1>13 DEF LookupCoversStores, LeavesNeverNest, HeritageFree

LEMMA CrashDuringResetInv ==
    ASSUME InvStore, NEW batch, CrashDuringReset(batch)
    PROVE  InvStore'
<1>1. TypeOKStore'
  BY LifecycleType DEF InvStore
<1>2. lookup' = {} /\ ~isOpen' /\ AllKeys' \subseteq AllKeys
  BY DEF CrashDuringReset, AllKeys, Stored
<1> QED BY <1>1, <1>2 DEF InvStore, LookupCoversStores, LeavesNeverNest, HeritageFree

LEMMA ResetFailsInv ==
    ASSUME RereadSucceeds, InvStore, NEW batch, ResetFails(batch)
    PROVE  InvStore'
<1>1. TypeOKStore'
  BY ResetFailsType DEF InvStore
<1>2. lookup' = Stored(local)
  BY ResetFailsAtAssumption DEF ResetFails, RereadSucceeds
<1>3. AllKeys' = Stored(local) /\ Stored(local) \subseteq AllKeys
  BY DEF ResetFails, AllKeys, Stored, Empty
<1> QED BY <1>1, <1>2, <1>3 DEF InvStore, LookupCoversStores, LeavesNeverNest, HeritageFree

LEMMA SetAsRemotelyCommitedInv ==
    ASSUME InvStore, NEW keys \in SUBSET Key, NEW commitTime \in Time,
           SetAsRemotelyCommited(keys, commitTime)
    PROVE  InvStore'
<1> USE DEF InvStore, SetAsRemotelyCommited, CommitedEntry
<1>1. TypeOKStore'
  BY SetAsRemotelyCommitedType
<1>2. AllKeys' = AllKeys
  BY AbsentAssumption, <1>1 DEF TypeOKStore, AllKeys, Stored, LocalEntry, RemoteEntry
<1> QED BY <1>1, <1>2 DEF LookupCoversStores, LeavesNeverNest, HeritageFree

LEMMA DiscardLocalEntryKeysInv ==
    ASSUME InvStore, NEW keys \in SUBSET Key, DiscardLocalEntryKeys(keys)
    PROVE  InvStore'
<1> DEFINE dropped == keys \cap Stored(local)
           purged  == Purged(keys)
<1> USE DEF InvStore, Purged
<1>1. TypeOKStore'
  BY DiscardLocalEntryKeysType
<1>2. lookup' = lookup \ purged
  <2>1. purged \in SUBSET lookup
    BY DEF DiscardLocalEntryKeys, LookupCoversStores, AllKeys
  <2> QED BY <2>1, RemoveLeavesExact DEF DiscardLocalEntryKeys, TypeOKStore, LeavesNeverNest
<1>3. AllKeys' = AllKeys \ purged
  BY DEF DiscardLocalEntryKeys, AllKeys, Stored
<1> QED BY <1>1, <1>2, <1>3 DEF DiscardLocalEntryKeys, LookupCoversStores, LeavesNeverNest, HeritageFree

LEMMA OpenInv == ASSUME InvStore, Open PROVE InvStore'
<1>1. AllKeys' = AllKeys /\ AllKeys \in SUBSET Key
  BY DEF Open, AllKeys, Stored
<1>2. lookup' = AllKeys
  BY DEF Open, AddLeaves
<1> QED BY <1>1, <1>2 DEF InvStore, Open, TypeOKStore, LookupCoversStores, LeavesNeverNest, HeritageFree

LEMMA DestroyLocalDataInv == ASSUME InvStore, DestroyLocalData PROVE InvStore'
  BY DEF InvStore, DestroyLocalData, TypeOKStore, LookupCoversStores, LeavesNeverNest,
         HeritageFree, AllKeys, Stored, Empty, NoDiff

LEMMA CloseInv == ASSUME InvStore, Close PROVE InvStore'
<1>1. CASE Persistent
  <2>1. /\ isOpen' = FALSE /\ lookup' = {} /\ diff' = NoDiff
        /\ local' = local /\ remote' = remote /\ lastModified' = lastModified
    BY <1>1 DEF Close
  <2>2. TypeOKStore'
    BY <2>1 DEF InvStore, TypeOKStore, NoDiff
  <2>3. AllKeys' = AllKeys
    BY <2>1 DEF AllKeys, Stored
  <2> QED BY <2>1, <2>2, <2>3 DEF InvStore, LookupCoversStores, LeavesNeverNest, HeritageFree
<1>2. CASE ~Persistent
  BY <1>2, DestroyLocalDataInv DEF Close
<1> QED BY <1>1, <1>2

LEMMA InvStoreUnchanged == ASSUME InvStore, UNCHANGED storeVars PROVE InvStore'
  BY DEF storeVars, InvStore, TypeOKStore, LookupCoversStores, LeavesNeverNest, HeritageFree,
         AllKeys, Stored

\* Every operation that completes preserves the invariant.
LEMMA CompletedOperationInv ==
    ASSUME InvStore, NextStore, diff'.origin # "failed"
    PROVE  InvStore'
<1>1. ~ \E batch \in Batches : ResetFails(batch)
  BY DEF ResetFails, FailedDiff, NoDiff
<1> QED BY <1>1, CommitLocalEntriesInv, SetAsRemotelyCommitedInv, DiscardLocalEntryKeysInv,
           CommitRemoteEntriesInv, CrashDuringResetInv, OpenInv, CloseInv, DestroyLocalDataInv,
           BatchesAssumption DEF NextStore

\* And so does one that fails, where the pending keys can be read.
LEMMA NextStoreInv ==
    ASSUME RereadSucceeds, InvStore, [NextStore]_storeVars
    PROVE  InvStore'
<1>1. CASE NextStore
  BY <1>1, CommitLocalEntriesInv, SetAsRemotelyCommitedInv, DiscardLocalEntryKeysInv,
     CommitRemoteEntriesInv, CrashDuringResetInv, ResetFailsInv, OpenInv, CloseInv, DestroyLocalDataInv,
     BatchesAssumption DEF NextStore
<1>2. CASE UNCHANGED storeVars
  BY <1>2, InvStoreUnchanged
<1> QED BY <1>1, <1>2

\* The types of the stores, the lookup and the diff.
THEOREM TypeCorrect == SpecStore => []TypeOKStore
<1>1. InitStore => TypeOKStore
  BY InitStoreInv DEF InvStore
<1> QED BY <1>1, NextStoreType, PTL DEF SpecStore

\* Every stored entry can be reached through the lookup, in every order of the
\* operations and with every answer of the server.
THEOREM StoredEntriesReachable ==
    ASSUME RereadSucceeds
    PROVE  SpecStore => []LookupCoversStores
<1>1. InvStore => LookupCoversStores
  BY DEF InvStore
<1>2. InvStore /\ [NextStore]_storeVars => InvStore'
  BY NextStoreInv
<1> QED BY <1>1, <1>2, InitStoreInv, PTL DEF SpecStore

\* No leaf is ever stored below another one.
THEOREM NoNestedLeaves ==
    ASSUME RereadSucceeds
    PROVE  SpecStore => []LeavesNeverNest
<1>1. InvStore => LeavesNeverNest
  BY DEF InvStore
<1>2. InvStore /\ [NextStore]_storeVars => InvStore'
  BY NextStoreInv
<1> QED BY <1>1, <1>2, InitStoreInv, PTL DEF SpecStore

-----------------------------------------------------------------------------

(***************************************************************************)
(* The diffs.  An operation changes what a reader of k sees only by        *)
(* changing an entry of k in one of the stores.                            *)
(***************************************************************************)

LEMMA DiffKeysOf ==
    ASSUME NEW d
    PROVE  /\ \A c \in d.changed : c.key \in DiffKeys(d)
           /\ d.cleared \subseteq DiffKeys(d)
  BY DEF DiffKeys

LEMMA CommitLocalEntriesDiff ==
    ASSUME TypeOKStore,
           NEW keys \in SUBSET Key, NEW new \in [keys -> Data], CommitLocalEntries(new)
    PROVE  /\ ChangesMatchView'
           /\ \A k \in Key : View(k)' # View(k) => k \in DiffKeys(diff')
<1> DEFINE kept == {k \in keys : local[k] = Absent \/ local[k].value # new[k]}
<1>1. /\ remote' = remote
      /\ local' = [k \in Key |->
                        IF k \in kept
                        THEN [value |-> new[k], syncReferenceTime |-> SyncReferenceTime(k)]
                        ELSE local[k]]
      /\ diff' = [origin  |-> "local", cleared |-> {},
                  changed |-> {[key |-> k, value |-> new[k]] : k \in kept}]
  BY DEF CommitLocalEntries
<1>2. \A k \in Key : SyncReferenceTime(k) \in Time \cup {0}
  BY DEF TypeOKStore, SyncReferenceTime, LocalEntry
<1>3. \A k \in kept : local'[k] # Absent /\ View(k)' = new[k]
  BY <1>1, <1>2, AbsentAssumption DEF View, LocalEntry
<1>4. \A k \in Key \ kept : View(k)' = View(k)
  BY <1>1 DEF View
<1>5. ChangesMatchView'
  BY <1>1, <1>3 DEF ChangesMatchView
<1>6. ASSUME NEW k \in kept PROVE k \in DiffKeys(diff')
  <2>1. [key |-> k, value |-> new[k]] \in diff'.changed
    BY <1>1
  <2> QED BY <2>1, DiffKeysOf
<1> QED BY <1>4, <1>5, <1>6

LEMMA CommitRemoteEntriesDiff ==
    ASSUME TypeOKStore, NEW batch \in Answer, IsBatch(batch), CommitRemoteEntries(batch)
    PROVE  /\ ChangesMatchView'
           /\ \A k \in Key : View(k)' # View(k) => k \in DiffKeys(diff')
<1> DEFINE store   == IF Resets(batch) THEN Empty ELSE remote
           cleared == Cleared(batch)
           news    == {r \in batch.revs : IsNews(store, r)}
<1> USE DEF Cleared, Shown
<1>1. PICK accepted \in SUBSET news :
        /\ remote' = [k \in Key |->
                        IF k \in {r.key : r \in accepted}
                        THEN [value      |-> RevisionOf(accepted, k).value,
                              commitTime |-> RevisionOf(accepted, k).commitTime]
                        ELSE store[k]]
        /\ diff' = [origin  |-> "remote",
                    cleared |-> cleared,
                    changed |-> {[key |-> r.key, value |-> r.value] :
                                    r \in Shown(accepted)}]
  BY DEF CommitRemoteEntries
<1>2. local' = local
  BY DEF CommitRemoteEntries
<1>3. accepted \in SUBSET Revision
  BY DEF Answer
<1>4. \A r \in accepted : RevisionOf(accepted, r.key) = r
  <2>1. \A r, q \in accepted : r.key = q.key => r = q
    BY DEF IsBatch
  <2> QED BY <1>3, <2>1, RevisionOfKey
<1>5. ASSUME NEW r \in accepted, local[r.key] = Absent
      PROVE  View(r.key)' = r.value
  <2>1. remote'[r.key] = [value |-> r.value, commitTime |-> r.commitTime]
    BY <1>1, <1>3, <1>4 DEF Revision
  <2>2. remote'[r.key] # Absent
    BY <1>3, <2>1, AbsentAssumption DEF Revision, RemoteEntry
  <2> QED BY <1>2, <1>5, <2>1, <2>2 DEF View
\* A cleared key without an entry announced later got no revision that is
\* shown: it has no remote entry any more, or a pending change shadows it.
<1>6. ASSUME NEW k \in diff'.cleared \ {c.key : c \in diff'.changed}
      PROVE  View(k)' = Undefined \/ local'[k] # Absent
  <2>1. SUFFICES ASSUME local[k] = Absent
                 PROVE  View(k)' = Undefined
    BY <1>2
  <2>2. k \in Key /\ Resets(batch)
    BY <1>1, <1>6 DEF Stored
  <2>3. ASSUME NEW r \in accepted, r.key = k PROVE FALSE
    <3>1. [key |-> r.key, value |-> r.value] \in diff'.changed
      BY <1>1, <2>1, <2>3
    <3> QED BY <1>6, <2>3, <3>1
  <2>4. remote'[k] = Absent
    BY <1>1, <2>2, <2>3 DEF Empty
  <2> QED BY <1>2, <2>1, <2>4 DEF View
<1>7. ChangesMatchView'
  <2>1. \A c \in diff'.changed : View(c.key)' = c.value
    BY <1>1, <1>5
  <2> QED BY <1>6, <2>1 DEF ChangesMatchView
<1>8. ASSUME NEW k \in Key, View(k)' # View(k)
      PROVE  k \in DiffKeys(diff')
  <2>1. local[k] = Absent /\ remote'[k] # remote[k]
    BY <1>2, <1>8 DEF View
  <2>2. CASE k \in {r.key : r \in accepted}
    <3>1. PICK r \in accepted : r.key = k
      BY <2>2
    <3>2. [key |-> r.key, value |-> r.value] \in diff'.changed
      BY <1>1, <2>1, <3>1
    <3> QED BY <3>1, <3>2, DiffKeysOf
  <2>3. CASE k \notin {r.key : r \in accepted}
    <3>1. remote'[k] = store[k]
      BY <1>1, <2>3
    <3>2. Resets(batch) /\ remote[k] # Absent
      BY <2>1, <3>1 DEF Empty
    <3>3. k \in diff'.cleared
      BY <1>1, <3>2 DEF Stored
    <3> QED BY <3>3, DiffKeysOf
  <2> QED BY <2>2, <2>3
<1> QED BY <1>7, <1>8

LEMMA SetAsRemotelyCommitedDiff ==
    ASSUME TypeOKStore, NEW keys \in SUBSET Key, NEW commitTime \in Time,
           SetAsRemotelyCommited(keys, commitTime)
    PROVE  ChangesMatchView' /\ \A k \in Key : View(k)' = View(k)
<1> USE DEF CommitedEntry
<1>1. \A k \in Stored(local) : [value |-> local[k].value, commitTime |-> commitTime] # Absent
  BY AbsentAssumption DEF TypeOKStore, Stored, LocalEntry, RemoteEntry
<1> QED BY <1>1 DEF SetAsRemotelyCommited, ChangesMatchView, View, Stored, NoDiff

LEMMA DiscardLocalEntryKeysDiff ==
    ASSUME TypeOKStore, NEW keys \in SUBSET Key, DiscardLocalEntryKeys(keys)
    PROVE  /\ ChangesMatchView'
           /\ \A k \in Key : View(k)' # View(k) => k \in DiffKeys(diff')
<1> USE DEF Purged
<1>1. ASSUME NEW k \in keys \cap Stored(local)
      PROVE  View(k) = local[k].value /\ View(k)' = IF remote[k] = Absent THEN Undefined ELSE remote[k].value
  BY DEF DiscardLocalEntryKeys, View, Stored
<1>2. ASSUME NEW k \in Key \ (keys \cap Stored(local))
      PROVE  View(k)' = View(k)
  BY DEF DiscardLocalEntryKeys, View, Stored
<1>3. ChangesMatchView'
  BY <1>1 DEF DiscardLocalEntryKeys, ChangesMatchView, Stored
<1>4. ASSUME NEW k \in Key, View(k)' # View(k)
      PROVE  k \in DiffKeys(diff')
  <2>1. k \in keys \cap Stored(local)
    BY <1>2, <1>4
  <2>2. CASE remote[k] = Absent
    <3>1. [key |-> k, value |-> Undefined] \in diff'.changed
      BY <2>1, <2>2 DEF DiscardLocalEntryKeys, Stored
    <3> QED BY <3>1, DiffKeysOf
  <2>3. CASE remote[k] # Absent
    <3>1. remote[k].value # local[k].value
      BY <1>1, <1>4, <2>1, <2>3
    <3>2. [key |-> k, value |-> remote[k].value] \in diff'.changed
      BY <2>1, <2>3, <3>1 DEF DiscardLocalEntryKeys, Stored
    <3> QED BY <3>2, DiffKeysOf
  <2> QED BY <2>2, <2>3
<1> QED BY <1>3, <1>4

\* Opening and closing announce nothing.
LEMMA LifecycleDiff ==
    ASSUME ChangesMatchView,
           \/ Open \/ Close \/ DestroyLocalData
           \/ \E batch \in Batches : CrashDuringReset(batch)
    PROVE  ChangesMatchView' /\ ~(isOpen /\ isOpen')
<1>1. CASE Open
  BY <1>1 DEF Open, ChangesMatchView, View
<1>2. CASE Close \/ DestroyLocalData \/ \E batch \in Batches : CrashDuringReset(batch)
  <2>1. diff' = NoDiff /\ isOpen' = FALSE
    BY <1>2 DEF Close, DestroyLocalData, CrashDuringReset
  <2> QED BY <2>1 DEF ChangesMatchView, NoDiff
<1> QED BY <1>1, <1>2

\* A reset that fails halfway announces nothing; what readers no longer see had
\* no pending change, and is undefined now.
LEMMA ResetFailsDiff ==
    ASSUME NEW batch, ResetFails(batch)
    PROVE  /\ ChangesMatchView'
           /\ diff'.origin = "failed"
           /\ \A k \in Key : View(k)' # View(k) => local[k] = Absent /\ View(k)' = Undefined
<1>1. local' = local /\ remote' = Empty /\ diff' = FailedDiff
  BY DEF ResetFails
<1>2. diff'.origin = "failed" /\ diff'.cleared = {} /\ diff'.changed = {}
  BY <1>1 DEF FailedDiff, NoDiff
<1>3. ASSUME NEW k \in Key, View(k)' # View(k)
      PROVE  local[k] = Absent /\ View(k)' = Undefined
  BY <1>1, <1>3 DEF View, Empty
<1> QED BY <1>2, <1>3 DEF ChangesMatchView

LEMMA NextStoreDiff ==
    ASSUME TypeOKStore, ChangesMatchView, [NextStore]_storeVars
    PROVE  /\ ChangesMatchView'
           /\ isOpen /\ isOpen' =>
                 \A k \in Key : View(k)' # View(k) =>
                     \/ k \in DiffKeys(diff')
                     \/ diff'.origin = "failed" /\ local[k] = Absent /\ View(k)' = Undefined
<1>1. CASE UNCHANGED storeVars
  BY <1>1 DEF storeVars, ChangesMatchView, View
<1>2. CASE NextStore
  BY <1>2, CommitLocalEntriesDiff, CommitRemoteEntriesDiff, SetAsRemotelyCommitedDiff,
     DiscardLocalEntryKeysDiff, LifecycleDiff, ResetFailsDiff,
     BatchesAssumption DEF NextStore
<1> QED BY <1>1, <1>2

LEMMA InitStoreDiff == InitStore => ChangesMatchView
  BY DEF InitStore, ChangesMatchView, NoDiff

\* What a diff tells subscribers is what a read returns, the undefined values of
\* a reset included, but for the keys a pending change shadows.
THEOREM DiffsTellTheView == SpecStore => []ChangesMatchView
<1>1. TypeOKStore /\ ChangesMatchView /\ [NextStore]_storeVars => ChangesMatchView'
  BY NextStoreDiff
<1> QED BY <1>1, InitStoreDiff, TypeCorrect, PTL DEF SpecStore

\* No change of what readers see goes unannounced, but the keys that become
\* undefined when a reset fails between its two writes.
THEOREM DiffsAreComplete == SpecStore => EveryChangeAnnounced
<1>1. TypeOKStore /\ ChangesMatchView /\ [NextStore]_storeVars
        => [isOpen /\ isOpen' =>
              \A k \in Key : View(k)' # View(k) =>
                  \/ k \in DiffKeys(diff')
                  \/ diff'.origin = "failed" /\ local[k] = Absent /\ View(k)' = Undefined]_storeVars
  BY NextStoreDiff
<1> QED BY <1>1, TypeCorrect, DiffsTellTheView, PTL DEF SpecStore, EveryChangeAnnounced

-----------------------------------------------------------------------------

(***************************************************************************)
(* Ghosts.  What an operation adds to the lookup it also stores, and what  *)
(* it takes from storage it also takes from the lookup; a reset that clears*)
(* something is the exception.                                             *)
(***************************************************************************)

LEMMA CommitLocalEntriesGhosts ==
    ASSUME TypeOKStore, NEW keys \in SUBSET Key, NEW new \in [keys -> Data],
           CommitLocalEntries(new)
    PROVE  Ghosts' \subseteq Ghosts
<1> DEFINE kept == {k \in keys : local[k] = Absent \/ local[k].value # new[k]}
<1>1. /\ remote' = remote
      /\ local' = [k \in Key |->
                        IF k \in kept
                        THEN [value |-> new[k], syncReferenceTime |-> SyncReferenceTime(k)]
                        ELSE local[k]]
      /\ lookup' = AddLeaves(lookup, kept)
  BY DEF CommitLocalEntries
<1>2. TypeOKStore'
  BY CommitLocalEntriesType
<1>3. \A k \in kept : SyncReferenceTime(k) \in Time \cup {0}
  BY DEF TypeOKStore, SyncReferenceTime, LocalEntry
<1>4. \A k \in kept : local'[k] # Absent
  BY <1>1, <1>3, AbsentAssumption DEF LocalEntry
<1>5. AllKeys \cup kept \subseteq AllKeys'
  BY <1>1, <1>4 DEF AllKeys, Stored
<1>6. lookup' \subseteq lookup \cup kept
  BY <1>1 DEF AddLeaves
<1> QED BY <1>5, <1>6 DEF Ghosts

LEMMA CommitRemoteEntriesGhosts ==
    ASSUME TypeOKStore, NEW batch \in Answer, IsBatch(batch), CommitRemoteEntries(batch),
           diff'.cleared = {}
    PROVE  Ghosts' \subseteq Ghosts
<1> DEFINE store  == IF Resets(batch) THEN Empty ELSE remote
           leaves == IF Resets(batch) THEN Stored(local) ELSE lookup
           news   == {r \in batch.revs : IsNews(store, r)}
<1>1. PICK accepted \in SUBSET news :
        /\ remote' = [k \in Key |->
                        IF k \in {r.key : r \in accepted}
                        THEN [value      |-> RevisionOf(accepted, k).value,
                              commitTime |-> RevisionOf(accepted, k).commitTime]
                        ELSE store[k]]
        /\ lookup' = AddLeaves(AddLeaves(leaves, Cleared(batch)), {r.key : r \in Shown(accepted)})
        /\ diff' = [origin  |-> "remote",
                    cleared |-> Cleared(batch),
                    changed |-> {[key |-> r.key, value |-> r.value] : r \in Shown(accepted)}]
  BY DEF CommitRemoteEntries
<1>2. local' = local
  BY DEF CommitRemoteEntries
<1> DEFINE keys == {r.key : r \in accepted}
<1>3. accepted \in SUBSET Revision
  BY DEF Answer
<1>4. Cleared(batch) = {} /\ lookup' \subseteq leaves \cup keys
  <2>1. Cleared(batch) = {}
    BY <1>1
  <2>2. {r.key : r \in Shown(accepted)} \subseteq keys
    BY DEF Shown
  <2> HIDE DEF leaves, keys
  <2> QED BY <1>1, <2>1, <2>2 DEF AddLeaves
<1>5. keys \subseteq AllKeys'
  <2>1. ASSUME NEW r \in accepted PROVE r.key \in AllKeys'
    <3>1. RevisionOf(accepted, r.key) \in Revision
      BY <1>3, RevisionOfKey
    <3>2. remote'[r.key] = [value      |-> RevisionOf(accepted, r.key).value,
                            commitTime |-> RevisionOf(accepted, r.key).commitTime]
      BY <1>1, <1>3 DEF Revision
    <3>3. remote'[r.key] # Absent
      BY <3>1, <3>2, AbsentAssumption DEF Revision, RemoteEntry
    <3> QED BY <1>3, <3>3 DEF AllKeys, Stored, Revision
  <2> QED BY <2>1
<1>6. Stored(remote) = Stored(store)
  BY <1>4 DEF Cleared, Stored, Empty
<1>7. AllKeys \subseteq AllKeys'
  <2>1. \A k \in Key \ keys : remote'[k] = store[k]
    BY <1>1
  <2> QED BY <1>2, <1>5, <1>6, <2>1 DEF AllKeys, Stored
<1>8. leaves \subseteq lookup \cup AllKeys
  BY DEF AllKeys
<1> QED BY <1>4, <1>5, <1>7, <1>8 DEF Ghosts

LEMMA DiscardLocalEntryKeysGhosts ==
    ASSUME InvStore, NEW keys \in SUBSET Key, DiscardLocalEntryKeys(keys)
    PROVE  Ghosts' \subseteq Ghosts
<1>1. lookup' = lookup \ Purged(keys)
  <2>1. Purged(keys) \in SUBSET lookup
    BY DEF Purged, DiscardLocalEntryKeys, InvStore, LookupCoversStores, AllKeys
  <2> QED BY <2>1, RemoveLeavesExact
          DEF DiscardLocalEntryKeys, InvStore, TypeOKStore, LeavesNeverNest
<1>2. AllKeys' = AllKeys \ Purged(keys)
  BY DEF DiscardLocalEntryKeys, Purged, AllKeys, Stored
<1> QED BY <1>1, <1>2 DEF Ghosts

LEMMA SetAsRemotelyCommitedGhosts ==
    ASSUME TypeOKStore, NEW keys \in SUBSET Key, NEW commitTime \in Time,
           SetAsRemotelyCommited(keys, commitTime)
    PROVE  Ghosts' \subseteq Ghosts
<1>1. TypeOKStore'
  BY SetAsRemotelyCommitedType
<1>2. AllKeys' = AllKeys
  BY AbsentAssumption, <1>1
     DEF SetAsRemotelyCommited, CommitedEntry, TypeOKStore, AllKeys, Stored, LocalEntry, RemoteEntry
<1> QED BY <1>2 DEF SetAsRemotelyCommited, Ghosts

LEMMA LifecycleGhosts ==
    ASSUME \/ Open \/ Close \/ DestroyLocalData
           \/ \E batch \in Batches : CrashDuringReset(batch) \/ ResetFails(batch)
    PROVE  Ghosts' \subseteq Ghosts
<1>1. CASE Open
  <2>1. AllKeys' = AllKeys /\ lookup' \subseteq AllKeys
    BY <1>1 DEF Open, AllKeys, Stored, AddLeaves
  <2> QED BY <2>1 DEF Ghosts
<1>2. CASE Close \/ DestroyLocalData \/ \E batch \in Batches : CrashDuringReset(batch)
  BY <1>2 DEF Close, DestroyLocalData, CrashDuringReset, Ghosts
<1>3. CASE \E batch \in Batches : ResetFails(batch)
  BY <1>3 DEF ResetFails, Ghosts, AllKeys, Stored
<1> QED BY <1>1, <1>2, <1>3

\* Leaves without entries come from resets and from nothing else.
THEOREM GhostsOnlyFromResets ==
    ASSUME RereadSucceeds
    PROVE  SpecStore => GhostsComeFromResets
<1>1. InvStore /\ [NextStore]_storeVars
        => [diff'.cleared = {} => Ghosts' \subseteq Ghosts]_storeVars
  <2> SUFFICES ASSUME InvStore, NextStore, diff'.cleared = {}
               PROVE  Ghosts' \subseteq Ghosts
    OBVIOUS
  <2>1. TypeOKStore
    BY DEF InvStore
  <2> QED BY <2>1, CommitLocalEntriesGhosts, CommitRemoteEntriesGhosts,
             DiscardLocalEntryKeysGhosts, SetAsRemotelyCommitedGhosts, LifecycleGhosts,
             BatchesAssumption DEF NextStore
<1>2. InvStore /\ [NextStore]_storeVars => InvStore'
  BY NextStoreInv
<1> QED BY <1>1, <1>2, InitStoreInv, PTL DEF SpecStore, GhostsComeFromResets

=============================================================================
