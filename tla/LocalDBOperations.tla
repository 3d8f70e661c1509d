-------------------------- MODULE LocalDBOperations --------------------------
(***************************************************************************)
(* The operations of one database                                          *)
(* (src/src/DB/LocalDB/LocalDBOperations.ts).  The dispatcher in front of  *)
(* them runs one at a time (SerializingMethodDispatcher), so each is one   *)
(* atomic action, but for the one place where an operation writes storage  *)
(* twice: CrashDuringReset, ResetFails.                                    *)
(*                                                                         *)
(* Two object stores hold revisions of the same keys: `local' the changes  *)
(* not yet sent to the server, which shadow `remote', what the server has. *)
(* A deletion is an entry whose value is Undefined.                        *)
(***************************************************************************)
EXTENDS NodeLookup, Integers

CONSTANTS Value, Undefined,  \* what a leaf holds; Undefined marks a deletion
          Absent,            \* no entry in the object store
          Time,              \* server commit timestamps
          Persistent,        \* is the storage medium on disk?
          Batches,           \* what the server may ever answer
          ResetFailsAt       \* the calls of storage a reset may fail at, once it has cleared

ASSUME ValueAssumption == Undefined \notin Value

ASSUME TimeAssumption == Time \subseteq Nat \ {0}

Data == Value \cup {Undefined}

\* updateTime is left out: only the default conflict handler reads it, and a
\* conflict handler may answer anything (LocalDBSync).
LocalEntry  == [value : Data, syncReferenceTime : Time \cup {0}]
RemoteEntry == [value : Data, commitTime : Time]
Revision    == [key : Key, value : Data, commitTime : Time]
Change      == [key : Key, value : Data]

ASSUME AbsentAssumption == Absent \notin LocalEntry /\ Absent \notin RemoteEntry

ASSUME PersistentAssumption == Persistent \in BOOLEAN

ASSUME ResetFailsAtAssumption == ResetFailsAt \subseteq {"getLocalEntryKeys", "set"}

VARIABLES isOpen,        \* this.db !== undefined
          local, remote, \* the object stores LocalEntries and RemoteEntries
          lastModified,  \* serverMetadata.lastModified in GlobalMetadata
          lookup,        \* this.nodeLookup
          diff           \* what the last operation returned for announceChanges

storeVars == <<isOpen, local, remote, lastModified, lookup, diff>>

Stored(store) == {k \in Key : store[k] # Absent}

\* getAllKeys: tombstones count as keys.
AllKeys == Stored(local) \cup Stored(remote)

\* getEntries, getAllEntries: a local entry shadows the remote one, and a
\* tombstone reads as undefined.
View(k) == IF local[k] # Absent THEN local[k].value
           ELSE IF remote[k] # Absent THEN remote[k].value
           ELSE Undefined

(***************************************************************************)
(* getEntity of a branch asks getEntries for the leaves below it.  If each *)
(* has a local entry these are what it gets, tombstones included; if not,  *)
(* it gets undefined in place of each that is deleted or not there, and    *)
(* throws a TypeError on the first of them.                                *)
(***************************************************************************)
BranchReadThrows(leaves) ==
    /\ \E k \in leaves : local[k] = Absent
    /\ \E k \in leaves : View(k) = Undefined

NoDiff == [origin |-> "none", cleared |-> {}, changed |-> {}]

\* An operation that was rejected after it had changed something.
FailedDiff == [NoDiff EXCEPT !.origin = "failed"]

\* The keys a diff announces.  `cleared' are the undefined values a head entry
\* puts at the front of the diff, `changed' the entries that come after.
DiffKeys(d) == d.cleared \cup {c.key : c \in d.changed}

Empty == [k \in Key |-> Absent]

-----------------------------------------------------------------------------

(***************************************************************************)
(* commitLocalEntries.  An entry equal to the pending local one is         *)
(* skipped.  A pending entry keeps its reference time if that is not 0.    *)
(***************************************************************************)
UnsetReferenceTime(k) ==  \* mutant: none before the first sync
    IF lastModified = 0 THEN Undefined ELSE lastModified

MovingReferenceTime(k) ==  \* mutant: taken anew by every edit
    lastModified

SyncReferenceTime(k) ==
    IF local[k] # Absent /\ local[k].syncReferenceTime > 0
    THEN local[k].syncReferenceTime
    ELSE lastModified

CommitLocalEntries(new) ==
    LET kept == {k \in DOMAIN new : local[k] = Absent \/ local[k].value # new[k]}
    IN  /\ isOpen
        /\ local' = [k \in Key |->
                        IF k \in kept
                        THEN [value |-> new[k], syncReferenceTime |-> SyncReferenceTime(k)]
                        ELSE local[k]]
        /\ lookup' = AddLeaves(lookup, kept)
        /\ diff' = [origin  |-> "local",
                    cleared |-> {},
                    changed |-> {[key |-> k, value |-> new[k]] : k \in kept}]
        /\ UNCHANGED <<isOpen, remote, lastModified>>

\* What commitLocalTransaction hands over: a put throws when its path shares
\* heritage with a leaf or with a path put earlier in the transaction; updates
\* and deletions are of paths in the lookup.
Assignable(new) ==
    /\ \A k \in DOMAIN new : ~SharesHeritage(lookup, k)
    /\ HeritageFree(DOMAIN new)

(***************************************************************************)
(* commitRemoteEntries.  A batch is what one response of the server decodes*)
(* to: at most one revision per key, in the order of their commit times,   *)
(* `head' the commit time of the head entry in front of them (0: none) and *)
(* `last' the commit time of the last entry.  Revisions of one write never *)
(* share heritage with each other: they come from one client's leaves.     *)
(***************************************************************************)
Answer == [head : Time \cup {0}, revs : SUBSET Revision, last : Time]

IsBatch(batch) ==
    /\ \A r, q \in batch.revs : r.key = q.key => r = q
    /\ \A r, q \in batch.revs : Related(r.key, q.key) => r.commitTime # q.commitTime
    /\ \A r \in batch.revs : batch.head <= r.commitTime /\ r.commitTime <= batch.last
    /\ batch.head <= batch.last
    /\ batch.last \in {batch.head} \cup {r.commitTime : r \in batch.revs}

ASSUME BatchesAssumption == \A batch \in Batches : batch \in Answer /\ IsBatch(batch)

\* The head entry empties a store that was synced before; it is skipped by a
\* store that never was.
NeverResets(batch) == FALSE  \* mutant: the head entry is always skipped

Resets(batch) == batch.head # 0 /\ lastModified > 0

\* The keys it empties: announced as undefined, and added to the lookup again.
SilentlyCleared(batch) == {}  \* mutant: not announced

Cleared(batch) == IF Resets(batch) THEN Stored(remote) ELSE {}

\* Not yet known: no existing entry, or one of another time and value.
IsNewsIfNoEntry(store, r) == store[r.key] = Absent  \* mutant: first revision wins

IsNews(store, r) ==
    \/ store[r.key] = Absent
    \/ /\ store[r.key].commitTime # r.commitTime
       /\ store[r.key].value # r.value

\* The revisions stored: the news that share no heritage with a leaf, nor
\* with a revision of the batch stored before them.
IsAcceptedOverLeaves(accepted, news, leaves) ==  \* mutant: heritage unchecked
    accepted = news

IsAccepted(accepted, news, leaves) ==
    accepted = {r \in news :
                  /\ ~SharesHeritage(leaves, r.key)
                  /\ \A q \in accepted : Related(q.key, r.key) => r.commitTime < q.commitTime}

RevisionOf(revs, k) == CHOOSE r \in revs : r.key = k

\* The revisions announced: those no pending entry shadows.
ShownToAll(accepted) == accepted  \* mutant: shadowed ones too

Shown(accepted) == {r \in accepted : local[r.key] = Absent}

CommitRemoteEntries(batch) ==
    LET store   == IF Resets(batch) THEN Empty ELSE remote
        leaves  == IF Resets(batch) THEN Stored(local) ELSE lookup
        cleared == Cleared(batch)
        news    == {r \in batch.revs : IsNews(store, r)}
    IN  /\ isOpen
        /\ \E accepted \in SUBSET news :
              LET shown == Shown(accepted)
                  keys  == {r.key : r \in accepted}
              IN  /\ IsAccepted(accepted, news, leaves)
                  /\ remote' = [k \in Key |->
                                  IF k \in keys
                                  THEN [value      |-> RevisionOf(accepted, k).value,
                                        commitTime |-> RevisionOf(accepted, k).commitTime]
                                  ELSE store[k]]
                  /\ lookup' = AddLeaves(AddLeaves(leaves, cleared), {r.key : r \in shown})
                  /\ diff' = [origin  |-> "remote",
                              cleared |-> cleared,
                              changed |-> {[key |-> r.key, value |-> r.value] : r \in shown}]
        /\ lastModified' = batch.last
        /\ UNCHANGED <<isOpen, local>>

\* The remote store is emptied by a write of its own, before the write that
\* stores the new entries and lastModified: a crash may fall between them, or,
\* in web storage, between the items that are cleared.
CrashDuringReset(batch) ==
    /\ isOpen
    /\ Persistent
    /\ Resets(batch)
    /\ \E left \in SUBSET Stored(remote) :
          remote' = [k \in Key |-> IF k \in left THEN remote[k] ELSE Absent]
    /\ lookup' = {}
    /\ isOpen' = FALSE
    /\ diff' = NoDiff
    /\ UNCHANGED <<local, lastModified>>

\* Or storage refuses that write (no room is left, the engine fails), or the
\* read of the pending keys for the lookup before it, and the program goes on.
ResetFails(batch) ==
    /\ isOpen
    /\ Persistent
    /\ Resets(batch)
    /\ remote' = Empty
    /\ \E failing \in ResetFailsAt :
          lookup' = IF failing = "set" THEN Stored(local) ELSE {}
    /\ diff' = FailedDiff
    /\ UNCHANGED <<isOpen, local, lastModified>>

(***************************************************************************)
(* setAsRemotelyCommited: whatever is pending under these keys moves to    *)
(* the remote store with the commit time the server answered.              *)
(***************************************************************************)
StaleCommitedEntry(k, commitTime) ==  \* mutant: dated at the last pull
    [value |-> local[k].value, commitTime |-> lastModified]

CommitedEntry(k, commitTime) ==
    [value |-> local[k].value, commitTime |-> commitTime]

SetAsRemotelyCommited(keys, commitTime) ==
    LET moved == keys \cap Stored(local)
    IN  /\ isOpen
        /\ remote' = [k \in Key |->
                        IF k \in moved
                        THEN CommitedEntry(k, commitTime)
                        ELSE remote[k]]
        /\ local' = [k \in Key |-> IF k \in moved THEN Absent ELSE local[k]]
        /\ diff' = NoDiff
        /\ UNCHANGED <<isOpen, lastModified, lookup>>

(***************************************************************************)
(* discardLocalEntryKeys: roll back to the remote entry, or to nothing; in *)
(* the latter case the path is no longer a leaf.                           *)
(***************************************************************************)
PurgedWithRemote(keys) == keys \cap Stored(local)  \* mutant: remote entry or not

Purged(keys) == (keys \cap Stored(local)) \ Stored(remote)

DiscardLocalEntryKeys(keys) ==
    LET dropped == keys \cap Stored(local)
        purged  == Purged(keys)
        rolled  == {k \in dropped \ purged : remote[k].value # local[k].value}
    IN  /\ isOpen
        /\ local' = [k \in Key |-> IF k \in dropped THEN Absent ELSE local[k]]
        /\ lookup' = RemoveLeaves(lookup, purged)
        /\ diff' = [origin  |-> "local",
                    cleared |-> {},
                    changed |-> {[key |-> k, value |-> Undefined] : k \in purged}
                           \cup {[key |-> k, value |-> remote[k].value] : k \in rolled}]
        /\ UNCHANGED <<isOpen, remote, lastModified>>

(***************************************************************************)
(* getConflictingEntries: the keys with a pending change it reports.       *)
(***************************************************************************)
ConflictingKeys ==
    {k \in Stored(local) \cap Stored(remote) :
        /\ ~(local[k].syncReferenceTime > remote[k].commitTime)
        /\ local[k].value # remote[k].value}

-----------------------------------------------------------------------------

\* open: the lookup is rebuilt from the keys found in storage.
Open ==
    /\ ~isOpen
    /\ isOpen' = TRUE
    /\ lookup' = AddLeaves({}, AllKeys)
    /\ UNCHANGED <<local, remote, lastModified, diff>>

\* destroyLocalData: the adapter's destroy, then close.
DestroyLocalData ==
    /\ isOpen
    /\ isOpen' = FALSE
    /\ local' = Empty
    /\ remote' = Empty
    /\ lastModified' = 0
    /\ lookup' = {}
    /\ diff' = NoDiff

\* close, and the end of the process: storage stays if it is on disk; the
\* in-memory adapter is dropped with everything in it.
Close ==
    IF Persistent
    THEN /\ isOpen
         /\ isOpen' = FALSE
         /\ lookup' = {}
         /\ diff' = NoDiff
         /\ UNCHANGED <<local, remote, lastModified>>
    ELSE DestroyLocalData

-----------------------------------------------------------------------------

(***************************************************************************)
(* The operations called in any order, with any answer of a server.        *)
(***************************************************************************)
InitStore ==
    /\ isOpen = TRUE
    /\ local = Empty
    /\ remote = Empty
    /\ lastModified = 0
    /\ lookup = {}
    /\ diff = NoDiff

NextStore ==
    \/ \E keys \in SUBSET Key :
          \/ \E new \in [keys -> Data] : Assignable(new) /\ CommitLocalEntries(new)
          \/ \E commitTime \in Time : SetAsRemotelyCommited(keys, commitTime)
          \/ DiscardLocalEntryKeys(keys)
    \/ \E batch \in Batches :
          CommitRemoteEntries(batch) \/ CrashDuringReset(batch) \/ ResetFails(batch)
    \/ Open
    \/ Close
    \/ DestroyLocalData

SpecStore == InitStore /\ [][NextStore]_storeVars

-----------------------------------------------------------------------------

TypeOKStore ==
    /\ isOpen \in BOOLEAN
    /\ local \in [Key -> LocalEntry \cup {Absent}]
    /\ remote \in [Key -> RemoteEntry \cup {Absent}]
    /\ lastModified \in Time \cup {0}
    /\ lookup \in SUBSET Key
    /\ diff \in [origin : {"none", "failed", "local", "remote"}, cleared : SUBSET Key, changed : SUBSET Change]

\* Every entry in storage can be found through the lookup, whatever order
\* local writes, pulls, resets, acknowledgements, discards and restarts come
\* in: an entry outside it would be stored but unreadable (getEntity goes
\* through nodeLookup).
LookupCoversStores == isOpen => AllKeys \subseteq lookup

\* No leaf lies below another one, in the lookup or across the two stores:
\* neither a pending write nor a pulled revision ever nests a leaf in a leaf
\* (NodeLookup.add would drop the outer or the inner one).
LeavesNeverNest == HeritageFree(lookup) /\ HeritageFree(AllKeys)

\* What subscribers are told is what readers see once the operation is done: a
\* value in the diff is the one a read returns, and a key that a reset announces
\* as undefined, and no later entry of the diff announces again, is undefined,
\* but where a pending change shadows it.  There the subscriber is told undefined
\* and readers go on seeing the pending value.
ChangesMatchView ==
    /\ \A c \in diff.changed : View(c.key) = c.value
    /\ \A k \in diff.cleared \ {c.key : c \in diff.changed} :
          View(k) = Undefined \/ local[k] # Absent

\* No change of what a reader sees goes unannounced: while the database stays
\* open, a key whose value changes in an operation is in the diff it returns.
\* In particular an acknowledged push and a shadowed pull change nothing.  The
\* exception is a reset that fails between its two writes.  Nobody is told of it
\* (the next reset finds nothing to clear), but all it does to readers is to make
\* keys without a pending change undefined.
EveryChangeAnnounced ==
    [][isOpen /\ isOpen' =>
          \A k \in Key : View(k)' # View(k) =>
              \/ k \in DiffKeys(diff')
              \/ diff'.origin = "failed" /\ local[k] = Absent /\ View(k)' = Undefined]_storeVars

\* Reading the root, or any branch, gives "the requested data, or `undefined` if
\* it was not found" (docs/API Reference.md:334), whatever was deleted below it.
BranchesReadable == isOpen => ~BranchReadThrows(lookup)

\* Leaves of the lookup without an entry in storage.  They refuse every write
\* and every pulled revision above or below them until the database is reopened.
Ghosts == lookup \ AllKeys

\* Only a reset leaves ghosts behind (it adds the cleared paths to the lookup it
\* has just rebuilt): no write, pull, acknowledgement or discard makes one, for
\* all the entries these drop.
GhostsComeFromResets == [][diff'.cleared = {} => Ghosts' \subseteq Ghosts]_storeVars

\* The lookup knows the keys in storage and no others, as the comment at
\* LocalDBOperations.ts:498 has it for the moment after a reset.
LookupIsExact == isOpen => lookup = AllKeys
=============================================================================
