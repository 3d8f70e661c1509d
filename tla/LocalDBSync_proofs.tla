------------------------- MODULE LocalDBSync_proofs -------------------------
(***************************************************************************)
(* Proofs about synchronization, for any number of pulls, any bounds and   *)
(* any set of paths and values.                                            *)
(***************************************************************************)
EXTENDS LocalDBSync, LocalDBOperations_proofs, WellFoundedInduction

(***************************************************************************)
(* The calls in flight, by phase.                                          *)
(***************************************************************************)

Asked    == [phase : {"asked"}, after : Time \cup {0}]
Answered == [phase : {"answered"}, batch : Answer]
Pulls    == {Idle} \cup Asked \cup Answered

Resolving == [phase : {"resolving"}, scope : Scopes, discarded : SUBSET Key, new : PartialData]
Posting   == [phase : {"posting"}, sent : PartialData]
Posted    == [phase : {"posted"}, keys : SUBSET Key, time : Time]
Pushes    == {Idle} \cup Resolving \cup Posting \cup Posted

LEMMA PullPhases ==
    ASSUME NEW call \in Pulls
    PROVE  /\ call.phase = "asked" => call \in Asked
           /\ call.phase = "answered" => call \in Answered
  BY DEF Pulls, Idle, Asked, Answered

LEMMA PushPhases ==
    ASSUME NEW call \in Pushes
    PROVE  /\ call.phase = "resolving" => call \in Resolving
           /\ call.phase = "posting" => call \in Posting
           /\ call.phase = "posted" => call \in Posted
  BY DEF Pushes, Idle, Resolving, Posting, Posted

LEMMA PartialDataOf ==
    ASSUME NEW keys \in SUBSET Key, NEW new \in [keys -> Data]
    PROVE  new \in PartialData
  BY DEF PartialData

LEMMA PartialDataIs ==
    ASSUME NEW new \in PartialData
    PROVE  /\ DOMAIN new \in SUBSET Key
           /\ new \in [DOMAIN new -> Data]
  BY DEF PartialData

\* The types, with the calls named.
SyncTypes ==
    /\ TypeOKStore
    /\ history \in SUBSET Revision
    /\ headTime \in Time /\ serverTime \in Time
    /\ pull \in [Puller -> Pulls]
    /\ push \in [Pusher -> Pushes]
    /\ firstBase \in [Key -> Time \cup {0}]
    /\ spent \in [{"edits", "writes", "faults"} -> Nat]

LEMMA SyncTypesAre == SyncTypes <=> TypeOKSync
  BY DEF SyncTypes, TypeOKSync, Pulls, Asked, Answered, Pushes, Resolving, Posting, Posted

-----------------------------------------------------------------------------

LEMMA AppendType ==
    ASSUME SyncTypes, NEW new \in PartialData, Append(new)
    PROVE  history' \in SUBSET Revision /\ serverTime' \in Time
<1>1. DOMAIN new \in SUBSET Key /\ new \in [DOMAIN new -> Data]
  BY PartialDataIs
<1>2. {[key |-> k, value |-> new[k], commitTime |-> serverTime + 1] : k \in DOMAIN new}
        \in SUBSET Revision
  BY <1>1 DEF Append, Revision
<1> QED BY <1>2 DEF Append, SyncTypes

LEMMA SpendType ==
    ASSUME SyncTypes, NEW budget \in {"edits", "writes", "faults"}, NEW max, Spend(budget, max)
    PROVE  spent' \in [{"edits", "writes", "faults"} -> Nat]
  BY DEF Spend, SyncTypes

LEMMA TrackFirstBaseType ==
    ASSUME SyncTypes, TrackFirstBase
    PROVE  firstBase' \in [Key -> Time \cup {0}]
  BY DEF TrackFirstBase, SyncTypes, TypeOKStore

LEMMA ReadAfterType ==
    ASSUME SyncTypes, NEW t
    PROVE  ReadAfter(t) \in Answer
  BY DEF SyncTypes, ReadAfter, Answer, Latest, Live

LEMMA StoreUnchangedType ==
    ASSUME TypeOKStore, UNCHANGED storeVars
    PROVE  TypeOKStore'
  BY DEF storeVars, TypeOKStore

-----------------------------------------------------------------------------

LEMMA InitSyncTypes == InitSync => SyncTypes
<1>1. InitStore => TypeOKStore
  BY InitStoreInv DEF InvStore
<1> QED BY <1>1, FirstTimeAssumption
        DEF InitSync, SyncTypes, NoRequests, NoSubmissions, Pulls, Pushes

LEMMA PullStepTypes ==
    ASSUME SyncTypes, NEW p \in Puller, PullStep(p)
    PROVE  SyncTypes'
<1>0. pull[p] \in Pulls
  BY DEF SyncTypes
<1>1. CASE PullStart(p)
  <2>1. [phase |-> "asked", after |-> lastModified] \in Pulls
    BY DEF Pulls, Asked, SyncTypes, TypeOKStore
  <2> QED BY <1>1, <2>1, StoreUnchangedType DEF PullStart, SyncTypes
<1>2. CASE PullAnswered(p)
  <2>1. [phase |-> "answered", batch |-> ReadAfter(pull[p].after)] \in Pulls
    BY ReadAfterType DEF Pulls, Answered
  <2> QED BY <1>2, <2>1, StoreUnchangedType DEF PullAnswered, SyncTypes
<1>3. CASE PullEmpty(p)
  BY <1>3, StoreUnchangedType DEF PullEmpty, SyncTypes, Pulls
<1>4. CASE PullCommit(p)
  <2>1. pull[p].batch \in Answer
    BY <1>0, <1>4, PullPhases DEF PullCommit, Answered
  <2>2. TypeOKStore'
    BY <1>4, <2>1, CommitRemoteEntriesType DEF PullCommit, SyncTypes
  <2> QED BY <1>4, <2>2 DEF PullCommit, SyncTypes, Pulls
<1>5. CASE PullFails(p)
  <2>1. spent' \in [{"edits", "writes", "faults"} -> Nat]
    BY <1>5, SpendType DEF PullFails
  <2> QED BY <1>5, <2>1, StoreUnchangedType DEF PullFails, SyncTypes, Pulls
<1>6. CASE PullCommitFails(p)
  <2>1. spent' \in [{"edits", "writes", "faults"} -> Nat]
    BY <1>6, SpendType DEF PullCommitFails
  <2>2. TypeOKStore'
    BY <1>6, ResetFailsType DEF PullCommitFails, SyncTypes
  <2> QED BY <1>6, <2>1, <2>2 DEF PullCommitFails, SyncTypes, Pulls
<1> QED BY <1>1, <1>2, <1>3, <1>4, <1>5, <1>6 DEF PullStep

LEMMA PushStepTypes ==
    ASSUME SyncTypes, NEW q \in Pusher, PushStep(q)
    PROVE  SyncTypes'
<1>0. push[q] \in Pushes
  BY DEF SyncTypes
<1>1. CASE \E scope \in Scopes : PushStart(q, scope)
  <2>1. \A rewritten \in SUBSET Key : [rewritten -> Data] \subseteq PartialData
    BY DEF PartialData
  <2>2. PICK scope \in Scopes, discarded \in SUBSET Key, new \in PartialData :
               push' = [push EXCEPT ![q] = [phase     |-> "resolving",
                                            scope     |-> scope,
                                            discarded |-> discarded,
                                            new       |-> new]]
    <3>1. ConflictingKeys \in SUBSET Key
      BY DEF ConflictingKeys, Stored
    <3> QED BY <1>1, <2>1, <3>1 DEF PushStart
  <2>3. [phase |-> "resolving", scope |-> scope, discarded |-> discarded, new |-> new] \in Pushes
    BY DEF Pushes, Resolving
  <2> QED BY <1>1, <2>2, <2>3, StoreUnchangedType DEF PushStart, SyncTypes
<1>2. CASE PushDiscard(q)
  <2>1. push[q] \in Resolving
    BY <1>0, <1>2, PushPhases DEF PushDiscard
  <2>2. TypeOKStore'
    BY <1>2, <2>1, DiscardLocalEntryKeysType DEF PushDiscard, Resolving, SyncTypes
  <2>3. push' \in [Pusher -> Pushes]
    <3>1. [push[q] EXCEPT !.discarded = {}] \in Resolving
      BY <2>1 DEF Resolving
    <3> QED BY <1>2, <3>1 DEF PushDiscard, SyncTypes, Pushes
  <2> QED BY <1>2, <2>2, <2>3, TrackFirstBaseType DEF PushDiscard, SyncTypes
<1>3. CASE PushRecommit(q)
  <2>1. push[q] \in Resolving
    BY <1>0, <1>3, PushPhases DEF PushRecommit
  <2>2. TypeOKStore'
    BY <1>3, <2>1, PartialDataIs, CommitLocalEntriesType DEF PushRecommit, Resolving, SyncTypes
  <2>3. push' \in [Pusher -> Pushes]
    <3>1. [k \in {} |-> Undefined] \in PartialData
      BY PartialDataOf, [k \in {} |-> Undefined] \in [{} -> Data]
    <3>2. [push[q] EXCEPT !.new = [k \in {} |-> Undefined]] \in Resolving
      BY <2>1, <3>1 DEF Resolving
    <3> QED BY <1>3, <3>2 DEF PushRecommit, SyncTypes, Pushes
  <2> QED BY <1>3, <2>2, <2>3, TrackFirstBaseType DEF PushRecommit, SyncTypes
<1>4. CASE PushCapture(q)
  <2> DEFINE sent == Stored(local) \cap push[q].scope
             values == [k \in sent |-> local[k].value]
  <2>1. sent \in SUBSET Key /\ values \in [sent -> Data]
    BY DEF Stored, SyncTypes, TypeOKStore, LocalEntry
  <2>2. values \in PartialData
    <3> HIDE DEF sent, values
    <3> QED BY <2>1, PartialDataOf
  <2>3. [phase |-> "posting", sent |-> values] \in Pushes
    <3> HIDE DEF values
    <3> QED BY <2>2 DEF Pushes, Posting
  <2>4. push' = [push EXCEPT ![q] = IF sent = {} THEN Idle ELSE [phase |-> "posting", sent |-> values]]
    BY <1>4 DEF PushCapture
  <2>5. push' \in [Pusher -> Pushes]
    <3> HIDE DEF sent, values
    <3> QED BY <2>3, <2>4 DEF SyncTypes, Pushes
  <2> QED BY <1>4, <2>5, StoreUnchangedType DEF PushCapture, SyncTypes
<1>5. CASE PushAccepted(q)
  <2>1. push[q] \in Posting
    BY <1>0, <1>5, PushPhases DEF PushAccepted
  <2>2. push[q].sent \in PartialData /\ DOMAIN push[q].sent \in SUBSET Key
    BY <2>1, PartialDataIs DEF Posting
  <2>3. history' \in SUBSET Revision /\ serverTime' \in Time /\ serverTime' = serverTime + 1
    BY <1>5, <2>2, AppendType DEF PushAccepted, Append
  <2>4. [phase |-> "posted", keys |-> DOMAIN push[q].sent, time |-> serverTime + 1] \in Pushes
    BY <2>2, <2>3 DEF Pushes, Posted
  <2> QED BY <1>5, <2>3, <2>4, StoreUnchangedType DEF PushAccepted, SyncTypes
<1>6. CASE PushAck(q)
  <2>1. push[q] \in Posted
    BY <1>0, <1>6, PushPhases DEF PushAck
  <2>2. TypeOKStore'
    BY <1>6, <2>1, SetAsRemotelyCommitedType DEF PushAck, Posted, SyncTypes
  <2> QED BY <1>6, <2>2, TrackFirstBaseType DEF PushAck, SyncTypes, Pushes
<1>7. CASE PushFails(q)
  <2>1. spent' \in [{"edits", "writes", "faults"} -> Nat]
    BY <1>7, SpendType DEF PushFails
  <2> QED BY <1>7, <2>1, StoreUnchangedType DEF PushFails, SyncTypes, Pushes
<1> QED BY <1>1, <1>2, <1>3, <1>4, <1>5, <1>6, <1>7 DEF PushStep

LEMMA OtherStepTypes ==
    ASSUME SyncTypes,
           \/ ForeignWrite \/ Rewrite \/ Crash \/ Restart
           \/ \E k \in Key, v \in Data : LocalEdit(k, v)
           \/ \E scope \in Scopes : \E keys \in SUBSET scope : DiscardLocalChanges(keys)
    PROVE  SyncTypes'
<1>1. CASE ForeignWrite
  <2>1. PICK k \in Key, v \in Data : Append([l \in {k} |-> v])
    BY <1>1 DEF ForeignWrite
  <2>2. [l \in {k} |-> v] \in PartialData
    BY PartialDataOf, [l \in {k} |-> v] \in [{k} -> Data], {k} \in SUBSET Key
  <2>3. history' \in SUBSET Revision /\ serverTime' \in Time
    BY <2>1, <2>2, AppendType
  <2>4. spent' \in [{"edits", "writes", "faults"} -> Nat]
    BY <1>1, SpendType DEF ForeignWrite
  <2> QED BY <1>1, <2>3, <2>4, StoreUnchangedType DEF ForeignWrite, SyncTypes
<1>2. CASE Rewrite
  <2>1. PICK keys \in SUBSET Key : \E new \in [keys -> Value] : Append(new)
    BY <1>2 DEF Rewrite
  <2>2. PICK new \in [keys -> Value] : Append(new)
    BY <2>1
  <2>3. new \in PartialData
    BY PartialDataOf, new \in [keys -> Data] DEF Data
  <2>4. history' \in SUBSET Revision /\ serverTime' \in Time /\ serverTime' = serverTime + 1
    BY <2>2, <2>3, AppendType DEF Append
  <2>5. spent' \in [{"edits", "writes", "faults"} -> Nat]
    BY <1>2, SpendType DEF Rewrite
  <2> QED BY <1>2, <2>4, <2>5, StoreUnchangedType DEF Rewrite, SyncTypes
<1>3. CASE Crash
  <2>1. Close \/ \E batch : CrashDuringReset(batch)
    BY <1>3 DEF Crash
  <2>2. TypeOKStore'
    BY <2>1, LifecycleType DEF SyncTypes
  <2>3. pull' \in [Puller -> Pulls] /\ push' \in [Pusher -> Pushes]
    BY <1>3 DEF Crash, Lost, NoRequests, NoSubmissions, Pulls, Pushes
  <2>4. spent' \in [{"edits", "writes", "faults"} -> Nat]
    BY <1>3, SpendType DEF Crash
  <2> QED BY <1>3, <2>2, <2>3, <2>4, TrackFirstBaseType DEF Crash, SyncTypes
<1>4. CASE Restart
  <2>1. TypeOKStore'
    BY <1>4, LifecycleType DEF Restart, SyncTypes
  <2> QED BY <1>4, <2>1 DEF Restart, syncVars, SyncTypes
<1>5. CASE \E k \in Key, v \in Data : LocalEdit(k, v)
  <2>1. PICK k \in Key, v \in Data : LocalEdit(k, v)
    BY <1>5
  <2>2. TypeOKStore'
    BY <2>1, CommitLocalEntriesType, [l \in {k} |-> v] \in [{k} -> Data], {k} \in SUBSET Key
       DEF LocalEdit, SyncTypes
  <2>3. spent' \in [{"edits", "writes", "faults"} -> Nat]
    BY <2>1, SpendType DEF LocalEdit
  <2> QED BY <2>1, <2>2, <2>3, TrackFirstBaseType DEF LocalEdit, SyncTypes
<1>6. CASE \E scope \in Scopes : \E keys \in SUBSET scope : DiscardLocalChanges(keys)
  <2>1. PICK scope \in Scopes : \E keys \in SUBSET scope : DiscardLocalChanges(keys)
    BY <1>6
  <2>2. PICK keys \in SUBSET scope : DiscardLocalChanges(keys)
    BY <2>1
  <2>3. keys \in SUBSET Key
    BY ScopesAssumption
  <2>4. TypeOKStore'
    BY <2>2, <2>3, DiscardLocalEntryKeysType DEF DiscardLocalChanges, SyncTypes
  <2> QED BY <2>2, <2>4, TrackFirstBaseType DEF DiscardLocalChanges, syncVars, SyncTypes
<1> QED BY <1>1, <1>2, <1>3, <1>4, <1>5, <1>6

LEMMA NextSyncTypes == SyncTypes /\ [NextSync]_vars => SyncTypes'
<1> SUFFICES ASSUME SyncTypes, [NextSync]_vars PROVE SyncTypes'
  OBVIOUS
<1>1. CASE NextSync
  BY <1>1, PullStepTypes, PushStepTypes, OtherStepTypes DEF NextSync
<1>2. CASE UNCHANGED vars
  BY <1>2, StoreUnchangedType DEF vars, syncVars, SyncTypes
<1> QED BY <1>1, <1>2

\* The types of the stores, the server and the calls in flight.
THEOREM SyncTypeCorrect == SpecSync => []TypeOKSync
<1>1. SpecSync => []SyncTypes
  BY InitSyncTypes, NextSyncTypes, PTL DEF SpecSync
<1> QED BY <1>1, SyncTypesAre, PTL

-----------------------------------------------------------------------------

(***************************************************************************)
(* Nothing passes for transmitted that was not.  The invariant follows a   *)
(* submitted change from its capture to its acknowledgement: as long as    *)
(* the application does not edit while a push is in flight, and only one   *)
(* push is, what is pending under a captured key is still what was         *)
(* captured, hence what the server committed.  Each of the two assumptions *)
(* is needed: the run EditDuringPush shows what happens without the first. *)
(***************************************************************************)

RevisionAt(k, value, time) == [key |-> k, value |-> value, commitTime |-> time]

AnsweredFromHistory ==
    \A p \in Puller : pull[p].phase = "answered" => pull[p].batch.revs \subseteq history

CapturedStillPending ==
    \A q \in Pusher : push[q].phase = "posting" =>
        \A k \in DOMAIN push[q].sent : local[k] = Absent \/ local[k].value = push[q].sent[k]

PostedIsInHistory ==
    \A q \in Pusher : push[q].phase = "posted" =>
        \A k \in push[q].keys :
            local[k] = Absent \/ RevisionAt(k, local[k].value, push[q].time) \in history

InvTransmitted ==
    /\ SyncTypes
    /\ CommittedMeansTransmitted
    /\ AnsweredFromHistory
    /\ CapturedStillPending
    /\ PostedIsInHistory

\* What the remote store holds after a pull was there before, or was pulled.
LEMMA CommitRemoteEntriesOrigin ==
    ASSUME TypeOKStore, NEW batch \in Answer, CommitRemoteEntries(batch),
           NEW k \in Stored(remote)'
    PROVE  \/ RevisionAt(k, remote'[k].value, remote'[k].commitTime) \in batch.revs
           \/ ~Resets(batch) /\ k \in Stored(remote) /\ remote'[k] = remote[k]
<1> DEFINE store == IF Resets(batch) THEN Empty ELSE remote
           news  == {r \in batch.revs : IsNews(store, r)}
<1>1. PICK accepted \in SUBSET news :
        remote' = [l \in Key |->
                      IF l \in {r.key : r \in accepted}
                      THEN [value      |-> RevisionOf(accepted, l).value,
                            commitTime |-> RevisionOf(accepted, l).commitTime]
                      ELSE store[l]]
  BY DEF CommitRemoteEntries
<1>2. k \in Key /\ remote'[k] # Absent
  BY DEF Stored
<1>3. accepted \in SUBSET Revision /\ accepted \in SUBSET batch.revs
  BY DEF Answer
<1>4. CASE k \in {r.key : r \in accepted}
  <2>1. RevisionOf(accepted, k) \in accepted /\ RevisionOf(accepted, k).key = k
    BY <1>3, <1>4, RevisionOfKey
  <2>2. remote'[k] = [value      |-> RevisionOf(accepted, k).value,
                      commitTime |-> RevisionOf(accepted, k).commitTime]
    BY <1>1, <1>2, <1>4
  <2>3. RevisionAt(k, remote'[k].value, remote'[k].commitTime) = RevisionOf(accepted, k)
    BY <1>3, <2>1, <2>2 DEF RevisionAt, Revision
  <2> QED BY <1>3, <2>1, <2>3
<1>5. CASE k \notin {r.key : r \in accepted}
  BY <1>1, <1>2, <1>5 DEF Stored, Empty
<1> QED BY <1>4, <1>5

LEMMA ReadAfterHistory == ASSUME NEW t PROVE ReadAfter(t).revs \subseteq history
  BY DEF ReadAfter, Latest, Live

\* A step that keeps the stores, or only drops entries from them, and only
\* adds to the history keeps the invariant for every call it leaves alone.
LEMMA QuietStep ==
    ASSUME InvTransmitted, SyncTypes',
           history \subseteq history',
           \A k \in Key : remote'[k] = remote[k] \/ remote'[k] = Absent,
           \A k \in Key : local'[k] = local[k] \/ local'[k] = Absent,
           \A p \in Puller : \/ pull'[p] = pull[p]
                              \/ pull'[p].phase # "answered"
                              \/ pull'[p].batch.revs \subseteq history,
           \A q \in Pusher : \/ push'[q] = push[q]
                              \/ push'[q].phase \notin {"posting", "posted"}
    PROVE  InvTransmitted'
<1>1. CommittedMeansTransmitted'
  BY DEF InvTransmitted, CommittedMeansTransmitted, Stored
<1>2. AnsweredFromHistory'
  BY DEF InvTransmitted, AnsweredFromHistory
<1>3. CapturedStillPending'
  <2>1. SUFFICES ASSUME NEW q \in Pusher, push'[q].phase = "posting",
                        NEW k \in DOMAIN push'[q].sent
                 PROVE  local'[k] = Absent \/ local'[k].value = push'[q].sent[k]
    BY DEF CapturedStillPending
  <2>2. push'[q] = push[q] /\ push[q] \in Posting
    BY <2>1, PushPhases DEF InvTransmitted, SyncTypes
  <2>3. k \in Key
    BY <2>1, <2>2, PartialDataIs DEF Posting
  <2> QED BY <2>1, <2>2, <2>3 DEF InvTransmitted, CapturedStillPending
<1>4. PostedIsInHistory'
  <2>1. SUFFICES ASSUME NEW q \in Pusher, push'[q].phase = "posted", NEW k \in push'[q].keys
                 PROVE  \/ local'[k] = Absent
                        \/ RevisionAt(k, local'[k].value, push'[q].time) \in history'
    BY DEF PostedIsInHistory, RevisionAt
  <2>2. push'[q] = push[q] /\ push[q] \in Posted
    BY <2>1, PushPhases DEF InvTransmitted, SyncTypes
  <2>3. k \in Key
    BY <2>1, <2>2 DEF Posted
  <2> QED BY <2>1, <2>2, <2>3 DEF InvTransmitted, PostedIsInHistory
<1> QED BY <1>1, <1>2, <1>3, <1>4 DEF InvTransmitted

LEMMA AppendKeepsHistory == ASSUME NEW new, Append(new) PROVE history \subseteq history'
  BY DEF Append

\* The steps that store nothing.
LEMMA QuietStepsTransmitted ==
    ASSUME InvTransmitted, SyncTypes',
           \/ ForeignWrite \/ Rewrite \/ Crash \/ Restart
           \/ \E p \in Puller : \/ PullStart(p) \/ PullAnswered(p) \/ PullEmpty(p)
                               \/ PullCommitFails(p) \/ PullFails(p)
           \/ \E q \in Pusher : \/ \E scope \in Scopes : PushStart(q, scope)
                               \/ PushDiscard(q) \/ PushFails(q)
           \/ \E keys \in SUBSET Key : DiscardLocalChanges(keys)
    PROVE  InvTransmitted'
<1> USE DEF InvTransmitted, SyncTypes
<1>1. CASE ForeignWrite
  <2>1. history \subseteq history'
    BY <1>1, AppendKeepsHistory DEF ForeignWrite
  <2> QED BY <1>1, <2>1, QuietStep DEF ForeignWrite, storeVars
<1>2. CASE Rewrite
  <2>1. history \subseteq history'
    BY <1>2, AppendKeepsHistory DEF Rewrite
  <2> QED BY <1>2, <2>1, QuietStep DEF Rewrite, storeVars
<1>3. CASE Crash
  <2>1. \A k \in Key : remote'[k] = remote[k] \/ remote'[k] = Absent
    BY <1>3 DEF Crash, Close, DestroyLocalData, CrashDuringReset, Empty
  <2>2. \A k \in Key : local'[k] = local[k] \/ local'[k] = Absent
    BY <1>3 DEF Crash, Close, DestroyLocalData, CrashDuringReset, Empty
  <2>3. /\ \A p \in Puller : pull'[p].phase # "answered"
        /\ \A q \in Pusher : push'[q].phase \notin {"posting", "posted"}
    BY <1>3 DEF Crash, Lost, NoRequests, NoSubmissions, Idle
  <2>4. history' = history
    BY <1>3 DEF Crash
  <2> QED BY <2>1, <2>2, <2>3, <2>4, QuietStep
<1>4. CASE Restart
  BY <1>4, QuietStep DEF Restart, Open, syncVars
<1>5. ASSUME NEW p \in Puller,
             PullStart(p) \/ PullAnswered(p) \/ PullEmpty(p) \/ PullFails(p)
      PROVE  InvTransmitted'
  <2>1. UNCHANGED <<storeVars, history, push>>
    BY <1>5 DEF PullStart, PullAnswered, PullEmpty, PullFails
  <2>2. \A other \in Puller : \/ pull'[other] = pull[other]
                             \/ pull'[other].phase # "answered"
                             \/ pull'[other].batch.revs \subseteq history
    BY <1>5, ReadAfterHistory DEF PullStart, PullAnswered, PullEmpty, PullFails, Idle
  <2> QED BY <2>1, <2>2, QuietStep DEF storeVars
<1>6. ASSUME NEW q \in Pusher,
             (\E scope \in Scopes : PushStart(q, scope)) \/ PushDiscard(q) \/ PushFails(q)
      PROVE  InvTransmitted'
  <2>1. /\ UNCHANGED <<history, pull, remote>>
        /\ \A k \in Key : local'[k] = local[k] \/ local'[k] = Absent
    BY <1>6 DEF PushStart, PushDiscard, PushFails, DiscardLocalEntryKeys, storeVars
  <2>2. \A other \in Pusher : \/ push'[other] = push[other]
                             \/ push'[other].phase \notin {"posting", "posted"}
    <3>1. CASE \E scope \in Scopes : PushStart(q, scope)
      BY <3>1 DEF PushStart
    <3>2. CASE PushDiscard(q)
      <4>1. push[q] \in Resolving
        BY <3>2, PushPhases DEF PushDiscard
      <4>2. [push[q] EXCEPT !.discarded = {}].phase = "resolving"
        BY <4>1 DEF Resolving
      <4> QED BY <3>2, <4>2 DEF PushDiscard
    <3>3. CASE PushFails(q)
      BY <3>3 DEF PushFails, Idle
    <3> QED BY <1>6, <3>1, <3>2, <3>3
  <2> QED BY <2>1, <2>2, QuietStep
<1>7. ASSUME NEW keys \in SUBSET Key, DiscardLocalChanges(keys)
      PROVE  InvTransmitted'
  BY <1>7, QuietStep DEF DiscardLocalChanges, DiscardLocalEntryKeys, syncVars
<1>8. ASSUME NEW p \in Puller, PullCommitFails(p)
      PROVE  InvTransmitted'
  <2>1. UNCHANGED <<local, history, push>> /\ \A k \in Key : remote'[k] = Absent
    BY <1>8 DEF PullCommitFails, ResetFails, Empty
  <2>2. \A other \in Puller : pull'[other] = pull[other] \/ pull'[other].phase # "answered"
    BY <1>8 DEF PullCommitFails, Idle
  <2> QED BY <2>1, <2>2, QuietStep
<1> QED BY <1>1, <1>2, <1>3, <1>4, <1>5, <1>6, <1>7, <1>8

\* A pull stores nothing but revisions of the history.
LEMMA PullCommitTransmitted ==
    ASSUME InvTransmitted, SyncTypes', NEW p \in Puller, PullCommit(p)
    PROVE  InvTransmitted'
<1> USE DEF InvTransmitted, SyncTypes
<1>1. pull[p].batch \in Answer /\ pull[p].batch.revs \subseteq history
  BY PullPhases DEF PullCommit, Answered, AnsweredFromHistory
<1>2. local' = local /\ history' = history /\ push' = push
  BY DEF PullCommit, CommitRemoteEntries
<1>3. CommittedMeansTransmitted'
  BY <1>1, <1>2, CommitRemoteEntriesOrigin DEF PullCommit, CommittedMeansTransmitted, RevisionAt, Stored
<1>4. AnsweredFromHistory'
  BY <1>2 DEF PullCommit, AnsweredFromHistory, Idle
<1> QED BY <1>2, <1>3, <1>4 DEF CapturedStillPending, PostedIsInHistory

\* Edits, by the application or a conflict handler, happen while no captured
\* change is in flight.
LEMMA EditTransmitted ==
    ASSUME InvTransmitted, SyncTypes',
           UNCHANGED <<history, pull, remote>>,
           \A q \in Pusher : push'[q].phase \notin {"posting", "posted"}
    PROVE  InvTransmitted'
  BY DEF InvTransmitted, CommittedMeansTransmitted, AnsweredFromHistory,
         CapturedStillPending, PostedIsInHistory, Stored

LEMMA PushRecommitTransmitted ==
    ASSUME \A q1, q2 \in Pusher : q1 = q2,
           InvTransmitted, SyncTypes', NEW q \in Pusher, PushRecommit(q)
    PROVE  InvTransmitted'
<1>1. push[q] \in Resolving
  BY PushPhases DEF PushRecommit, InvTransmitted, SyncTypes
<1>2. push'[q].phase = "resolving"
  BY <1>1 DEF PushRecommit, InvTransmitted, SyncTypes, Resolving
<1>3. UNCHANGED <<history, pull, remote>>
  BY DEF PushRecommit, CommitLocalEntries
<1> QED BY <1>2, <1>3, EditTransmitted

LEMMA LocalEditTransmitted ==
    ASSUME "editDuringPush" \notin Allowed,
           InvTransmitted, SyncTypes', NEW k \in Key, NEW v \in Data, LocalEdit(k, v)
    PROVE  InvTransmitted'
<1>1. \A q \in Pusher : push'[q].phase \notin {"posting", "posted"}
  BY DEF LocalEdit, NoSubmissions, Idle
<1>2. UNCHANGED <<history, pull, remote>>
  BY DEF LocalEdit, CommitLocalEntries
<1> QED BY <1>1, <1>2, EditTransmitted

LEMMA PushCaptureTransmitted ==
    ASSUME InvTransmitted, SyncTypes', NEW q \in Pusher, PushCapture(q)
    PROVE  InvTransmitted'
<1> USE DEF InvTransmitted, SyncTypes
<1> DEFINE sent == Stored(local) \cap push[q].scope
<1>1. /\ push' = [push EXCEPT ![q] =
                     IF sent = {} THEN Idle
                     ELSE [phase |-> "posting", sent |-> [k \in sent |-> local[k].value]]]
      /\ UNCHANGED <<storeVars, history, pull>>
  BY DEF PushCapture
<1>2. CapturedStillPending'
  BY <1>1 DEF CapturedStillPending, storeVars, Idle
<1>3. PostedIsInHistory'
  BY <1>1 DEF PostedIsInHistory, storeVars, Idle
<1> QED BY <1>1, <1>2, <1>3 DEF CommittedMeansTransmitted, AnsweredFromHistory, storeVars, Stored

\* The server commits what was captured.
LEMMA PushAcceptedTransmitted ==
    ASSUME InvTransmitted, SyncTypes', NEW q \in Pusher, PushAccepted(q)
    PROVE  InvTransmitted'
<1> USE DEF InvTransmitted, SyncTypes
<1>1. /\ push[q].phase = "posting"
      /\ push' = [push EXCEPT ![q] = [phase |-> "posted",
                                      keys  |-> DOMAIN push[q].sent,
                                      time  |-> serverTime + 1]]
      /\ UNCHANGED <<storeVars, pull>>
  BY DEF PushAccepted
<1>2. history' = history \cup {RevisionAt(k, push[q].sent[k], serverTime + 1) : k \in DOMAIN push[q].sent}
  BY DEF PushAccepted, Append, RevisionAt
<1>3. CommittedMeansTransmitted' /\ AnsweredFromHistory' /\ CapturedStillPending'
  BY <1>1, <1>2 DEF CommittedMeansTransmitted, AnsweredFromHistory, CapturedStillPending, storeVars, Stored
<1>4. PostedIsInHistory'
  <2>1. SUFFICES ASSUME NEW r \in Pusher, push'[r].phase = "posted", NEW k \in push'[r].keys
                 PROVE  \/ local[k] = Absent
                        \/ RevisionAt(k, local[k].value, push'[r].time) \in history'
    BY <1>1 DEF PostedIsInHistory, storeVars, RevisionAt
  <2>2. CASE r = q
    <3>1. k \in DOMAIN push[q].sent /\ push'[r].time = serverTime + 1
      BY <1>1, <2>1, <2>2
    <3>2. local[k] = Absent \/ local[k].value = push[q].sent[k]
      BY <1>1, <3>1 DEF CapturedStillPending
    <3> QED BY <1>2, <3>1, <3>2
  <2>3. CASE r # q
    BY <1>1, <1>2, <2>1, <2>3 DEF PostedIsInHistory
  <2> QED BY <2>2, <2>3
<1> QED BY <1>3, <1>4

\* An acknowledged change is one the server has committed.
LEMMA PushAckTransmitted ==
    ASSUME InvTransmitted, SyncTypes', NEW q \in Pusher, PushAck(q)
    PROVE  InvTransmitted'
<1> USE DEF InvTransmitted, SyncTypes
<1> DEFINE keys  == push[q].keys
           moved == keys \cap Stored(local)
<1>1. push[q] \in Posted /\ keys \in SUBSET Key
  BY PushPhases DEF PushAck, Posted
<1>2. /\ remote' = [k \in Key |-> IF k \in moved THEN CommitedEntry(k, push[q].time) ELSE remote[k]]
      /\ local' = [k \in Key |-> IF k \in moved THEN Absent ELSE local[k]]
      /\ push' = [push EXCEPT ![q] = Idle]
      /\ history' = history /\ pull' = pull
  BY DEF PushAck, SetAsRemotelyCommited
<1>3. CommittedMeansTransmitted'
  <2>1. SUFFICES ASSUME NEW k \in Key, remote'[k] # Absent
                 PROVE  RevisionAt(k, remote'[k].value, remote'[k].commitTime) \in history
    BY <1>2 DEF CommittedMeansTransmitted, Stored, RevisionAt
  <2>2. CASE k \in moved
    <3>1. RevisionAt(k, local[k].value, push[q].time) \in history
      BY <2>2 DEF PostedIsInHistory, PushAck, Stored
    <3> QED BY <1>2, <2>2, <3>1 DEF CommitedEntry
  <2>3. CASE k \notin moved
    BY <1>2, <2>1, <2>3 DEF CommittedMeansTransmitted, Stored, RevisionAt
  <2> QED BY <2>2, <2>3
<1>4. AnsweredFromHistory'
  BY <1>2 DEF AnsweredFromHistory
<1>5. CapturedStillPending'
  <2>1. SUFFICES ASSUME NEW r \in Pusher, push'[r].phase = "posting", NEW k \in DOMAIN push'[r].sent
                 PROVE  local'[k] = Absent \/ local'[k].value = push'[r].sent[k]
    BY DEF CapturedStillPending
  <2>2. push'[r] = push[r] /\ push[r] \in Posting
    BY <1>2, <2>1, PushPhases DEF Idle
  <2>3. k \in Key
    BY <2>1, <2>2, PartialDataIs DEF Posting
  <2> QED BY <1>2, <2>1, <2>2, <2>3 DEF CapturedStillPending
<1>6. PostedIsInHistory'
  <2>1. SUFFICES ASSUME NEW r \in Pusher, push'[r].phase = "posted", NEW k \in push'[r].keys
                 PROVE  \/ local'[k] = Absent
                        \/ RevisionAt(k, local'[k].value, push'[r].time) \in history'
    BY DEF PostedIsInHistory, RevisionAt
  <2>2. push'[r] = push[r] /\ push[r] \in Posted
    BY <1>2, <2>1, PushPhases DEF Idle
  <2>3. k \in Key
    BY <2>1, <2>2 DEF Posted
  <2> QED BY <1>2, <2>1, <2>2, <2>3 DEF PostedIsInHistory
<1> QED BY <1>3, <1>4, <1>5, <1>6

LEMMA InitSyncTransmitted == InitSync => InvTransmitted
<1>1. InitSync => SyncTypes
  BY InitSyncTypes
<1> QED BY <1>1 DEF InitSync, InitStore, Empty, NoRequests, NoSubmissions, Idle, InvTransmitted,
                    CommittedMeansTransmitted, AnsweredFromHistory, CapturedStillPending,
                    PostedIsInHistory, Stored

LEMMA NextSyncTransmitted ==
    ASSUME "editDuringPush" \notin Allowed, \A q1, q2 \in Pusher : q1 = q2,
           InvTransmitted, [NextSync]_vars
    PROVE  InvTransmitted'
<1>1. SyncTypes'
  BY NextSyncTypes DEF InvTransmitted
<1>2. CASE NextSync
  <2>1. ASSUME NEW p \in Puller, PullStep(p) PROVE InvTransmitted'
    BY <1>1, <2>1, QuietStepsTransmitted, PullCommitTransmitted DEF PullStep
  <2>2. ASSUME NEW q \in Pusher, PushStep(q) PROVE InvTransmitted'
    BY <1>1, <2>2, QuietStepsTransmitted, PushRecommitTransmitted, PushCaptureTransmitted,
       PushAcceptedTransmitted, PushAckTransmitted DEF PushStep
  <2>3. ASSUME NEW k \in Key, NEW v \in Data, LocalEdit(k, v) PROVE InvTransmitted'
    BY <1>1, <2>3, LocalEditTransmitted
  <2>4. ASSUME NEW scope \in Scopes, NEW keys \in SUBSET scope, DiscardLocalChanges(keys)
        PROVE  InvTransmitted'
    BY <1>1, <2>4, ScopesAssumption, QuietStepsTransmitted
  <2>5. CASE ForeignWrite \/ Rewrite \/ Crash \/ Restart
    BY <1>1, <2>5, QuietStepsTransmitted
  <2> QED BY <1>2, <2>1, <2>2, <2>3, <2>4, <2>5 DEF NextSync
<1>3. CASE UNCHANGED vars
  BY <1>1, <1>3 DEF vars, syncVars, storeVars, InvTransmitted, CommittedMeansTransmitted,
                    AnsweredFromHistory, CapturedStillPending, PostedIsInHistory, Stored
<1> QED BY <1>2, <1>3

\* With one push at a time and no edit while it is in flight, everything in the
\* remote store is a revision the server committed: through any number of
\* concurrent pulls, rewrites, conflicts, discards, failures and restarts.
THEOREM OnlyTransmittedIsCommitted ==
    ASSUME "editDuringPush" \notin Allowed, \A q1, q2 \in Pusher : q1 = q2
    PROVE  SpecSync => []CommittedMeansTransmitted
<1>1. InvTransmitted /\ [NextSync]_vars => InvTransmitted'
  BY NextSyncTransmitted
<1>2. InvTransmitted => CommittedMeansTransmitted
  BY DEF InvTransmitted
<1> QED BY <1>1, <1>2, InitSyncTransmitted, PTL DEF SpecSync

-----------------------------------------------------------------------------

(***************************************************************************)
(* Reference times.  Types are all the invariant needs besides itself: an  *)
(* edit gives an entry its reference time by one rule, and every other     *)
(* operation keeps the entry or drops it.                                  *)
(***************************************************************************)

LEMMA TrackedStep ==
    ASSUME SyncTypes, SyncTypes', ReferenceTimeIsFirstBase, TrackFirstBase,
           \A k \in Key : \/ local'[k] = Absent
                         \/ local'[k] = local[k]
                         \/ local'[k].syncReferenceTime = SyncReferenceTime(k)
    PROVE  ReferenceTimeIsFirstBase'
<1>1. SUFFICES ASSUME NEW k \in Key, local'[k] # Absent, firstBase'[k] > 0
               PROVE  local'[k].syncReferenceTime = firstBase'[k]
  BY DEF ReferenceTimeIsFirstBase, Stored
<1>2. CASE local[k] = Absent
  BY <1>1, <1>2 DEF TrackFirstBase, SyncReferenceTime
<1>3. CASE local[k] # Absent
  <2>1. firstBase'[k] = firstBase[k]
    BY <1>1, <1>3 DEF TrackFirstBase
  <2>2. local[k].syncReferenceTime = firstBase[k]
    BY <1>1, <1>3, <2>1 DEF ReferenceTimeIsFirstBase, Stored
  <2> QED BY <1>1, <1>3, <2>1, <2>2 DEF SyncReferenceTime
<1> QED BY <1>2, <1>3

LEMMA CommitLocalEntriesReference ==
    ASSUME NEW new, CommitLocalEntries(new)
    PROVE  \A k \in Key : \/ local'[k] = local[k]
                         \/ local'[k].syncReferenceTime = SyncReferenceTime(k)
  BY DEF CommitLocalEntries

\* The steps that touch a pending change keep track of its first base.
LEMMA PendingStepsReference ==
    ASSUME SyncTypes, SyncTypes', ReferenceTimeIsFirstBase,
           \/ \E q \in Pusher : PushDiscard(q) \/ PushRecommit(q) \/ PushAck(q)
           \/ \E k \in Key, v \in Data : LocalEdit(k, v)
           \/ \E keys \in SUBSET Key : DiscardLocalChanges(keys)
           \/ Crash
    PROVE  ReferenceTimeIsFirstBase'
<1>1. ASSUME NEW q \in Pusher, PushDiscard(q) \/ PushAck(q)
      PROVE  ReferenceTimeIsFirstBase'
  BY <1>1, TrackedStep DEF PushDiscard, PushAck, DiscardLocalEntryKeys, SetAsRemotelyCommited
<1>2. ASSUME NEW q \in Pusher, PushRecommit(q)
      PROVE  ReferenceTimeIsFirstBase'
  BY <1>2, TrackedStep, CommitLocalEntriesReference DEF PushRecommit
<1>3. ASSUME NEW k \in Key, NEW v \in Data, LocalEdit(k, v)
      PROVE  ReferenceTimeIsFirstBase'
  BY <1>3, TrackedStep, CommitLocalEntriesReference DEF LocalEdit
<1>4. ASSUME NEW keys \in SUBSET Key, DiscardLocalChanges(keys)
      PROVE  ReferenceTimeIsFirstBase'
  BY <1>4, TrackedStep DEF DiscardLocalChanges, DiscardLocalEntryKeys
<1>5. CASE Crash
  <2>1. \A k \in Key : local'[k] = local[k] \/ local'[k] = Absent
    BY <1>5 DEF Crash, Close, DestroyLocalData, CrashDuringReset, Empty
  <2> QED BY <1>5, <2>1, TrackedStep DEF Crash
<1> QED BY <1>1, <1>2, <1>3, <1>4, <1>5

LEMMA NextSyncReference ==
    ASSUME SyncTypes, SyncTypes', ReferenceTimeIsFirstBase, [NextSync]_vars
    PROVE  ReferenceTimeIsFirstBase'
<1> USE DEF ReferenceTimeIsFirstBase, Stored
<1>1. ASSUME NEW p \in Puller, PullStep(p)
      PROVE  UNCHANGED <<local, firstBase>>
  BY <1>1 DEF PullStep, PullStart, PullAnswered, PullEmpty, PullCommit, PullCommitFails, PullFails,
              CommitRemoteEntries, ResetFails, storeVars
<1>2. ASSUME NEW q \in Pusher,
             \/ \E scope \in Scopes : PushStart(q, scope)
             \/ PushCapture(q) \/ PushAccepted(q) \/ PushFails(q)
      PROVE  UNCHANGED <<local, firstBase>>
  BY <1>2 DEF PushStart, PushCapture, PushAccepted, PushFails, storeVars
<1>3. CASE ForeignWrite \/ Rewrite \/ Restart \/ UNCHANGED vars
  BY <1>3 DEF ForeignWrite, Rewrite, Restart, Open, vars, syncVars, storeVars
<1>4. ASSUME NEW scope \in Scopes, NEW keys \in SUBSET scope, DiscardLocalChanges(keys)
      PROVE  ReferenceTimeIsFirstBase'
  BY <1>4, ScopesAssumption, PendingStepsReference
<1> QED BY <1>1, <1>2, <1>3, <1>4, PendingStepsReference DEF NextSync, PushStep

\* A pending change keeps the time it was first based on until it is sent or
\* discarded, whatever happens meanwhile: concurrent edits, pulls and pushes,
\* rewrites, failures and restarts.
THEOREM ReferenceTimesKept == SpecSync => []ReferenceTimeIsFirstBase
<1>1. InitSync => ReferenceTimeIsFirstBase
  BY DEF InitSync, InitStore, Empty, ReferenceTimeIsFirstBase, Stored
<1>2. SyncTypes /\ SyncTypes' /\ ReferenceTimeIsFirstBase /\ [NextSync]_vars
        => ReferenceTimeIsFirstBase'
  BY NextSyncReference
<1>3. SpecSync => []SyncTypes
  BY InitSyncTypes, NextSyncTypes, PTL DEF SpecSync
<1> QED BY <1>1, <1>2, <1>3, PTL DEF SpecSync

-----------------------------------------------------------------------------

(***************************************************************************)
(* Nesting.  What a conflict handler answers is written without the check  *)
(* a put makes (LocalDB.ts:579), any number of awaits after the conflict   *)
(* was found.  It cannot nest a leaf as long as the entries it was         *)
(* asked about are there: their keys are leaves of the lookup then, and    *)
(* so are free of heritage.  A pull is what could take them away.  The     *)
(* lookup must be right, so a reset must not fail where it reads the       *)
(* pending keys for it (RereadSucceeds).                                   *)
(***************************************************************************)

NeverBeside == pull = NoRequests \/ push = NoSubmissions

ResolvedAreStored ==
    \A q \in Pusher : push[q].phase = "resolving" => DOMAIN push[q].new \subseteq Stored(remote)

InvNesting ==
    /\ SyncTypes
    /\ InvStore
    /\ NeverBeside
    /\ ResolvedAreStored

LEMMA InitSyncNesting == InitSync => InvNesting
  BY InitSyncTypes, InitStoreInv
     DEF InitSync, InvNesting, NeverBeside, ResolvedAreStored, NoSubmissions, Idle

\* A step of a pull, while nothing is pushed.
LEMMA PullStepNesting ==
    ASSUME RereadSucceeds, "pullDuringPush" \notin Allowed, InvNesting, SyncTypes',
           NEW p \in Puller, PullStep(p)
    PROVE  InvNesting'
<1> USE DEF InvNesting
<1>1. pull[p] \in Pulls
  BY DEF SyncTypes
<1>2. push = NoSubmissions
  <2>1. CASE PullStart(p)
    BY <2>1 DEF PullStart
  <2>2. CASE ~PullStart(p)
    BY <2>2 DEF PullStep, PullAnswered, PullEmpty, PullCommit, PullCommitFails, PullFails, NeverBeside,
                NoRequests, Idle
  <2> QED BY <2>1, <2>2
<1>3. push' = push
  BY DEF PullStep, PullStart, PullAnswered, PullEmpty, PullCommit, PullCommitFails, PullFails
<1>4. InvStore'
  <2>1. CASE PullCommit(p)
    BY <1>1, <2>1, PullPhases, CommitRemoteEntriesInv DEF PullCommit, Answered
  <2>2. CASE PullCommitFails(p)
    BY <2>2, ResetFailsInv DEF PullCommitFails
  <2>3. CASE ~PullCommit(p) /\ ~PullCommitFails(p)
    BY <2>3, InvStoreUnchanged DEF PullStep, PullStart, PullAnswered, PullEmpty, PullFails
  <2> QED BY <2>1, <2>2, <2>3
<1> QED BY <1>2, <1>3, <1>4 DEF NeverBeside, ResolvedAreStored, NoSubmissions, Idle

\* A step of a push, while nothing is pulled.
LEMMA PushStepNesting ==
    ASSUME "pullDuringPush" \notin Allowed, InvNesting, SyncTypes',
           NEW q \in Pusher, PushStep(q)
    PROVE  InvNesting'
<1> USE DEF InvNesting
<1>1. push[q] \in Pushes /\ push \in [Pusher -> Pushes]
  BY DEF SyncTypes
<1>2. pull = NoRequests
  <2>1. CASE \E scope \in Scopes : PushStart(q, scope)
    BY <2>1 DEF PushStart
  <2>2. CASE ~ \E scope \in Scopes : PushStart(q, scope)
    BY <2>2 DEF PushStep, PushDiscard, PushRecommit, PushCapture, PushAccepted, PushAck, PushFails,
                NeverBeside, NoSubmissions, Idle
  <2> QED BY <2>1, <2>2
<1>3. pull' = pull
  BY DEF PushStep, PushStart, PushDiscard, PushRecommit, PushCapture, PushAccepted, PushAck, PushFails
<1>4. CASE \E scope \in Scopes : PushStart(q, scope)
  <2>1. UNCHANGED storeVars
    BY <1>4 DEF PushStart
  <2>2. PICK scope \in Scopes :
             \E discarded \in SUBSET Key : \E rewritten \in SUBSET Stored(remote) :
             \E new \in [rewritten -> Data] :
               push' = [push EXCEPT ![q] = [phase     |-> "resolving",
                                            scope     |-> scope,
                                            discarded |-> discarded,
                                            new       |-> new]]
    <3>1. ConflictingKeys \in SUBSET Key /\ ConflictingKeys \in SUBSET Stored(remote)
      BY DEF ConflictingKeys, Stored
    <3> QED BY <1>4, <3>1 DEF PushStart
  <2>3. DOMAIN push'[q].new \subseteq Stored(remote) /\ \A r \in Pusher \ {q} : push'[r] = push[r]
    BY <1>1, <2>2
  <2>4. ResolvedAreStored'
    BY <1>1, <2>1, <2>2, <2>3 DEF ResolvedAreStored, storeVars, Stored
  <2> QED BY <1>2, <1>3, <2>1, <2>4, InvStoreUnchanged DEF NeverBeside
<1>5. CASE PushDiscard(q)
  <2>1. push[q] \in Resolving
    BY <1>1, <1>5, PushPhases DEF PushDiscard
  <2>2. InvStore'
    BY <1>5, <2>1, DiscardLocalEntryKeysInv DEF PushDiscard, Resolving
  <2>3. ResolvedAreStored'
    BY <1>1, <1>5, <2>1 DEF PushDiscard, DiscardLocalEntryKeys, ResolvedAreStored, Stored, Resolving
  <2> QED BY <1>2, <1>3, <2>2, <2>3 DEF NeverBeside
<1>6. CASE PushRecommit(q)
  <2> DEFINE new == push[q].new
  <2>1. push[q] \in Resolving
    BY <1>1, <1>6, PushPhases DEF PushRecommit
  <2>2. DOMAIN new \in SUBSET Key /\ new \in [DOMAIN new -> Data]
    BY <2>1, PartialDataIs DEF Resolving
  <2>3. DOMAIN new \subseteq lookup /\ HeritageFree(lookup)
    BY <1>6 DEF PushRecommit, CommitLocalEntries, ResolvedAreStored, InvStore, LookupCoversStores,
                LeavesNeverNest, AllKeys
  <2>4. Assignable(new)
    BY <2>3 DEF Assignable, HeritageFree, SharesHeritage
  <2>5. InvStore'
    <3>1. CommitLocalEntries(new)
      BY <1>6 DEF PushRecommit
    <3> HIDE DEF new
    <3> QED BY <2>2, <2>4, <3>1, CommitLocalEntriesInv
  <2>6. ResolvedAreStored'
    <3>1. remote' = remote
      BY <1>6 DEF PushRecommit, CommitLocalEntries
    <3>2. push' = [push EXCEPT ![q].new = [k \in {} |-> Undefined]]
      BY <1>6 DEF PushRecommit
    <3>3. DOMAIN push'[q].new = {}
      BY <1>1, <2>1, <3>2 DEF Resolving
    <3>4. \A r \in Pusher \ {q} : push'[r] = push[r]
      BY <1>1, <3>2
    <3> QED BY <3>1, <3>3, <3>4 DEF ResolvedAreStored, Stored
  <2> QED BY <1>2, <1>3, <2>5, <2>6 DEF NeverBeside
<1>7. CASE PushAck(q)
  <2>1. push[q] \in Posted
    BY <1>1, <1>7, PushPhases DEF PushAck
  <2>2. InvStore'
    BY <1>7, <2>1, SetAsRemotelyCommitedInv DEF PushAck, Posted
  <2>3. Stored(remote) \subseteq Stored(remote)'
    <3>1. \A k \in Stored(local) : CommitedEntry(k, push[q].time) # Absent
      BY <2>1, AbsentAssumption
         DEF CommitedEntry, InvStore, TypeOKStore, Stored, LocalEntry, RemoteEntry, Posted
    <3> QED BY <1>7, <3>1 DEF PushAck, SetAsRemotelyCommited, Stored
  <2>4. ResolvedAreStored'
    <3>1. push' = [push EXCEPT ![q] = Idle]
      BY <1>7 DEF PushAck
    <3> QED BY <1>1, <2>3, <3>1 DEF ResolvedAreStored, Idle
  <2> QED BY <1>2, <1>3, <2>2, <2>4 DEF NeverBeside
<1>8. CASE PushCapture(q) \/ PushAccepted(q) \/ PushFails(q)
  <2>1. UNCHANGED storeVars
    BY <1>8 DEF PushCapture, PushAccepted, PushFails
  <2>2. push'[q].phase # "resolving" /\ \A r \in Pusher \ {q} : push'[r] = push[r]
    BY <1>1, <1>8 DEF PushCapture, PushAccepted, PushFails, Idle
  <2>3. ResolvedAreStored'
    BY <2>1, <2>2 DEF ResolvedAreStored, storeVars, Stored
  <2> QED BY <1>2, <1>3, <2>1, <2>3, InvStoreUnchanged DEF NeverBeside
<1> QED BY <1>4, <1>5, <1>6, <1>7, <1>8 DEF PushStep

\* The application, the server and the process.
LEMMA OtherStepNesting ==
    ASSUME InvNesting, SyncTypes',
           \/ ForeignWrite \/ Rewrite \/ Crash \/ Restart
           \/ \E k \in Key, v \in Data : LocalEdit(k, v)
           \/ \E keys \in SUBSET Key : DiscardLocalChanges(keys)
    PROVE  InvNesting'
<1> USE DEF InvNesting
<1>1. CASE ForeignWrite \/ Rewrite
  BY <1>1, InvStoreUnchanged
     DEF ForeignWrite, Rewrite, NeverBeside, ResolvedAreStored, storeVars, Stored
<1>2. CASE Crash
  <2>1. InvStore'
    BY <1>2, CloseInv, CrashDuringResetInv DEF Crash
  <2> QED BY <1>2, <2>1 DEF Crash, Lost, NeverBeside, ResolvedAreStored, NoSubmissions, Idle
<1>3. CASE Restart
  BY <1>3, OpenInv DEF Restart, Open, syncVars, NeverBeside, ResolvedAreStored, Stored
<1>4. ASSUME NEW k \in Key, NEW v \in Data, LocalEdit(k, v)
      PROVE  InvNesting'
  <2> DEFINE new == [l \in {k} |-> v]
  <2>1. Assignable(new) /\ CommitLocalEntries(new)
    BY <1>4 DEF LocalEdit
  <2>2. {k} \in SUBSET Key /\ new \in [{k} -> Data]
    OBVIOUS
  <2>3. InvStore'
    <3> HIDE DEF new
    <3> QED BY <2>1, <2>2, CommitLocalEntriesInv
  <2>4. remote' = remote
    BY <2>1 DEF CommitLocalEntries
  <2> QED BY <1>4, <2>3, <2>4 DEF LocalEdit, NeverBeside, ResolvedAreStored, Stored
<1>5. ASSUME NEW keys \in SUBSET Key, DiscardLocalChanges(keys)
      PROVE  InvNesting'
  <2>1. InvStore'
    BY <1>5, DiscardLocalEntryKeysInv DEF DiscardLocalChanges
  <2> QED BY <1>5, <2>1 DEF DiscardLocalChanges, DiscardLocalEntryKeys, syncVars, NeverBeside,
                            ResolvedAreStored, Stored
<1> QED BY <1>1, <1>2, <1>3, <1>4, <1>5

LEMMA NextSyncNesting ==
    ASSUME RereadSucceeds, "pullDuringPush" \notin Allowed, InvNesting, [NextSync]_vars
    PROVE  InvNesting'
<1>1. SyncTypes'
  BY NextSyncTypes DEF InvNesting
<1>2. CASE NextSync
  <2>1. ASSUME NEW scope \in Scopes, NEW keys \in SUBSET scope, DiscardLocalChanges(keys)
        PROVE  InvNesting'
    BY <1>1, <2>1, ScopesAssumption, OtherStepNesting
  <2> QED BY <1>1, <1>2, <2>1, PullStepNesting, PushStepNesting, OtherStepNesting DEF NextSync
<1>3. CASE UNCHANGED vars
  BY <1>1, <1>3, InvStoreUnchanged
     DEF vars, syncVars, InvNesting, NeverBeside, ResolvedAreStored, storeVars, Stored
<1> QED BY <1>2, <1>3

\* Synchronization nests nothing either: with pulls and pushes that do not
\* overlap each other, any number of clients that write above and below the
\* leaves of this one, edits at any moment, rewrites, crashes in the middle of
\* a reset, and any answers of the conflict handler, no leaf is ever stored
\* below another one.
THEOREM SyncNestsNothing ==
    ASSUME RereadSucceeds, "pullDuringPush" \notin Allowed
    PROVE  SpecSync => []LeavesNeverNest
<1>1. InvNesting /\ [NextSync]_vars => InvNesting'
  BY NextSyncNesting
<1>2. InvNesting => LeavesNeverNest
  BY DEF InvNesting, InvStore
<1> QED BY <1>1, <1>2, InitSyncNesting, PTL DEF SpecSync

\* And no stored entry is ever out of the lookup's reach.
THEOREM SyncKeepsReach ==
    ASSUME RereadSucceeds, "pullDuringPush" \notin Allowed
    PROVE  SpecSync => []LookupCoversStores
<1>1. InvNesting /\ [NextSync]_vars => InvNesting'
  BY NextSyncNesting
<1>2. InvNesting => LookupCoversStores
  BY DEF InvNesting, InvStore
<1> QED BY <1>1, <1>2, InitSyncNesting, PTL DEF SpecSync

-----------------------------------------------------------------------------

(***************************************************************************)
(* Rewrites.  Whether a pull empties the store is decided by the head      *)
(* entry of its answer, which the server sends if it is newer than what    *)
(* the request asked from.  The invariant says that this is enough for     *)
(* every answer in flight: one that has seen the head either brings it, or *)
(* meets a store that has seen it before.  Pushes before the first pull    *)
(* are what it could not be extended to: the head does not empty a store   *)
(* that was never synced.  Two pulls at a time are another: what was       *)
(* lastModified when one asked need not be when it commits.                *)
(***************************************************************************)

FirstPulled == lastModified = 0 => Stored(remote) = {} /\ push = NoSubmissions

AskedFromLastModified ==
    \A p \in Puller : pull[p].phase = "asked" => pull[p].after = lastModified

AnswersTellOfHead ==
    \A p \in Puller : pull[p].phase = "answered" =>
        /\ pull[p].batch.last <= serverTime
        /\ headTime <= pull[p].batch.last =>
              /\ \A r \in pull[p].batch.revs : headTime <= r.commitTime
              /\ pull[p].batch.head # 0 \/ headTime <= lastModified

PostedPastHead ==
    \A q \in Pusher : push[q].phase = "posted" =>
        headTime <= push[q].time \/ lastModified < headTime

HeadOrder == headTime <= serverTime /\ lastModified <= serverTime

InvHead ==
    /\ HeadOrder
    /\ FirstPulled
    /\ NothingOlderThanHead
    /\ AskedFromLastModified
    /\ AnswersTellOfHead
    /\ PostedPastHead

LEMMA TimesAreNumbers ==
    ASSUME SyncTypes
    PROVE  headTime \in Nat \ {0} /\ serverTime \in Nat \ {0} /\ lastModified \in Nat
  BY TimeAssumption DEF SyncTypes, TypeOKStore

LEMMA AnswerTime ==
    ASSUME SyncTypes, NEW p \in Puller, pull[p].phase = "answered"
    PROVE  pull[p].batch \in Answer /\ pull[p].batch.last \in Nat
<1>1. pull[p] \in Answered
  <2>1. pull[p] \in Pulls
    BY DEF SyncTypes
  <2> QED BY <2>1, PullPhases
<1>2. pull[p].batch \in Answer
  BY <1>1 DEF Answered
<1> QED BY <1>2, TimeAssumption DEF Answer

LEMMA InitSyncHead == InitSync => InvHead
  BY DEF InitSync, InitStore, Empty, NoRequests, NoSubmissions, Idle, InvHead, HeadOrder, FirstPulled,
         NothingOlderThanHead, AskedFromLastModified, AnswersTellOfHead, PostedPastHead, Stored

\* A step that keeps lastModified and the head, adds no entry to the remote
\* store, and touches no call but to end it or to let it run on unanswered.
LEMMA QuietStepHead ==
    ASSUME SyncTypes, SyncTypes', InvHead,
           UNCHANGED <<headTime, lastModified>>, serverTime <= serverTime',
           \A k \in Key : remote'[k] = remote[k] \/ remote'[k] = Absent,
           lastModified = 0 => push' = NoSubmissions,
           \A p \in Puller : pull'[p] = pull[p] \/ pull'[p] = Idle,
           \A q \in Pusher : push'[q] = push[q] \/ push'[q].phase # "posted"
    PROVE  InvHead'
<1> USE DEF InvHead
<1>1. \A p \in Puller : pull'[p].phase = "answered" => pull'[p] = pull[p]
  BY DEF Idle
<1>2. \A p \in Puller : pull'[p].phase = "answered" => pull[p].batch.last \in Nat
  BY <1>1, AnswerTime
<1>3. serverTime' \in Nat
  BY TimeAssumption DEF SyncTypes
<1>4. HeadOrder'
  BY <1>3, TimesAreNumbers DEF HeadOrder
<1>5. FirstPulled' /\ NothingOlderThanHead'
  BY DEF FirstPulled, NothingOlderThanHead, Stored
<1>6. AskedFromLastModified'
  BY DEF AskedFromLastModified, Idle
<1>7. AnswersTellOfHead'
  BY <1>1, <1>2, <1>3, TimesAreNumbers DEF AnswersTellOfHead
<1>8. PostedPastHead'
  BY DEF PostedPastHead
<1> QED BY <1>4, <1>5, <1>6, <1>7, <1>8

\* The request asks from lastModified, and is answered with the head if that is
\* newer.
LEMMA PullAnsweredHead ==
    ASSUME SyncTypes, SyncTypes', InvHead, NEW p \in Puller, PullStart(p) \/ PullAnswered(p)
    PROVE  InvHead'
<1> USE DEF InvHead
<1>1. UNCHANGED <<headTime, serverTime, lastModified, remote, push>>
  BY DEF PullStart, PullAnswered, storeVars
<1>2. HeadOrder' /\ FirstPulled' /\ NothingOlderThanHead' /\ PostedPastHead'
  BY <1>1 DEF HeadOrder, FirstPulled, NothingOlderThanHead, PostedPastHead, Stored
<1>3. CASE PullStart(p)
  <2>1. pull' = [pull EXCEPT ![p] = [phase |-> "asked", after |-> lastModified]]
    BY <1>3 DEF PullStart
  <2> QED BY <1>1, <1>2, <2>1 DEF AskedFromLastModified, AnswersTellOfHead, SyncTypes
<1>4. CASE PullAnswered(p)
  <2> DEFINE batch == ReadAfter(pull[p].after)
  <2>1. pull' = [pull EXCEPT ![p] = [phase |-> "answered", batch |-> batch]]
    BY <1>4 DEF PullAnswered
  <2>2. pull[p].after = lastModified
    BY <1>4 DEF PullAnswered, AskedFromLastModified
  <2>3. /\ batch.last = serverTime
        /\ \A r \in batch.revs : headTime <= r.commitTime
        /\ batch.head # 0 \/ headTime <= lastModified
    BY <2>2, TimesAreNumbers DEF ReadAfter, Latest, Live
  <2>4. AskedFromLastModified'
    BY <1>1, <2>1 DEF AskedFromLastModified, SyncTypes
  <2>5. AnswersTellOfHead'
    <3> HIDE DEF batch
    <3> QED BY <1>1, <2>1, <2>3, TimesAreNumbers DEF AnswersTellOfHead, SyncTypes
  <2> QED BY <1>2, <2>4, <2>5
<1> QED BY <1>3, <1>4

\* The commit of an answer that has seen the head.
LEMMA PullCommitHead ==
    ASSUME \A p1, p2 \in Puller : p1 = p2,
           "pullDuringPush" \notin Allowed, InvNesting,
           SyncTypes, SyncTypes', InvHead, NEW p \in Puller, PullCommit(p)
    PROVE  InvHead'
<1> USE DEF InvHead
<1> DEFINE batch == pull[p].batch
<1>1. batch \in Answer /\ batch.last \in Nat \ {0}
  BY AnswerTime, TimeAssumption DEF PullCommit, Answer
<1>2. /\ lastModified' = batch.last /\ UNCHANGED <<headTime, serverTime, push>>
      /\ pull' = [pull EXCEPT ![p] = Idle] /\ CommitRemoteEntries(batch)
  BY DEF PullCommit, CommitRemoteEntries
<1>3. push = NoSubmissions
  BY DEF InvNesting, NeverBeside, PullCommit, NoRequests, Idle
<1>4. \A r \in Puller : pull'[r] = Idle
  BY <1>2 DEF SyncTypes
<1>5. HeadOrder' /\ FirstPulled'
  BY <1>1, <1>2 DEF HeadOrder, FirstPulled, AnswersTellOfHead, PullCommit
<1>6. NothingOlderThanHead'
  <2>1. SUFFICES ASSUME headTime <= batch.last, NEW k \in Stored(remote)'
                 PROVE  remote'[k].commitTime >= headTime
    BY <1>2 DEF NothingOlderThanHead
  <2>2. /\ \A r \in batch.revs : headTime <= r.commitTime
        /\ batch.head # 0 \/ headTime <= lastModified
    BY <2>1 DEF AnswersTellOfHead, PullCommit
  <2>3. CASE RevisionAt(k, remote'[k].value, remote'[k].commitTime) \in batch.revs
    <3>1. headTime <= RevisionAt(k, remote'[k].value, remote'[k].commitTime).commitTime
      BY <2>2, <2>3
    <3> QED BY <3>1, TimesAreNumbers DEF RevisionAt
  <2>4. CASE ~Resets(batch) /\ k \in Stored(remote) /\ remote'[k] = remote[k]
    <3>1. headTime <= lastModified
      BY <2>2, <2>4, TimesAreNumbers DEF Resets, FirstPulled
    <3> QED BY <2>4, <3>1 DEF NothingOlderThanHead
  <2>5. TypeOKStore
    BY DEF SyncTypes
  <2> HIDE DEF batch
  <2> QED BY <1>1, <1>2, <2>1, <2>3, <2>4, <2>5, CommitRemoteEntriesOrigin
<1>7. AskedFromLastModified' /\ AnswersTellOfHead'
  BY <1>4 DEF AskedFromLastModified, AnswersTellOfHead, Idle
<1>8. PostedPastHead'
  BY <1>2, <1>3 DEF PostedPastHead, NoSubmissions, Idle
<1> QED BY <1>5, <1>6, <1>7, <1>8

\* A revision the server accepts is younger than the head, and one that was
\* overtaken by a rewrite is acknowledged before the rewrite is pulled.
LEMMA PushStepHead ==
    ASSUME "pushFirst" \notin Allowed,
           SyncTypes, SyncTypes', InvHead, NEW q \in Pusher, PushStep(q)
    PROVE  InvHead'
<1> USE DEF InvHead
<1>1. push \in [Pusher -> Pushes] /\ push[q] \in Pushes
  BY DEF SyncTypes
<1>2. CASE \E scope \in Scopes : PushStart(q, scope)
  <2>1. lastModified > 0 /\ UNCHANGED <<storeVars, headTime, serverTime, pull>>
    BY <1>2 DEF PushStart
  <2>2. push'[q].phase # "posted" /\ \A r \in Pusher \ {q} : push'[r] = push[r]
    BY <1>1, <1>2 DEF PushStart
  <2> QED BY <2>1, <2>2, TimesAreNumbers, QuietStepHead DEF storeVars
<1>3. CASE ~ \E scope \in Scopes : PushStart(q, scope)
  <2>1. lastModified > 0
    BY <1>3, TimesAreNumbers DEF PushStep, PushDiscard, PushRecommit, PushCapture, PushAccepted, PushAck,
          PushFails, FirstPulled, NoSubmissions, Idle
  <2>2. CASE PushDiscard(q) \/ PushRecommit(q) \/ PushCapture(q) \/ PushFails(q)
    <3>1. UNCHANGED <<remote, lastModified, headTime, serverTime, pull>>
      BY <2>2 DEF PushDiscard, PushRecommit, PushCapture, PushFails, DiscardLocalEntryKeys,
                  CommitLocalEntries, storeVars
    <3>2. \A r \in Pusher : push'[r] = push[r] \/ push'[r].phase # "posted"
      <4>1. CASE PushDiscard(q) \/ PushRecommit(q)
        <5>1. push[q] \in Resolving
          BY <1>1, <4>1, PushPhases DEF PushDiscard, PushRecommit
        <5> QED BY <1>1, <4>1, <5>1 DEF PushDiscard, PushRecommit, Resolving
      <4>2. CASE PushCapture(q) \/ PushFails(q)
        BY <1>1, <4>2 DEF PushCapture, PushFails, Idle
      <4> QED BY <2>2, <4>1, <4>2
    <3> QED BY <2>1, <3>1, <3>2, TimesAreNumbers, QuietStepHead
  <2>3. CASE PushAccepted(q)
    <3>1. /\ serverTime' = serverTime + 1 /\ UNCHANGED <<storeVars, headTime, pull>>
          /\ push' = [push EXCEPT ![q] = [phase |-> "posted",
                                          keys  |-> DOMAIN push[q].sent,
                                          time  |-> serverTime + 1]]
      BY <2>3 DEF PushAccepted, Append
    <3>2. \A p \in Puller : pull[p].phase = "answered" => pull[p].batch.last \in Nat
      BY AnswerTime
    <3>3. HeadOrder' /\ FirstPulled' /\ NothingOlderThanHead' /\ AskedFromLastModified'
      BY <2>1, <3>1, TimesAreNumbers
         DEF storeVars, HeadOrder, FirstPulled, NothingOlderThanHead, AskedFromLastModified, Stored
    <3>4. AnswersTellOfHead'
      BY <3>1, <3>2, TimesAreNumbers DEF storeVars, AnswersTellOfHead
    <3>5. PostedPastHead'
      BY <1>1, <3>1, TimesAreNumbers DEF storeVars, PostedPastHead, HeadOrder
    <3> QED BY <3>3, <3>4, <3>5
  <2>4. CASE PushAck(q)
    <3> DEFINE moved == push[q].keys \cap Stored(local)
    <3>1. /\ UNCHANGED <<lastModified, headTime, serverTime, pull>>
          /\ push' = [push EXCEPT ![q] = Idle]
          /\ remote' = [k \in Key |-> IF k \in moved THEN CommitedEntry(k, push[q].time) ELSE remote[k]]
      BY <2>4 DEF PushAck, SetAsRemotelyCommited
    <3>2. push[q] \in Posted /\ push[q].time \in Nat
      BY <1>1, <2>4, PushPhases, TimeAssumption DEF PushAck, Posted
    <3>3. NothingOlderThanHead'
      <4>1. SUFFICES ASSUME headTime <= lastModified, NEW k \in Key, remote'[k] # Absent
                     PROVE  remote'[k].commitTime >= headTime
        BY <3>1 DEF NothingOlderThanHead, Stored
      <4>2. headTime <= push[q].time
        BY <2>4, <4>1, TimesAreNumbers DEF PushAck, PostedPastHead
      <4> QED BY <3>1, <3>2, <4>1, <4>2, TimesAreNumbers DEF NothingOlderThanHead, Stored, CommitedEntry
    <3>4. PostedPastHead'
      BY <1>1, <3>1 DEF PostedPastHead, Idle
    <3> QED BY <2>1, <3>1, <3>3, <3>4, TimesAreNumbers
            DEF HeadOrder, FirstPulled, AskedFromLastModified, AnswersTellOfHead
  <2> QED BY <1>3, <2>2, <2>3, <2>4 DEF PushStep
<1> QED BY <1>2, <1>3

\* A rewrite is later than anything any call in flight knows.
LEMMA RewriteHead ==
    ASSUME SyncTypes, SyncTypes', InvHead, Rewrite
    PROVE  InvHead'
<1> USE DEF InvHead
<1>1. /\ headTime' = serverTime + 1 /\ serverTime' = serverTime + 1
      /\ UNCHANGED <<storeVars, pull, push>>
  BY DEF Rewrite, Append
<1>2. \A p \in Puller : pull[p].phase = "answered" => pull[p].batch.last \in Nat
  BY AnswerTime
<1>3. HeadOrder' /\ FirstPulled' /\ NothingOlderThanHead' /\ AskedFromLastModified' /\ PostedPastHead'
  BY <1>1, TimesAreNumbers DEF storeVars, HeadOrder, FirstPulled, NothingOlderThanHead,
                               AskedFromLastModified, PostedPastHead, Stored
<1>4. AnswersTellOfHead'
  BY <1>1, <1>2, TimesAreNumbers DEF storeVars, AnswersTellOfHead
<1> QED BY <1>3, <1>4

\* A database that is gone starts over; one on disk keeps lastModified.
LEMMA CrashHead ==
    ASSUME SyncTypes, SyncTypes', InvHead, Crash
    PROVE  InvHead'
<1>1. /\ \A k \in Key : remote'[k] = remote[k] \/ remote'[k] = Absent
      /\ pull' = NoRequests /\ push' = NoSubmissions /\ UNCHANGED <<headTime, serverTime>>
  BY DEF Crash, Lost, Close, DestroyLocalData, CrashDuringReset, Empty
<1>2. CASE lastModified' = lastModified
  BY <1>1, <1>2, TimesAreNumbers, QuietStepHead DEF NoRequests, NoSubmissions, Idle
<1>3. CASE lastModified' # lastModified
  <2>1. lastModified' = 0 /\ remote' = Empty
    BY <1>3 DEF Crash, Close, DestroyLocalData, CrashDuringReset
  <2> QED BY <1>1, <2>1, TimesAreNumbers
          DEF InvHead, HeadOrder, FirstPulled, NothingOlderThanHead, AskedFromLastModified,
              AnswersTellOfHead, PostedPastHead, NoRequests, NoSubmissions, Idle, Stored, Empty
<1> QED BY <1>2, <1>3

LEMMA NextSyncHead ==
    ASSUME \A p1, p2 \in Puller : p1 = p2,
           "pullDuringPush" \notin Allowed, "pushFirst" \notin Allowed,
           InvNesting, InvNesting', InvHead, [NextSync]_vars
    PROVE  InvHead'
<1> USE DEF InvNesting
<1>1. ASSUME NEW p \in Puller, PullStep(p) PROVE InvHead'
  <2>1. CASE PullEmpty(p) \/ PullCommitFails(p) \/ PullFails(p)
    <3>1. /\ UNCHANGED <<lastModified, headTime, serverTime, push>>
          /\ pull' = [pull EXCEPT ![p] = Idle]
          /\ \A k \in Key : remote'[k] = remote[k] \/ remote'[k] = Absent
      BY <2>1 DEF PullEmpty, PullCommitFails, PullFails, ResetFails, Empty, storeVars
    <3> QED BY <3>1, TimesAreNumbers, QuietStepHead DEF SyncTypes, InvHead, FirstPulled
  <2> QED BY <1>1, <2>1, PullAnsweredHead, PullCommitHead DEF PullStep
<1>2. ASSUME NEW q \in Pusher, PushStep(q) PROVE InvHead'
  BY <1>2, PushStepHead
<1>3. CASE ForeignWrite
  <2>1. serverTime' = serverTime + 1 /\ UNCHANGED <<storeVars, headTime, pull, push>>
    BY <1>3 DEF ForeignWrite, Append
  <2> QED BY <2>1, TimesAreNumbers, QuietStepHead DEF storeVars, InvHead, FirstPulled
<1>4. CASE \/ \E k \in Key, v \in Data : LocalEdit(k, v)
           \/ \E scope \in Scopes : \E keys \in SUBSET scope : DiscardLocalChanges(keys)
           \/ Restart \/ UNCHANGED vars
  <2>1. UNCHANGED <<remote, lastModified, headTime, serverTime, pull, push>>
    BY <1>4 DEF LocalEdit, CommitLocalEntries, DiscardLocalChanges, DiscardLocalEntryKeys, Restart, Open,
                syncVars, vars, storeVars
  <2> QED BY <2>1, TimesAreNumbers, QuietStepHead DEF InvHead, FirstPulled
<1> QED BY <1>1, <1>2, <1>3, <1>4, RewriteHead, CrashHead DEF NextSync

\* With one pull at a time, no push beside it and none before the first, a
\* database that has pulled past a rewrite holds nothing from before it, through
\* pushes the rewrite overtook, crashes in the middle of the reset, lost
\* messages and any number of concurrent pushes.
THEOREM NothingSurvivesRewrites ==
    ASSUME RereadSucceeds, \A p1, p2 \in Puller : p1 = p2,
           "pullDuringPush" \notin Allowed, "pushFirst" \notin Allowed
    PROVE  SpecSync => []NothingOlderThanHead
<1>1. InvNesting /\ [NextSync]_vars => InvNesting'
  BY NextSyncNesting
<1>2. InvNesting /\ InvNesting' /\ InvHead /\ [NextSync]_vars => InvHead'
  BY NextSyncHead
<1>3. InvHead => NothingOlderThanHead
  BY DEF InvHead
<1> QED BY <1>1, <1>2, <1>3, InitSyncNesting, InitSyncHead, PTL DEF SpecSync

-----------------------------------------------------------------------------

(***************************************************************************)
(* What the remote store says of the server.  The answer in flight is all  *)
(* that is missing between lastModified and its last entry, unless a       *)
(* rewrite overtook it; what was pushed since is in the history, later     *)
(* than lastModified.  An answer then leaves nothing out: a revision of it *)
(* that is skipped is there already, or another of the same value.  That   *)
(* is so among independent paths: one that shares heritage with a leaf is  *)
(* refused, and not asked for again.                                       *)
(***************************************************************************)

HistoryIsOrdered ==
    \A r \in history :
        /\ r.commitTime <= serverTime
        /\ \A q \in history : q.key = r.key /\ q.commitTime = r.commitTime => q = r

Missing(t) == {r \in Live : lastModified < r.commitTime /\ r.commitTime <= t}

AnswersAreComplete ==
    \A p \in Puller : pull[p].phase = "answered" =>
        /\ headTime <= pull[p].batch.last =>
              pull[p].batch.revs = Latest(Missing(pull[p].batch.last))
        /\ pull[p].batch.head # 0 =>
              lastModified < pull[p].batch.head /\ pull[p].batch.head <= headTime
        /\ lastModified < pull[p].batch.last
        /\ \A k \in Stored(remote) : remote[k].commitTime <= pull[p].batch.last

PostedIsAhead ==
    \A q \in Pusher : push[q].phase = "posted" => lastModified < push[q].time

InvReceived ==
    /\ HistoryIsOrdered
    /\ AnswersAreComplete
    /\ PostedIsAhead
    /\ RemoteIsMostRecentReceived

InvSync == InvNesting /\ InvTransmitted /\ InvHead

LEMMA HistoryTimes ==
    ASSUME SyncTypes
    PROVE  \A r \in history : r \in Revision /\ r.commitTime \in Nat \ {0}
  BY TimeAssumption DEF SyncTypes, Revision

LEMMA AnswerNumbers ==
    ASSUME SyncTypes, NEW p \in Puller, pull[p].phase = "answered"
    PROVE  pull[p].batch.last \in Nat /\ pull[p].batch.head \in Nat
<1> DEFINE batch == pull[p].batch
<1>1. batch \in Answer
  BY AnswerTime
<1>2. batch.last \in Time /\ batch.head \in Time \cup {0}
  BY <1>1 DEF Answer
<1>3. \A t \in Time \cup {0} : t \in Nat
  BY TimeAssumption
<1> QED BY <1>2, <1>3

\* Of the revisions of a key, one is the last.
LEMMA LatestExists ==
    ASSUME NEW revs, NEW t \in Nat,
           \A r \in revs : r.commitTime \in Nat /\ r.commitTime <= t,
           NEW r \in revs
    PROVE  \E q \in Latest(revs) : q.key = r.key
<1> DEFINE its == {q \in revs : q.key = r.key}
           T   == {t - q.commitTime : q \in its}
<1>1. T \subseteq Nat /\ T # {}
  <2>1. \A q \in its : t - q.commitTime \in Nat /\ t - q.commitTime \in T
    OBVIOUS
  <2> QED BY <2>1
<1>2. PICK x \in T : \A y \in T : ~(<<y, x>> \in OpToRel(<, Nat))
  BY <1>1, WFMin, NatLessThanWellFounded
<1>3. \A y \in T : ~(y < x)
  BY <1>1, <1>2 DEF OpToRel
<1>4. PICK q \in its : x = t - q.commitTime
  OBVIOUS
<1>5. \A s \in its : s.commitTime <= q.commitTime
  <2> TAKE s \in its
  <2>1. t - s.commitTime \in T
    OBVIOUS
  <2>2. s.commitTime \in Nat /\ q.commitTime \in Nat
    OBVIOUS
  <2>3. ~(t - s.commitTime < t - q.commitTime)
    BY <1>3, <1>4, <2>1
  <2> HIDE DEF its, T
  <2> QED BY <2>2, <2>3
<1> QED BY <1>5 DEF Latest

\* The server's value is that of the last revision, if there is one.
LEMMA ServerValueIs ==
    ASSUME SyncTypes, HistoryIsOrdered, NEW k, NEW t \in Nat,
           NEW r \in Live, r.key = k, r.commitTime <= t,
           \A q \in Live : q.key = k /\ q.commitTime <= t => q.commitTime <= r.commitTime
    PROVE  ServerValueAt(k, t) = r.value
<1> DEFINE revs == Latest({q \in Live : q.key = k /\ q.commitTime <= t})
<1>1. r \in revs
  BY DEF Latest
<1>2. \A q \in revs : q = r
  <2> TAKE q \in revs
  <2>1. q \in history /\ r \in history /\ q.key = k
    BY DEF Latest, Live
  <2>2. q.commitTime <= r.commitTime /\ r.commitTime <= q.commitTime
    BY DEF Latest
  <2> QED BY <2>1, <2>2, HistoryTimes DEF HistoryIsOrdered
<1>3. ServerValueAt(k, t) = IF revs = {} THEN Undefined ELSE (CHOOSE q \in revs : TRUE).value
  BY DEF ServerValueAt
<1> HIDE DEF revs
<1> QED BY <1>1, <1>2, <1>3

LEMMA NoServerValue ==
    ASSUME NEW k, NEW t, \A q \in Live : ~(q.key = k /\ q.commitTime <= t)
    PROVE  ServerValueAt(k, t) = Undefined
<1>1. {q \in Live : q.key = k /\ q.commitTime <= t} = {}
  OBVIOUS
<1> QED BY <1>1 DEF ServerValueAt, Latest

LEMMA SameServerValue ==
    ASSUME NEW k, NEW t, NEW u,
           \A q \in Live : q.key = k => (q.commitTime <= t <=> q.commitTime <= u)
    PROVE  ServerValueAt(k, t) = ServerValueAt(k, u)
<1> DEFINE upTo(n) == {q \in Live : q.key = k /\ q.commitTime <= n}
           last(n) == Latest(upTo(n))
<1>1. upTo(t) = upTo(u)
  OBVIOUS
<1>2. last(t) = last(u)
  <2> HIDE DEF upTo
  <2> QED BY <1>1
<1>3. \A n : ServerValueAt(k, n) = IF last(n) = {} THEN Undefined ELSE (CHOOSE r \in last(n) : TRUE).value
  BY DEF ServerValueAt
<1> HIDE DEF last
<1> QED BY <1>2, <1>3

\* What is committed later changes nothing about the past.
LEMMA PastValue ==
    ASSUME SyncTypes, HistoryIsOrdered, UNCHANGED headTime, NEW t \in Nat, t <= serverTime,
           history \subseteq history',
           \A r \in history' \ history : r.commitTime = serverTime + 1,
           NEW k
    PROVE  ServerValueAt(k, t)' = ServerValueAt(k, t)
<1> DEFINE revs == {q \in Live : q.key = k /\ q.commitTime <= t}
<1>1. \A q \in history' \ history : ~(q.commitTime <= t)
  BY TimesAreNumbers
<1>2. revs' = revs
  BY <1>1 DEF Live
<1> DEFINE last == Latest(revs)
<1>3. last' = last
  <2> HIDE DEF revs
  <2> QED BY <1>2 DEF Latest
<1>4. /\ ServerValueAt(k, t) = IF last = {} THEN Undefined ELSE (CHOOSE r \in last : TRUE).value
      /\ ServerValueAt(k, t)' = IF last' = {} THEN Undefined ELSE (CHOOSE r \in last' : TRUE).value
  BY DEF ServerValueAt
<1> HIDE DEF last
<1> QED BY <1>3, <1>4

LEMMA AppendOrdered ==
    ASSUME SyncTypes, HistoryIsOrdered, NEW new, Append(new)
    PROVE  /\ HistoryIsOrdered'
           /\ history \subseteq history'
           /\ \A r \in history' \ history : r.commitTime = serverTime + 1
           /\ serverTime' = serverTime + 1
<1>1. /\ history' = history \cup
             {[key |-> k, value |-> new[k], commitTime |-> serverTime + 1] : k \in DOMAIN new}
      /\ serverTime' = serverTime + 1
  BY DEF Append
<1>2. \A r \in history' \ history :
         \E k \in DOMAIN new : r = [key |-> k, value |-> new[k], commitTime |-> serverTime + 1]
  BY <1>1
<1>3. \A r \in history' \ history : r.commitTime = serverTime + 1 /\ r.commitTime \in Nat
  BY <1>2, TimesAreNumbers
<1>4. \A r, q \in history' \ history : r.key = q.key => r = q
  BY <1>2
<1>5. \A r \in history : r.commitTime \in Nat /\ r.commitTime <= serverTime
  BY HistoryTimes DEF HistoryIsOrdered
<1>6. \A r \in history' : r.commitTime <= serverTime'
  BY <1>1, <1>3, <1>5, TimesAreNumbers
<1>7. ASSUME NEW r \in history', NEW q \in history', q.key = r.key, q.commitTime = r.commitTime
      PROVE  q = r
  <2>1. CASE r \in history /\ q \in history
    BY <1>7, <2>1 DEF HistoryIsOrdered
  <2>2. CASE r \notin history /\ q \notin history
    BY <1>4, <1>7, <2>2
  <2>3. CASE (r \in history /\ q \notin history) \/ (r \notin history /\ q \in history)
    BY <1>3, <1>5, <1>7, <2>3, TimesAreNumbers
  <2> QED BY <2>1, <2>2, <2>3
<1> QED BY <1>1, <1>3, <1>6, <1>7 DEF HistoryIsOrdered

\* A step that keeps what the server has, lastModified and the remote store, and
\* touches no call but to end it or to let it run on unanswered.
LEMMA QuietStepReceived ==
    ASSUME InvReceived,
           UNCHANGED <<history, headTime, serverTime, lastModified, remote>>,
           \A p \in Puller : pull'[p] = pull[p] \/ pull'[p].phase # "answered",
           \A q \in Pusher : push'[q] = push[q] \/ push'[q].phase # "posted"
    PROVE  InvReceived'
<1> USE DEF InvReceived
<1>1. HistoryIsOrdered' /\ PostedIsAhead'
  BY DEF HistoryIsOrdered, PostedIsAhead
<1>2. AnswersAreComplete'
  BY DEF AnswersAreComplete, Latest, Missing, Live, Stored
<1>3. RemoteIsMostRecentReceived'
  BY DEF RemoteIsMostRecentReceived, ServerValueAt, Latest, Live
<1> QED BY <1>1, <1>2, <1>3

\* What the server commits comes after everything that was received or asked.
LEMMA AppendReceived ==
    ASSUME InvSync, InvReceived, NEW new, Append(new),
           headTime' = headTime \/ headTime' = serverTime + 1,
           UNCHANGED <<storeVars, pull>>,
           \A q \in Pusher : \/ push'[q] = push[q]
                              \/ push'[q].time = serverTime + 1
    PROVE  InvReceived'
<1> USE DEF InvReceived
<1>1. /\ SyncTypes /\ lastModified <= serverTime
      /\ \A p \in Puller : pull[p].phase = "answered" =>
            /\ pull[p].batch.last <= serverTime
            /\ pull[p].batch.last \in Nat /\ pull[p].batch.head \in Nat
  BY AnswerNumbers DEF InvSync, InvNesting, InvHead, HeadOrder, AnswersTellOfHead
<1>2. /\ HistoryIsOrdered'
      /\ history \subseteq history'
      /\ \A r \in history' \ history : r.commitTime = serverTime + 1
      /\ serverTime' = serverTime + 1
      /\ UNCHANGED <<remote, lastModified, pull>>
  BY <1>1, AppendOrdered DEF storeVars
<1>3. PostedIsAhead'
  BY <1>1, <1>2, TimesAreNumbers DEF PostedIsAhead
<1>4. AnswersAreComplete'
  <2> SUFFICES ASSUME NEW p \in Puller, pull[p].phase = "answered"
               PROVE  /\ headTime' <= pull[p].batch.last =>
                            pull[p].batch.revs = Latest(Missing(pull[p].batch.last))'
                      /\ pull[p].batch.head # 0 =>
                            lastModified < pull[p].batch.head /\ pull[p].batch.head <= headTime'
                      /\ lastModified < pull[p].batch.last
                      /\ \A k \in Stored(remote) : remote[k].commitTime <= pull[p].batch.last
    BY <1>2 DEF AnswersAreComplete, Stored
  <2> DEFINE t == pull[p].batch.last
  <2>1. t \in Nat /\ t <= serverTime /\ pull[p].batch.head \in Nat
    BY <1>1
  <2>2. ASSUME headTime' <= t PROVE pull[p].batch.revs = Latest(Missing(t))'
    <3>1. headTime' = headTime
      BY <1>1, <2>1, <2>2, TimesAreNumbers
    <3>2. \A q \in history' \ history : ~(q.commitTime <= t)
      BY <1>1, <1>2, <2>1, TimesAreNumbers
    <3>3. Missing(t)' = Missing(t)
      BY <1>2, <3>1, <3>2 DEF Missing, Live
    <3>4. Latest(Missing(t))' = Latest(Missing(t))
      BY <3>3 DEF Latest
    <3> QED BY <2>2, <3>1, <3>4 DEF AnswersAreComplete
  <2>3. /\ pull[p].batch.head # 0 =>
              lastModified < pull[p].batch.head /\ pull[p].batch.head <= headTime'
        /\ lastModified < t
        /\ \A k \in Stored(remote) : remote[k].commitTime <= t
    BY <1>1, <2>1, TimesAreNumbers DEF AnswersAreComplete, InvSync, InvHead, HeadOrder
  <2> QED BY <2>2, <2>3
<1>5. RemoteIsMostRecentReceived'
  <2>1. CASE headTime' = serverTime + 1
    BY <1>1, <1>2, <2>1, TimesAreNumbers DEF RemoteIsMostRecentReceived
  <2>2. CASE headTime' = headTime
    <3>1. PICK t \in Nat : t = lastModified
      BY <1>1, TimesAreNumbers
    <3>2. ASSUME NEW k PROVE ServerValueAt(k, lastModified)' = ServerValueAt(k, lastModified)
      <4>1. ServerValueAt(k, t)' = ServerValueAt(k, t)
        BY <1>1, <1>2, <2>2, <3>1, PastValue
      <4>2. ServerValueAt(k, lastModified)' = ServerValueAt(k, t)'
        BY <1>2, <3>1 DEF ServerValueAt
      <4> QED BY <3>1, <4>1, <4>2
    <3> QED BY <1>2, <2>2, <3>2 DEF RemoteIsMostRecentReceived
  <2> QED BY <2>1, <2>2
<1> QED BY <1>2, <1>3, <1>4, <1>5

\* The request asks from lastModified: its answer is all that is missing.
LEMMA PullAnsweredReceived ==
    ASSUME InvSync, InvReceived, NEW p \in Puller, PullAnswered(p)
    PROVE  InvReceived'
<1> USE DEF InvReceived
<1> DEFINE batch == ReadAfter(pull[p].after)
<1>1. /\ UNCHANGED <<history, headTime, serverTime, lastModified, remote, push>>
      /\ pull' = [pull EXCEPT ![p] = [phase |-> "answered", batch |-> batch]]
      /\ pull[p].after = lastModified
      /\ SyncTypes /\ headTime <= serverTime /\ CommittedMeansTransmitted
  BY DEF PullAnswered, storeVars, InvSync, InvNesting, InvTransmitted, InvHead, HeadOrder,
         AskedFromLastModified
<1>2. HistoryIsOrdered' /\ PostedIsAhead' /\ RemoteIsMostRecentReceived'
  BY <1>1 DEF HistoryIsOrdered, PostedIsAhead, RemoteIsMostRecentReceived, ServerValueAt, Latest, Live
<1>3. batch.last = serverTime /\ lastModified < serverTime /\ batch.revs = Latest(Missing(serverTime))
  <2>1. {r \in Live : r.commitTime > lastModified} = Missing(serverTime)
    <3>1. \A r \in Live : r.commitTime \in Nat /\ r.commitTime <= serverTime
      BY <1>1, HistoryTimes DEF Live, HistoryIsOrdered
    <3> QED BY <1>1, <3>1, TimesAreNumbers DEF Missing
  <2> QED BY <1>1, <2>1, TimesAreNumbers DEF ReadAfter, PullAnswered
<1>4. batch.head # 0 => lastModified < batch.head /\ batch.head <= headTime
  BY <1>1, TimesAreNumbers DEF ReadAfter
<1>5. \A k \in Stored(remote) : remote[k].commitTime <= serverTime
  <2> TAKE k \in Stored(remote)
  <2>1. RevisionAt(k, remote[k].value, remote[k].commitTime) \in history
    BY <1>1 DEF CommittedMeansTransmitted, RevisionAt
  <2> QED BY <2>1 DEF HistoryIsOrdered, RevisionAt
<1>6. AnswersAreComplete'
  <2>1. ASSUME NEW s \in Puller, pull'[s].phase = "answered", s # p
        PROVE  pull'[s] = pull[s]
    BY <1>1, <2>1
  <2>2. pull'[p].batch = batch
    BY <1>1 DEF SyncTypes
  <2>3. \A t : Latest(Missing(t))' = Latest(Missing(t))
    BY <1>1 DEF Latest, Missing, Live
  <2>4. Stored(remote)' = Stored(remote)
    BY <1>1 DEF Stored
  <2> SUFFICES ASSUME NEW s \in Puller, pull'[s].phase = "answered"
               PROVE  /\ headTime <= pull'[s].batch.last =>
                            pull'[s].batch.revs = Latest(Missing(pull'[s].batch.last))
                      /\ pull'[s].batch.head # 0 =>
                            lastModified < pull'[s].batch.head /\ pull'[s].batch.head <= headTime
                      /\ lastModified < pull'[s].batch.last
                      /\ \A k \in Stored(remote) : remote[k].commitTime <= pull'[s].batch.last
    BY <1>1 DEF AnswersAreComplete, Latest, Missing, Live, Stored
  <2>5. CASE s = p
    <3> HIDE DEF batch
    <3> QED BY <1>3, <1>4, <1>5, <2>2, <2>5
  <2>6. CASE s # p
    BY <2>1, <2>6 DEF AnswersAreComplete
  <2> QED BY <2>5, <2>6
<1> QED BY <1>2, <1>6

\* Among independent paths, the value of each revision of an answer is there
\* once it is committed, and all else is as it was.
LEMMA CommitRemoteEntriesLeaves ==
    ASSUME Heritage = {}, TypeOKStore, NEW batch \in Answer, CommitRemoteEntries(batch),
           \A r, q \in batch.revs : r.key = q.key => r = q,
           \A r \in batch.revs :
              remote[r.key] # Absent /\ remote[r.key].commitTime = r.commitTime =>
                 remote[r.key].value = r.value,
           NEW k \in Key
    PROVE  /\ \A r \in batch.revs : r.key = k => remote'[k] # Absent /\ remote'[k].value = r.value
           /\ (\A r \in batch.revs : r.key # k) =>
                 remote'[k] = IF Resets(batch) THEN Absent ELSE remote[k]
<1> DEFINE store  == IF Resets(batch) THEN Empty ELSE remote
           leaves == IF Resets(batch) THEN Stored(local) ELSE lookup
           news   == {r \in batch.revs : IsNews(store, r)}
<1>1. PICK accepted \in SUBSET news :
        /\ IsAccepted(accepted, news, leaves)
        /\ remote' = [l \in Key |->
                        IF l \in {r.key : r \in accepted}
                        THEN [value      |-> RevisionOf(accepted, l).value,
                              commitTime |-> RevisionOf(accepted, l).commitTime]
                        ELSE store[l]]
  BY DEF CommitRemoteEntries
<1>2. accepted = news
  BY <1>1 DEF IsAccepted, SharesHeritage, Related
<1>3. accepted \in SUBSET Revision
  BY <1>1 DEF Answer
<1>4. remote'[k] = IF k \in {r.key : r \in accepted}
                   THEN [value      |-> RevisionOf(accepted, k).value,
                         commitTime |-> RevisionOf(accepted, k).commitTime]
                   ELSE store[k]
  BY <1>1
<1>5. store[k] = IF Resets(batch) THEN Absent ELSE remote[k]
  BY DEF Empty
<1>6. ASSUME NEW r \in batch.revs, r.key = k
      PROVE  remote'[k] # Absent /\ remote'[k].value = r.value
  <2>1. CASE r \in news
    <3>1. RevisionOf(accepted, k) = r /\ k \in {q.key : q \in accepted}
      BY <1>2, <1>3, <1>6, <2>1, RevisionOfKey
    <3>2. remote'[k] = [value |-> r.value, commitTime |-> r.commitTime]
      BY <1>4, <3>1
    <3>3. r \in Revision
      BY <1>2, <1>3, <2>1
    <3>4. [value |-> r.value, commitTime |-> r.commitTime] \in RemoteEntry
      BY <3>3 DEF Revision, RemoteEntry
    <3> QED BY <3>2, <3>4, AbsentAssumption
  <2>2. CASE r \notin news
    <3>1. \A q \in accepted : q.key # k
      BY <1>1, <1>2, <1>6, <2>2
    <3>2. remote'[k] = store[k]
      BY <1>4, <3>1
    <3>3. store[k] # Absent /\ (store[k].commitTime = r.commitTime \/ store[k].value = r.value)
      BY <1>6, <2>2 DEF IsNews
    <3>4. store[k] = remote[k]
      BY <1>5, <3>3
    <3> QED BY <1>6, <3>2, <3>3, <3>4
  <2> QED BY <2>1, <2>2
<1>7. ASSUME \A r \in batch.revs : r.key # k
      PROVE  remote'[k] = IF Resets(batch) THEN Absent ELSE remote[k]
  <2>1. k \notin {r.key : r \in accepted}
    BY <1>1, <1>7
  <2> QED BY <1>4, <1>5, <2>1
<1> QED BY <1>6, <1>7

\* The commit of an answer no rewrite has overtaken: for each key it brings the
\* last revision, or there is none that was not received before.
LEMMA PullCommitReceived ==
    ASSUME \A p1, p2 \in Puller : p1 = p2, Heritage = {},
           InvSync, InvReceived, NEW p \in Puller, PullCommit(p)
    PROVE  InvReceived'
<1> USE DEF InvReceived
<1> DEFINE batch == pull[p].batch
<1>1. /\ UNCHANGED <<history, headTime, serverTime, push>>
      /\ lastModified' = batch.last /\ pull' = [pull EXCEPT ![p] = Idle]
      /\ CommitRemoteEntries(batch) /\ pull[p].phase = "answered"
  BY DEF PullCommit, CommitRemoteEntries
<1>2. /\ SyncTypes /\ TypeOKStore /\ CommittedMeansTransmitted
      /\ push = NoSubmissions
  BY DEF InvSync, InvNesting, InvTransmitted, NeverBeside, PullCommit, NoRequests, Idle, SyncTypes
<1>3. batch \in Answer /\ batch.last \in Nat /\ batch.head \in Nat
  BY <1>1, <1>2, AnswerTime, AnswerNumbers
<1>4. \A s \in Puller : pull'[s] = Idle
  BY <1>1, <1>2 DEF SyncTypes
<1>5. HistoryIsOrdered' /\ AnswersAreComplete' /\ PostedIsAhead'
  BY <1>1, <1>2, <1>4 DEF HistoryIsOrdered, AnswersAreComplete, PostedIsAhead, NoSubmissions, Idle
<1>6. ASSUME headTime <= batch.last, NEW k \in Key
      PROVE  ServerValueAt(k, batch.last) = IF remote'[k] = Absent THEN Undefined ELSE remote'[k].value
  <2>1. /\ batch.revs = Latest(Missing(batch.last))
        /\ batch.head # 0 => lastModified < batch.head /\ batch.head <= headTime
        /\ lastModified < batch.last
        /\ \A l \in Stored(remote) : remote[l].commitTime <= batch.last
    BY <1>1, <1>6 DEF AnswersAreComplete
  <2>2. /\ batch.head # 0 \/ headTime <= lastModified
        /\ lastModified = 0 => Stored(remote) = {}
    BY <1>1, <1>6 DEF InvSync, InvHead, AnswersTellOfHead, FirstPulled
  <2>3. \A r \in Live : r \in history /\ r.commitTime \in Nat \ {0} /\ headTime <= r.commitTime
    BY <1>2, HistoryTimes DEF Live
  <2>4. \A r \in batch.revs :
           /\ r \in Live /\ lastModified < r.commitTime /\ r.commitTime <= batch.last
           /\ \A q \in Missing(batch.last) : q.key = r.key => q.commitTime <= r.commitTime
    BY <2>1 DEF Latest, Missing
  <2>5. \A r, q \in batch.revs : r.key = q.key => r = q
    <3> TAKE r, q \in batch.revs
    <3>1. r \in Missing(batch.last) /\ q \in Missing(batch.last)
      BY <2>1 DEF Latest
    <3>2. r.key = q.key => r.commitTime <= q.commitTime /\ q.commitTime <= r.commitTime
      BY <2>4, <3>1
    <3> QED BY <2>3, <2>4, <3>2 DEF HistoryIsOrdered
  <2>6. ASSUME NEW r \in batch.revs, remote[r.key] # Absent, remote[r.key].commitTime = r.commitTime
        PROVE  remote[r.key].value = r.value
    <3>1. r \in history /\ r.key \in Stored(remote)
      BY <1>2, <2>3, <2>4, <2>6 DEF Stored, SyncTypes, Revision
    <3>2. RevisionAt(r.key, remote[r.key].value, remote[r.key].commitTime) \in history
      BY <1>2, <3>1 DEF CommittedMeansTransmitted, RevisionAt
    <3>3. RevisionAt(r.key, remote[r.key].value, remote[r.key].commitTime) = r
      BY <2>6, <3>1, <3>2 DEF HistoryIsOrdered, RevisionAt
    <3> QED BY <3>3 DEF RevisionAt
  <2>7. /\ \A r \in batch.revs : r.key = k => remote'[k] # Absent /\ remote'[k].value = r.value
        /\ (\A r \in batch.revs : r.key # k) =>
              remote'[k] = IF Resets(batch) THEN Absent ELSE remote[k]
    <3> HIDE DEF batch
    <3> QED BY <1>1, <1>2, <1>3, <2>5, <2>6, CommitRemoteEntriesLeaves
  <2>8. ASSUME NEW r \in batch.revs, r.key = k
        PROVE  ServerValueAt(k, batch.last) = r.value
    <3>1. \A q \in Live : q.key = k /\ q.commitTime <= batch.last => q.commitTime <= r.commitTime
      <4> TAKE q \in Live
      <4>1. CASE lastModified < q.commitTime
        BY <2>4, <2>8, <4>1 DEF Missing
      <4>2. CASE ~(lastModified < q.commitTime)
        BY <1>2, <2>3, <2>4, <4>2, TimesAreNumbers
      <4> QED BY <4>1, <4>2
    <3> HIDE DEF batch
    <3> QED BY <1>2, <1>3, <2>4, <2>8, <3>1, ServerValueIs
  <2>9. ASSUME \A r \in batch.revs : r.key # k
        PROVE  \A q \in Live : q.key = k => ~(lastModified < q.commitTime /\ q.commitTime <= batch.last)
    <3> SUFFICES ASSUME NEW q \in Missing(batch.last), q.key = k PROVE FALSE
      BY DEF Missing
    <3>1. \A r \in Missing(batch.last) : r.commitTime \in Nat /\ r.commitTime <= batch.last
      BY <2>3 DEF Missing
    <3>2. \E r \in Latest(Missing(batch.last)) : r.key = q.key
      <4> HIDE DEF batch
      <4> QED BY <1>3, <3>1, LatestExists
    <3> QED BY <2>1, <2>9, <3>2
  <2>10. CASE \E r \in batch.revs : r.key = k
    BY <2>7, <2>8, <2>10
  <2>11. CASE (\A r \in batch.revs : r.key # k) /\ (Resets(batch) \/ lastModified = 0)
    <3>1. remote'[k] = Absent
      BY <2>2, <2>7, <2>11 DEF Stored
    <3>2. \A q \in Live : lastModified < q.commitTime
      BY <1>2, <1>3, <2>1, <2>3, <2>11, TimesAreNumbers DEF Resets
    <3>3. \A q \in Live : ~(q.key = k /\ q.commitTime <= batch.last)
      BY <2>9, <2>11, <3>2
    <3> QED BY <3>1, <3>3, NoServerValue
  <2>12. CASE (\A r \in batch.revs : r.key # k) /\ ~Resets(batch) /\ lastModified > 0
    <3>1. remote'[k] = remote[k] /\ headTime <= lastModified
      BY <2>2, <2>7, <2>12 DEF Resets
    <3>2. ~(remote[k] # Absent /\ remote[k].commitTime > lastModified)
      <4> SUFFICES ASSUME remote[k] # Absent, remote[k].commitTime > lastModified PROVE FALSE
        OBVIOUS
      <4> DEFINE r == RevisionAt(k, remote[k].value, remote[k].commitTime)
      <4>1. r \in history /\ r.key = k /\ r.commitTime = remote[k].commitTime
        BY <1>2 DEF CommittedMeansTransmitted, RevisionAt, Stored
      <4>2. r.commitTime \in Nat /\ r.commitTime <= batch.last
        BY <1>2, <2>1, <4>1, HistoryTimes DEF Stored
      <4>3. r \in Live /\ lastModified < r.commitTime
        BY <1>2, <3>1, <4>1, <4>2, TimesAreNumbers DEF Live
      <4> QED BY <2>9, <2>12, <4>1, <4>2, <4>3
    <3>3. ServerValueAt(k, lastModified) = IF remote[k] = Absent THEN Undefined ELSE remote[k].value
      BY <3>1, <3>2 DEF RemoteIsMostRecentReceived
    <3>4. \A q \in Live : q.key = k => (q.commitTime <= lastModified <=> q.commitTime <= batch.last)
      BY <1>2, <1>3, <2>1, <2>3, <2>9, <2>12, TimesAreNumbers
    <3>5. ServerValueAt(k, lastModified) = ServerValueAt(k, batch.last)
      BY <3>4, SameServerValue
    <3> QED BY <3>1, <3>3, <3>5
  <2> QED BY <1>2, <2>10, <2>11, <2>12, TimesAreNumbers
<1>7. RemoteIsMostRecentReceived'
  <2>1. SUFFICES ASSUME headTime <= batch.last, NEW k \in Key
                 PROVE  ServerValueAt(k, lastModified)' =
                           IF remote'[k] = Absent THEN Undefined ELSE remote'[k].value
    BY <1>1 DEF RemoteIsMostRecentReceived
  <2>2. ServerValueAt(k, lastModified)' = ServerValueAt(k, batch.last)
    BY <1>1 DEF ServerValueAt, Latest, Live
  <2> QED BY <1>6, <2>1, <2>2
<1> QED BY <1>5, <1>7

\* What is acknowledged is later than what was pulled.
LEMMA PushAckReceived ==
    ASSUME InvSync, InvReceived, NEW q \in Pusher, PushAck(q)
    PROVE  InvReceived'
<1> USE DEF InvReceived
<1>1. SyncTypes /\ push \in [Pusher -> Pushes] /\ push[q].phase = "posted"
  BY DEF InvSync, InvNesting, SyncTypes, PushAck
<1>2. push[q].time \in Nat /\ lastModified < push[q].time
  <2>1. push[q] \in Posted
    BY <1>1, PushPhases
  <2> QED BY <1>1, <2>1, TimeAssumption DEF Posted, PostedIsAhead
<1> DEFINE moved == push[q].keys \cap Stored(local)
<1>3. /\ UNCHANGED <<history, headTime, serverTime, lastModified, pull>>
      /\ push' = [push EXCEPT ![q] = Idle]
      /\ remote' = [k \in Key |-> IF k \in moved THEN CommitedEntry(k, push[q].time) ELSE remote[k]]
  BY DEF PushAck, SetAsRemotelyCommited
<1>4. HistoryIsOrdered' /\ PostedIsAhead'
  BY <1>1, <1>3 DEF HistoryIsOrdered, PostedIsAhead, Idle
<1>5. AnswersAreComplete'
  <2>1. push # NoSubmissions
    BY <1>1 DEF NoSubmissions, Idle
  <2>2. pull = NoRequests
    BY <2>1 DEF InvSync, InvNesting, NeverBeside
  <2> QED BY <1>3, <2>2 DEF AnswersAreComplete, NoRequests, Idle
<1>6. RemoteIsMostRecentReceived'
  <2>1. SUFFICES ASSUME headTime <= lastModified, NEW k \in Key
                 PROVE  \/ remote'[k] # Absent /\ remote'[k].commitTime > lastModified
                        \/ ServerValueAt(k, lastModified) =
                              (IF remote'[k] = Absent THEN Undefined ELSE remote'[k].value)
    <3>1. UNCHANGED <<history, headTime, lastModified>>
      BY <1>3
    <3>2. \A k : ServerValueAt(k, lastModified)' = ServerValueAt(k, lastModified)
      BY <3>1 DEF ServerValueAt, Latest, Live
    <3> QED BY <3>1, <3>2 DEF RemoteIsMostRecentReceived
  <2>2. CASE k \in moved
    <3>1. remote'[k] = CommitedEntry(k, push[q].time)
      BY <1>3, <2>2
    <3>2. remote'[k].commitTime > lastModified
      BY <1>1, <1>2, <3>1, TimesAreNumbers DEF CommitedEntry
    <3>3. CommitedEntry(k, push[q].time) \in RemoteEntry
      <4>1. local[k] \in LocalEntry /\ push[q] \in Posted
        BY <1>1, <2>2, PushPhases DEF Stored, SyncTypes, TypeOKStore
      <4> QED BY <4>1 DEF CommitedEntry, LocalEntry, RemoteEntry, Posted
    <3> QED BY <3>1, <3>2, <3>3, AbsentAssumption
  <2>3. CASE k \notin moved
    BY <1>3, <2>1, <2>3 DEF RemoteIsMostRecentReceived
  <2> QED BY <2>2, <2>3
<1> QED BY <1>4, <1>5, <1>6

\* A reset that is interrupted is one whose head was not received.
LEMMA InterruptedReset ==
    ASSUME SyncTypes, AnswersAreComplete, NEW p \in Puller,
           pull[p].phase = "answered", Resets(pull[p].batch)
    PROVE  lastModified < headTime
<1>1. pull[p].batch.head # 0
  BY DEF Resets
<1>2. lastModified < pull[p].batch.head /\ pull[p].batch.head <= headTime
  BY <1>1 DEF AnswersAreComplete
<1> QED BY <1>2, AnswerNumbers, TimesAreNumbers

LEMMA CommitFailsReceived ==
    ASSUME InvSync, InvReceived, NEW p \in Puller, PullCommitFails(p)
    PROVE  InvReceived'
<1>1. /\ SyncTypes /\ pull[p].phase = "answered" /\ Resets(pull[p].batch)
      /\ UNCHANGED <<history, headTime, serverTime, lastModified, push>>
      /\ pull' = [pull EXCEPT ![p] = Idle]
      /\ remote' = Empty
  BY DEF PullCommitFails, ResetFails, InvSync, InvNesting
<1>2. HistoryIsOrdered' /\ PostedIsAhead'
  BY <1>1 DEF InvReceived, HistoryIsOrdered, PostedIsAhead
<1>3. AnswersAreComplete'
  <2>1. \A s \in Puller : pull'[s] = pull[s] \/ pull'[s].phase # "answered"
    BY <1>1 DEF SyncTypes, Idle
  <2>2. Stored(remote)' = {} /\ \A t : Missing(t)' = Missing(t)
    BY <1>1 DEF Stored, Empty, Missing, Live
  <2> QED BY <1>1, <2>1, <2>2 DEF InvReceived, AnswersAreComplete
<1>4. lastModified < headTime
  BY <1>1, InterruptedReset DEF InvReceived
<1>5. RemoteIsMostRecentReceived'
  BY <1>1, <1>4, TimesAreNumbers DEF RemoteIsMostRecentReceived
<1> QED BY <1>2, <1>3, <1>5 DEF InvReceived

LEMMA CrashReceived ==
    ASSUME InvSync, InvReceived, Crash
    PROVE  InvReceived'
<1> USE DEF InvReceived
<1>1. /\ pull' = NoRequests /\ push' = NoSubmissions /\ UNCHANGED <<history, headTime, serverTime>>
      /\ SyncTypes
  BY DEF Crash, Lost, InvSync, InvNesting
<1>2. HistoryIsOrdered' /\ AnswersAreComplete' /\ PostedIsAhead'
  BY <1>1 DEF HistoryIsOrdered, AnswersAreComplete, PostedIsAhead, NoRequests, NoSubmissions, Idle
<1>3. CASE remote' = remote /\ lastModified' = lastModified
  BY <1>1, <1>2, <1>3 DEF RemoteIsMostRecentReceived, ServerValueAt, Latest, Live
<1>4. CASE ~(remote' = remote /\ lastModified' = lastModified)
  <2>1. CASE DestroyLocalData
    <3>1. lastModified' = 0
      BY <2>1 DEF DestroyLocalData
    <3> QED BY <1>1, <1>2, <3>1, TimesAreNumbers DEF RemoteIsMostRecentReceived
  <2>2. CASE \E p \in Puller : pull[p].phase = "answered" /\ CrashDuringReset(pull[p].batch)
    <3>1. PICK p \in Puller : pull[p].phase = "answered" /\ CrashDuringReset(pull[p].batch)
      BY <2>2
    <3>2. Resets(pull[p].batch) /\ lastModified' = lastModified
      BY <3>1 DEF CrashDuringReset
    <3>3. lastModified < headTime
      BY <1>1, <3>1, <3>2, InterruptedReset
    <3> QED BY <1>1, <1>2, <3>2, <3>3, TimesAreNumbers DEF RemoteIsMostRecentReceived
  <2> QED BY <1>4, <2>1, <2>2 DEF Crash, Close
<1> QED BY <1>3, <1>4

LEMMA NextSyncReceived ==
    ASSUME \A p1, p2 \in Puller : p1 = p2, Heritage = {},
           InvSync, InvReceived, [NextSync]_vars
    PROVE  InvReceived'
<1>1. ASSUME NEW p \in Puller, PullStep(p) PROVE InvReceived'
  <2>1. CASE PullStart(p) \/ PullEmpty(p) \/ PullFails(p)
    <3>1. /\ UNCHANGED <<history, headTime, serverTime, lastModified, remote, push>>
          /\ \E call : pull' = [pull EXCEPT ![p] = call] /\ call.phase # "answered"
      BY <2>1 DEF PullStart, PullEmpty, PullFails, storeVars, Idle
    <3>2. \A s \in Puller : pull'[s] = pull[s] \/ pull'[s].phase # "answered"
      BY <3>1 DEF InvSync, InvNesting, SyncTypes
    <3> QED BY <3>1, <3>2, QuietStepReceived
  <2> QED BY <1>1, <2>1, PullAnsweredReceived, PullCommitReceived, CommitFailsReceived DEF PullStep
<1>2. ASSUME NEW q \in Pusher, PushStep(q) PROVE InvReceived'
  <2>0. push \in [Pusher -> Pushes] /\ push[q] \in Pushes
    BY DEF InvSync, InvNesting, SyncTypes
  <2>1. CASE (\E scope \in Scopes : PushStart(q, scope)) \/ PushCapture(q) \/ PushFails(q)
    <3>1. UNCHANGED <<history, headTime, serverTime, lastModified, remote, pull>>
      BY <2>1 DEF PushStart, PushCapture, PushFails, storeVars
    <3>2. \E call : push' = [push EXCEPT ![q] = call] /\ call.phase # "posted"
      BY <2>1 DEF PushStart, PushCapture, PushFails, Idle
    <3>3. \A s \in Pusher : push'[s] = push[s] \/ push'[s].phase # "posted"
      BY <2>0, <3>2
    <3> QED BY <3>1, <3>3, QuietStepReceived
  <2>2. CASE PushDiscard(q) \/ PushRecommit(q)
    <3>1. UNCHANGED <<history, headTime, serverTime, lastModified, remote, pull>>
      BY <2>2 DEF PushDiscard, PushRecommit, DiscardLocalEntryKeys, CommitLocalEntries
    <3>2. push[q] \in Resolving
      BY <2>0, <2>2, PushPhases DEF PushDiscard, PushRecommit
    <3>3. \A s \in Pusher : push'[s] = push[s] \/ push'[s].phase # "posted"
      BY <2>0, <2>2, <3>2 DEF PushDiscard, PushRecommit, Resolving
    <3> QED BY <3>1, <3>3, QuietStepReceived
  <2>3. CASE PushAccepted(q)
    <3>1. \A s \in Pusher : push'[s] = push[s] \/ push'[s].time = serverTime + 1
      BY <2>0, <2>3 DEF PushAccepted
    <3> QED BY <2>3, <3>1, AppendReceived DEF PushAccepted
  <2> QED BY <1>2, <2>1, <2>2, <2>3, PushAckReceived DEF PushStep
<1>3. CASE ForeignWrite \/ Rewrite
  <2>1. \E new : Append(new)
    BY <1>3 DEF ForeignWrite, Rewrite
  <2>2. UNCHANGED <<storeVars, pull, push>> /\ (headTime' = headTime \/ headTime' = serverTime + 1)
    BY <1>3 DEF ForeignWrite, Rewrite
  <2> QED BY <2>1, <2>2, AppendReceived
<1>4. CASE \/ \E k \in Key, v \in Data : LocalEdit(k, v)
           \/ \E scope \in Scopes : \E keys \in SUBSET scope : DiscardLocalChanges(keys)
           \/ Restart \/ UNCHANGED vars
  <2>1. UNCHANGED <<history, headTime, serverTime, lastModified, remote, pull, push>>
    BY <1>4 DEF LocalEdit, CommitLocalEntries, DiscardLocalChanges, DiscardLocalEntryKeys, Restart, Open,
                syncVars, vars, storeVars
  <2> QED BY <2>1, QuietStepReceived
<1> QED BY <1>1, <1>2, <1>3, <1>4, CrashReceived DEF NextSync

\* With one pull and one push at a time, neither beside the other, no edit while
\* a push is in flight and no push before the first pull, a database of
\* independent paths holds what the server had at lastModified, key for key, but
\* for what it pushed since: whatever other clients write, through rewrites,
\* conflicts, discards, lost messages and crashes in the middle of a reset.
THEOREM WhatWasReceivedIsHeld ==
    ASSUME RereadSucceeds, Heritage = {},
           \A p1, p2 \in Puller : p1 = p2, \A q1, q2 \in Pusher : q1 = q2,
           "editDuringPush" \notin Allowed, "pullDuringPush" \notin Allowed,
           "pushFirst" \notin Allowed
    PROVE  SpecSync => []RemoteIsMostRecentReceived
<1>1. InitSync => InvSync
  BY InitSyncNesting, InitSyncTransmitted, InitSyncHead DEF InvSync
<1>2. InvSync /\ [NextSync]_vars => InvSync'
  <2> SUFFICES ASSUME InvSync, [NextSync]_vars PROVE InvSync'
    OBVIOUS
  <2>1. InvNesting'
    BY NextSyncNesting DEF InvSync
  <2>2. InvTransmitted'
    BY NextSyncTransmitted DEF InvSync
  <2>3. InvHead'
    BY <2>1, NextSyncHead DEF InvSync
  <2> QED BY <2>1, <2>2, <2>3 DEF InvSync
<1>3. InitSync => InvReceived
  BY TimesAreNumbers, InitSyncTypes
     DEF InitSync, InitStore, NoRequests, NoSubmissions, Idle, InvReceived, HistoryIsOrdered,
         AnswersAreComplete, PostedIsAhead, RemoteIsMostRecentReceived
<1>4. InvSync /\ InvReceived /\ [NextSync]_vars => InvReceived'
  BY NextSyncReceived
<1>5. InvReceived => RemoteIsMostRecentReceived
  BY DEF InvReceived
<1> QED BY <1>1, <1>2, <1>3, <1>4, <1>5, PTL DEF SpecSync

-----------------------------------------------------------------------------

(***************************************************************************)
(* Synchronization as a use of the operations.  Every await of a pull or a *)
(* push ends in at most one operation of LocalDBOperations, which takes    *)
(* for granted that a written set of leaves is unnested and that an answer *)
(* is a batch.  The second needs a history: what the server has committed  *)
(* at one time came from one client, whose leaves are unnested, and its    *)
(* latest commit is there to be read.                                      *)
(***************************************************************************)

HistoryOfWrites ==
    /\ HistoryIsOrdered
    /\ headTime <= serverTime
    /\ headTime = serverTime \/ \E r \in history : r.commitTime = serverTime
    /\ \A r, q \in history : r.commitTime = q.commitTime => ~Related(r.key, q.key)

SentIsUnnested ==
    \A q \in Pusher : push[q].phase = "posting" =>
        DOMAIN push[q].sent # {} /\ HeritageFree(DOMAIN push[q].sent)

AnswersAreBatches == \A p \in Puller : pull[p].phase = "answered" => IsBatch(pull[p].batch)

InvBatches == HistoryOfWrites /\ SentIsUnnested /\ AnswersAreBatches

LEMMA InitSyncBatches == InitSync => InvBatches
<1> SUFFICES ASSUME InitSync PROVE InvBatches
  OBVIOUS
<1>1. HistoryOfWrites
  BY DEF InitSync, HistoryOfWrites, HistoryIsOrdered
<1> QED BY <1>1 DEF InitSync, NoRequests, NoSubmissions, Idle, InvBatches, SentIsUnnested,
                    AnswersAreBatches

\* What is committed at one time is one client's, and never older than the head.
LEMMA AppendWrites ==
    ASSUME SyncTypes, HistoryOfWrites, NEW new, Append(new),
           DOMAIN new \subseteq Key, HeritageFree(DOMAIN new),
           \/ headTime' = headTime /\ DOMAIN new # {}
           \/ headTime' = serverTime + 1
    PROVE  HistoryOfWrites'
<1> DEFINE added == {[key |-> k, value |-> new[k], commitTime |-> serverTime + 1] : k \in DOMAIN new}
<1>1. /\ HistoryIsOrdered'
      /\ history' = history \cup added
      /\ serverTime' = serverTime + 1
  BY AppendOrdered DEF HistoryOfWrites, Append
<1>2. serverTime \in Nat /\ headTime \in Nat /\ headTime <= serverTime
  BY TimesAreNumbers DEF HistoryOfWrites
<1>3. headTime' <= serverTime'
  BY <1>1, <1>2
<1>4. headTime' = serverTime' \/ \E r \in history' : r.commitTime = serverTime'
  <2>1. CASE headTime' = serverTime + 1
    BY <1>1, <2>1
  <2>2. CASE DOMAIN new # {}
    <3>1. PICK k \in DOMAIN new : TRUE
      BY <2>2
    <3>2. [key |-> k, value |-> new[k], commitTime |-> serverTime + 1] \in history'
      BY <1>1
    <3> QED BY <1>1, <3>2
  <2> QED BY <2>1, <2>2
<1>5. ASSUME NEW r \in history', NEW q \in history', r.commitTime = q.commitTime
      PROVE  ~Related(r.key, q.key)
  <2>1. \A s \in added : s.commitTime = serverTime + 1 /\ s.key \in DOMAIN new
    OBVIOUS
  <2>2. \A s \in history : s.commitTime \in Nat /\ s.commitTime <= serverTime
    BY HistoryTimes DEF HistoryOfWrites, HistoryIsOrdered
  <2>3. CASE r \in history /\ q \in history
    BY <1>5, <2>3 DEF HistoryOfWrites
  <2>4. CASE r \in added /\ q \in added
    BY <2>1, <2>4 DEF HeritageFree
  <2>5. CASE (r \in history /\ q \in added) \/ (r \in added /\ q \in history)
    BY <1>2, <1>5, <2>1, <2>2, <2>5
  <2> QED BY <1>1, <2>3, <2>4, <2>5
<1> QED BY <1>1, <1>3, <1>4, <1>5 DEF HistoryOfWrites

\* What a server answers that has something newer is a batch.
LEMMA ReadAfterIsBatch ==
    ASSUME SyncTypes, HistoryOfWrites, NEW t \in Nat, serverTime > t
    PROVE  IsBatch(ReadAfter(t))
<1> DEFINE batch == ReadAfter(t)
           newer == {r \in Live : r.commitTime > t}
<1>1. /\ batch.head = (IF headTime > t THEN headTime ELSE 0)
      /\ batch.revs = Latest(newer)
      /\ batch.last = serverTime
  BY DEF ReadAfter
<1>2. serverTime \in Nat \ {0} /\ headTime \in Nat \ {0} /\ headTime <= serverTime
  BY TimesAreNumbers DEF HistoryOfWrites
<1>3. \A r \in newer : /\ r \in history /\ headTime <= r.commitTime
                       /\ r.commitTime \in Nat /\ r.commitTime <= serverTime
  BY HistoryTimes DEF Live, HistoryOfWrites, HistoryIsOrdered
<1>4. \A r \in batch.revs : r \in newer /\ \A q \in newer : q.key = r.key => q.commitTime <= r.commitTime
  BY <1>1 DEF Latest
<1> HIDE DEF batch, newer
<1>5. \A r, q \in batch.revs : r.key = q.key => r = q
  <2> SUFFICES ASSUME NEW r \in batch.revs, NEW q \in batch.revs, r.key = q.key PROVE r = q
    OBVIOUS
  <2>1. r.commitTime <= q.commitTime /\ q.commitTime <= r.commitTime
    BY <1>4
  <2>2. r.commitTime = q.commitTime /\ r \in history /\ q \in history
    BY <1>3, <1>4, <2>1
  <2> QED BY <2>2 DEF HistoryOfWrites, HistoryIsOrdered
<1>6. \A r, q \in batch.revs : Related(r.key, q.key) => r.commitTime # q.commitTime
  BY <1>3, <1>4 DEF HistoryOfWrites
<1>7. \A r \in batch.revs : batch.head <= r.commitTime /\ r.commitTime <= batch.last
  BY <1>1, <1>2, <1>3, <1>4
<1>8. batch.last \in {batch.head} \cup {r.commitTime : r \in batch.revs}
  <2>1. CASE headTime = serverTime
    BY <1>1, <2>1
  <2>2. CASE \E r \in history : r.commitTime = serverTime
    <3>1. PICK r \in history : r.commitTime = serverTime
      BY <2>2
    <3>2. r \in newer
      BY <1>2, <3>1 DEF newer, Live
    <3>3. \A q \in newer : q.commitTime <= r.commitTime
      BY <1>3, <3>1
    <3>4. r \in batch.revs
      BY <1>1, <3>2, <3>3 DEF Latest
    <3> QED BY <1>1, <3>1, <3>4
  <2> QED BY <2>1, <2>2 DEF HistoryOfWrites
<1>9. batch.head <= batch.last
  BY <1>1, <1>2
<1> QED BY <1>5, <1>6, <1>7, <1>8, <1>9 DEF IsBatch, batch

LEMMA QuietStepBatches ==
    ASSUME InvBatches,
           UNCHANGED <<history, headTime, serverTime>>,
           \A p \in Puller : pull'[p] = pull[p] \/ pull'[p].phase # "answered",
           \A q \in Pusher : push'[q] = push[q] \/ push'[q].phase # "posting"
    PROVE  InvBatches'
<1>1. HistoryOfWrites'
  BY DEF InvBatches, HistoryOfWrites, HistoryIsOrdered
<1>2. SentIsUnnested'
  BY DEF InvBatches, SentIsUnnested
<1>3. AnswersAreBatches'
  BY DEF InvBatches, AnswersAreBatches
<1> QED BY <1>1, <1>2, <1>3 DEF InvBatches

LEMMA PullStepBatches ==
    ASSUME InvNesting, InvBatches, NEW p \in Puller, PullStep(p)
    PROVE  InvBatches'
<1>1. SyncTypes /\ pull \in [Puller -> Pulls] /\ pull[p] \in Pulls
  BY DEF InvNesting, SyncTypes
<1>2. CASE PullAnswered(p)
  <2>1. pull' = [pull EXCEPT ![p] = [phase |-> "answered", batch |-> ReadAfter(pull[p].after)]]
    BY <1>2 DEF PullAnswered
  <2>2. pull[p].after \in Nat /\ serverTime > pull[p].after
    <3>1. pull[p] \in Asked
      BY <1>1, <1>2, PullPhases DEF PullAnswered
    <3>2. \A t \in Time \cup {0} : t \in Nat
      BY TimeAssumption
    <3> QED BY <1>2, <3>1, <3>2 DEF PullAnswered, Asked
  <2>3. IsBatch(ReadAfter(pull[p].after))
    BY <1>1, <2>2, ReadAfterIsBatch DEF InvBatches
  <2>4. AnswersAreBatches'
    BY <1>1, <2>1, <2>3 DEF InvBatches, AnswersAreBatches
  <2>5. UNCHANGED <<history, headTime, serverTime, push>>
    BY <1>2 DEF PullAnswered
  <2>6. HistoryOfWrites' /\ SentIsUnnested'
    BY <2>5 DEF InvBatches, HistoryOfWrites, HistoryIsOrdered, SentIsUnnested
  <2> QED BY <2>4, <2>6 DEF InvBatches
<1>3. CASE PullStart(p) \/ PullEmpty(p) \/ PullCommit(p) \/ PullCommitFails(p) \/ PullFails(p)
  <2>1. /\ UNCHANGED <<history, headTime, serverTime, push>>
        /\ \/ pull' = [pull EXCEPT ![p] = [phase |-> "asked", after |-> lastModified]]
           \/ pull' = [pull EXCEPT ![p] = Idle]
    BY <1>3 DEF PullStart, PullEmpty, PullCommit, PullCommitFails, PullFails
  <2>2. \A r \in Puller : pull'[r] = pull[r] \/ pull'[r].phase # "answered"
    BY <1>1, <2>1 DEF Idle
  <2> QED BY <2>1, <2>2, QuietStepBatches
<1> QED BY <1>2, <1>3 DEF PullStep

LEMMA PushStepBatches ==
    ASSUME InvNesting, InvBatches, NEW q \in Pusher, PushStep(q)
    PROVE  InvBatches'
<1>1. SyncTypes /\ push \in [Pusher -> Pushes] /\ push[q] \in Pushes
  BY DEF InvNesting, SyncTypes
<1>2. CASE PushCapture(q)
  <2> DEFINE sent == Stored(local) \cap push[q].scope
  <2>1. CASE sent = {}
    <3>1. \A r \in Pusher : push'[r] = push[r] \/ push'[r].phase # "posting"
      BY <1>1, <1>2, <2>1 DEF PushCapture, Idle
    <3> QED BY <1>2, <3>1, QuietStepBatches DEF PushCapture
  <2>2. CASE sent # {}
    <3>1. push' = [push EXCEPT ![q] = [phase |-> "posting", sent |-> [k \in sent |-> local[k].value]]]
      BY <1>2, <2>2 DEF PushCapture
    <3>2. HeritageFree(sent)
      BY DEF InvNesting, InvStore, LeavesNeverNest, HeritageFree, AllKeys
    <3>3. DOMAIN push'[q].sent = sent /\ \A r \in Pusher \ {q} : push'[r] = push[r]
      BY <1>1, <3>1
    <3>4. SentIsUnnested'
      BY <2>2, <3>2, <3>3 DEF InvBatches, SentIsUnnested
    <3>5. UNCHANGED <<history, headTime, serverTime, pull>>
      BY <1>2 DEF PushCapture
    <3>6. HistoryOfWrites' /\ AnswersAreBatches'
      BY <3>5 DEF InvBatches, HistoryOfWrites, HistoryIsOrdered, AnswersAreBatches
    <3> QED BY <3>4, <3>6 DEF InvBatches
  <2> QED BY <2>1, <2>2
<1>3. CASE PushAccepted(q)
  <2>1. push[q] \in Posting
    BY <1>1, <1>3, PushPhases DEF PushAccepted
  <2>2. DOMAIN push[q].sent \subseteq Key
    BY <2>1, PartialDataIs DEF Posting
  <2>3. DOMAIN push[q].sent # {} /\ HeritageFree(DOMAIN push[q].sent)
    BY <1>3 DEF PushAccepted, InvBatches, SentIsUnnested
  <2>4. Append(push[q].sent) /\ UNCHANGED <<headTime, pull>>
    BY <1>3 DEF PushAccepted
  <2>5. HistoryOfWrites'
    BY <1>1, <2>2, <2>3, <2>4, AppendWrites DEF InvBatches
  <2>6. push'[q].phase # "posting" /\ \A r \in Pusher \ {q} : push'[r] = push[r]
    BY <1>1, <1>3 DEF PushAccepted
  <2>7. SentIsUnnested' /\ AnswersAreBatches'
    BY <2>4, <2>6 DEF InvBatches, SentIsUnnested, AnswersAreBatches
  <2> QED BY <2>5, <2>7 DEF InvBatches
<1>4. CASE (\E scope \in Scopes : PushStart(q, scope)) \/ PushDiscard(q) \/ PushRecommit(q)
           \/ PushAck(q) \/ PushFails(q)
  <2>1. UNCHANGED <<history, headTime, serverTime, pull>>
    BY <1>4 DEF PushStart, PushDiscard, PushRecommit, PushAck, PushFails
  <2>2. \A r \in Pusher \ {q} : push'[r] = push[r]
    BY <1>1, <1>4 DEF PushStart, PushDiscard, PushRecommit, PushAck, PushFails
  <2>3. push'[q].phase # "posting"
    <3>1. CASE \E scope \in Scopes : PushStart(q, scope)
      BY <1>1, <3>1 DEF PushStart
    <3>2. CASE PushDiscard(q) \/ PushRecommit(q)
      <4>1. push[q] \in Resolving
        BY <1>1, <3>2, PushPhases DEF PushDiscard, PushRecommit
      <4>2. push'[q].phase = push[q].phase
        BY <1>1, <3>2, <4>1 DEF PushDiscard, PushRecommit, Resolving
      <4> QED BY <4>1, <4>2 DEF Resolving
    <3>3. CASE PushAck(q) \/ PushFails(q)
      BY <1>1, <3>3 DEF PushAck, PushFails, Idle
    <3> QED BY <1>4, <3>1, <3>2, <3>3
  <2> QED BY <2>1, <2>2, <2>3, QuietStepBatches
<1> QED BY <1>2, <1>3, <1>4 DEF PushStep

LEMMA OtherStepBatches ==
    ASSUME InvNesting, InvBatches,
           \/ ForeignWrite \/ Rewrite \/ Crash \/ Restart
           \/ \E k \in Key, v \in Data : LocalEdit(k, v)
           \/ \E keys \in SUBSET Key : DiscardLocalChanges(keys)
    PROVE  InvBatches'
<1>1. SyncTypes
  BY DEF InvNesting
<1>2. CASE ForeignWrite
  <2>1. PICK k \in Key, v \in Data : Append([l \in {k} |-> v])
    BY <1>2 DEF ForeignWrite
  <2>2. DOMAIN [l \in {k} |-> v] = {k} /\ HeritageFree({k})
    BY HeritageAssumption DEF HeritageFree, Related
  <2>3. HistoryOfWrites'
    <3>1. headTime' = headTime
      BY <1>2 DEF ForeignWrite
    <3> QED BY <1>1, <2>1, <2>2, <3>1, AppendWrites DEF InvBatches
  <2> QED BY <1>2, <2>3 DEF ForeignWrite, InvBatches, SentIsUnnested, AnswersAreBatches
<1>3. CASE Rewrite
  <2>1. PICK keys \in SUBSET Key : HeritageFree(keys) /\ \E new \in [keys -> Value] : Append(new)
    BY <1>3 DEF Rewrite
  <2>2. PICK new \in [keys -> Value] : Append(new)
    BY <2>1
  <2>3. HistoryOfWrites'
    <3>1. headTime' = serverTime + 1 /\ DOMAIN new = keys
      BY <1>3 DEF Rewrite
    <3> QED BY <1>1, <2>1, <2>2, <3>1, AppendWrites DEF InvBatches
  <2> QED BY <1>3, <2>3 DEF Rewrite, InvBatches, SentIsUnnested, AnswersAreBatches
<1>4. CASE Crash
  BY <1>4, QuietStepBatches DEF Crash, Lost, NoRequests, NoSubmissions, Idle
<1>5. CASE Restart \/ (\E k \in Key, v \in Data : LocalEdit(k, v))
           \/ \E keys \in SUBSET Key : DiscardLocalChanges(keys)
  BY <1>5, QuietStepBatches DEF Restart, LocalEdit, DiscardLocalChanges, syncVars
<1> QED BY <1>2, <1>3, <1>4, <1>5

LEMMA NextSyncBatches ==
    ASSUME InvNesting, InvBatches, [NextSync]_vars
    PROVE  InvBatches'
<1>1. CASE NextSync
  <2>1. ASSUME NEW scope \in Scopes, NEW keys \in SUBSET scope, DiscardLocalChanges(keys)
        PROVE  InvBatches'
    BY <2>1, ScopesAssumption, OtherStepBatches
  <2> QED BY <1>1, <2>1, PullStepBatches, PushStepBatches, OtherStepBatches DEF NextSync
<1>2. CASE UNCHANGED vars
  BY <1>2, QuietStepBatches DEF vars, syncVars
<1> QED BY <1>1, <1>2

-----------------------------------------------------------------------------

\* Each operation a step of synchronization runs is one of the operations, as
\* they are stated.
LEMMA WriteIsOperation ==
    ASSUME NEW keys \in SUBSET Key, NEW new \in [keys -> Data],
           Assignable(new), CommitLocalEntries(new)
    PROVE  NextStore
  BY DEF NextStore

LEMMA DiscardIsOperation ==
    ASSUME NEW keys \in SUBSET Key, DiscardLocalEntryKeys(keys)
    PROVE  NextStore
  BY DEF NextStore

LEMMA AcknowledgementIsOperation ==
    ASSUME NEW keys \in SUBSET Key, NEW commitTime \in Time, SetAsRemotelyCommited(keys, commitTime)
    PROVE  NextStore
  BY DEF NextStore

LEMMA AnswerIsBatch ==
    ASSUME InvNesting, InvBatches, {batch \in Answer : IsBatch(batch)} \subseteq Batches,
           NEW p \in Puller, pull[p].phase = "answered"
    PROVE  pull[p].batch \in Batches
  BY AnswerTime DEF InvNesting, InvBatches, AnswersAreBatches

LEMMA PullStepIsOperation ==
    ASSUME InvNesting, InvBatches, {batch \in Answer : IsBatch(batch)} \subseteq Batches,
           NEW p \in Puller, PullStep(p)
    PROVE  [NextStore]_storeVars
<1>1. CASE PullCommit(p) \/ PullCommitFails(p)
  BY <1>1, AnswerIsBatch DEF PullCommit, PullCommitFails, NextStore
<1>2. CASE ~PullCommit(p) /\ ~PullCommitFails(p)
  BY <1>2 DEF PullStep, PullStart, PullAnswered, PullEmpty, PullFails
<1> QED BY <1>1, <1>2

LEMMA PushStepIsOperation ==
    ASSUME InvNesting, NEW q \in Pusher, PushStep(q)
    PROVE  [NextStore]_storeVars
<1>1. push[q] \in Pushes
  BY DEF InvNesting, SyncTypes
<1>2. CASE PushDiscard(q)
  <2>1. push[q] \in Resolving
    BY <1>1, <1>2, PushPhases DEF PushDiscard
  <2> QED BY <1>2, <2>1, DiscardIsOperation DEF PushDiscard, Resolving
<1>3. CASE PushRecommit(q)
  <2> DEFINE new == push[q].new
  <2>1. push[q] \in Resolving
    BY <1>1, <1>3, PushPhases DEF PushRecommit
  <2>2. DOMAIN new \in SUBSET Key /\ new \in [DOMAIN new -> Data]
    BY <2>1, PartialDataIs DEF Resolving
  <2>3. DOMAIN new \subseteq lookup /\ HeritageFree(lookup)
    BY <1>3 DEF PushRecommit, CommitLocalEntries, InvNesting, ResolvedAreStored, InvStore,
                LookupCoversStores, LeavesNeverNest, AllKeys
  <2>4. Assignable(new)
    BY <2>3 DEF Assignable, HeritageFree, SharesHeritage
  <2>5. CommitLocalEntries(new)
    BY <1>3 DEF PushRecommit
  <2> HIDE DEF new
  <2> QED BY <2>2, <2>4, <2>5, WriteIsOperation
<1>4. CASE PushAck(q)
  <2>1. push[q] \in Posted
    BY <1>1, <1>4, PushPhases DEF PushAck
  <2> QED BY <1>4, <2>1, AcknowledgementIsOperation DEF PushAck, Posted
<1>5. CASE (\E scope \in Scopes : PushStart(q, scope)) \/ PushCapture(q) \/ PushAccepted(q) \/ PushFails(q)
  BY <1>5 DEF PushStart, PushCapture, PushAccepted, PushFails
<1> QED BY <1>2, <1>3, <1>4, <1>5 DEF PushStep

LEMMA OtherStepIsOperation ==
    ASSUME InvNesting, InvBatches, {batch \in Answer : IsBatch(batch)} \subseteq Batches,
           \/ ForeignWrite \/ Rewrite \/ Crash \/ Restart
           \/ \E k \in Key, v \in Data : LocalEdit(k, v)
           \/ \E keys \in SUBSET Key : DiscardLocalChanges(keys)
    PROVE  [NextStore]_storeVars
<1>1. CASE ForeignWrite \/ Rewrite
  BY <1>1 DEF ForeignWrite, Rewrite
<1>2. CASE Crash
  <2>1. CASE Close
    BY <2>1 DEF NextStore
  <2>2. ASSUME NEW p \in Puller, pull[p].phase = "answered", CrashDuringReset(pull[p].batch)
        PROVE  NextStore
    BY <2>2, AnswerIsBatch DEF NextStore
  <2> QED BY <1>2, <2>1, <2>2 DEF Crash
<1>3. CASE Restart
  BY <1>3 DEF Restart, NextStore
<1>4. ASSUME NEW k \in Key, NEW v \in Data, LocalEdit(k, v)
      PROVE  NextStore
  <2> DEFINE new == [l \in {k} |-> v]
  <2>1. Assignable(new) /\ CommitLocalEntries(new)
    BY <1>4 DEF LocalEdit
  <2>2. {k} \in SUBSET Key /\ new \in [{k} -> Data]
    OBVIOUS
  <2> HIDE DEF new
  <2> QED BY <2>1, <2>2, WriteIsOperation
<1>5. ASSUME NEW keys \in SUBSET Key, DiscardLocalChanges(keys)
      PROVE  NextStore
  BY <1>5, DiscardIsOperation DEF DiscardLocalChanges
<1> QED BY <1>1, <1>2, <1>3, <1>4, <1>5

LEMMA NextSyncIsOperation ==
    ASSUME InvNesting, InvBatches, {batch \in Answer : IsBatch(batch)} \subseteq Batches,
           [NextSync]_vars
    PROVE  [NextStore]_storeVars
<1>1. CASE NextSync
  <2>1. ASSUME NEW scope \in Scopes, NEW keys \in SUBSET scope, DiscardLocalChanges(keys)
        PROVE  [NextStore]_storeVars
    BY <2>1, ScopesAssumption, OtherStepIsOperation
  <2> QED BY <1>1, <2>1, PullStepIsOperation, PushStepIsOperation, OtherStepIsOperation DEF NextSync
<1>2. CASE UNCHANGED vars
  BY <1>2 DEF vars
<1> QED BY <1>1, <1>2

\* Synchronization uses the database as LocalDBOperations has it: with pulls and
\* pushes that do not overlap each other, every step is one of its operations,
\* on arguments it is stated for, or leaves the stores alone.  What the server
\* answers is a batch whatever its clients write and whenever it is asked; what
\* a conflict handler answers can be written without a check.
THEOREM SyncImplementsStore ==
    ASSUME RereadSucceeds, "pullDuringPush" \notin Allowed,
           {batch \in Answer : IsBatch(batch)} \subseteq Batches
    PROVE  SpecSync => SpecStore
<1>1. InitSync => InitStore /\ InvNesting /\ InvBatches
  BY InitSyncNesting, InitSyncBatches DEF InitSync
<1>2. InvNesting /\ InvBatches /\ [NextSync]_vars
        => InvNesting' /\ InvBatches' /\ [NextStore]_storeVars
  BY NextSyncNesting, NextSyncBatches, NextSyncIsOperation
<1> QED BY <1>1, <1>2, PTL DEF SpecSync, SpecStore

\* While it synchronizes, whoever writes and however often the process ends, the
\* database announces what readers see (but for cleared keys that a pending
\* change shadows),
THEOREM SyncTellsTheView ==
    ASSUME RereadSucceeds, "pullDuringPush" \notin Allowed,
           {batch \in Answer : IsBatch(batch)} \subseteq Batches
    PROVE  SpecSync => []ChangesMatchView
  BY SyncImplementsStore, DiffsTellTheView, PTL

\* and every change of it, but for what a reset takes away that fails halfway.
THEOREM SyncAnnouncesChanges ==
    ASSUME RereadSucceeds, "pullDuringPush" \notin Allowed,
           {batch \in Answer : IsBatch(batch)} \subseteq Batches
    PROVE  SpecSync => EveryChangeAnnounced
  BY SyncImplementsStore, DiffsAreComplete, PTL

=============================================================================
