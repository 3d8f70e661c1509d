----------------------------- MODULE LocalDBSync -----------------------------
(***************************************************************************)
(* Synchronization of one database with its server                         *)
(* (src/src/DB/LocalDB/LocalDB.ts over LocalDBOperations.ts).  A pull and a*)
(* push are asynchronous functions: every `await' of theirs, of an         *)
(* operation or of a request, is a point where the application, other      *)
(* pulls and pushes, the server and its other clients may step in.         *)
(*                                                                         *)
(* The server is external.  It keeps the revisions it was sent, in the     *)
(* order of their commit times, behind a head entry that dates from its    *)
(* creation or from the last rewrite.                                      *)
(***************************************************************************)
EXTENDS LocalDBOperations

CONSTANTS Puller, Pusher,   \* concurrent calls of pullRemoteChanges, pushLocalChanges
          Scopes,           \* the subtrees named by a basePath
          Allowed,          \* what the application and the server may do, see below
          MaxEdits, MaxWrites, MaxFaults   \* bounds on edits, foreign writes, faults

(***************************************************************************)
(* editDuringPush: the application writes while a push is in flight;       *)
(* pullDuringPush: a pull and a push are in flight together;               *)
(* pushFirst: a push before the first pull; rewrite: some client replaces  *)
(* the content of the datastore; crash: the process ends and restarts.     *)
(***************************************************************************)
ASSUME AllowedAssumption ==
    Allowed \subseteq {"editDuringPush", "pullDuringPush", "pushFirst", "rewrite", "crash"}

ASSUME ScopesAssumption == Scopes \subseteq SUBSET Key

\* The head entry of a new datastore is its first commit.
ASSUME FirstTimeAssumption == 1 \in Time

ASSUME BoundsAssumption == MaxEdits \in Nat /\ MaxWrites \in Nat /\ MaxFaults \in Nat

VARIABLES history,     \* every revision the server ever committed
          headTime,    \* commit time of the head entry
          serverTime,  \* the latest commit time
          pull, push,  \* the calls in flight
          firstBase,   \* what a pending change was first based on
          spent        \* edits, foreign writes and faults so far

syncVars == <<history, headTime, serverTime, pull, push, spent>>
vars == <<storeVars, syncVars, firstBase>>

Idle == [phase |-> "idle"]
NoRequests == [p \in Puller |-> Idle]
NoSubmissions == [q \in Pusher |-> Idle]

\* The reference time of a change when it is first made, kept while pending.
TrackFirstBase ==
    firstBase' = [k \in Key |-> IF local'[k] = Absent THEN 0
                                ELSE IF local[k] = Absent THEN lastModified
                                ELSE firstBase[k]]

Spend(budget, max) ==
    /\ spent[budget] < max
    /\ spent' = [spent EXCEPT ![budget] = @ + 1]

-----------------------------------------------------------------------------

(***************************************************************************)
(* The server.                                                             *)
(***************************************************************************)
Live == {r \in history : headTime <= r.commitTime}

Latest(revs) == {r \in revs : \A q \in revs : q.key = r.key => q.commitTime <= r.commitTime}

\* The value of k after the commits up to time t.
ServerValueAt(k, t) ==
    LET revs == Latest({r \in Live : r.key = k /\ r.commitTime <= t})
    IN  IF revs = {} THEN Undefined ELSE (CHOOSE r \in revs : TRUE).value

ServerValue(k) == ServerValueAt(k, serverTime)

\* GET with updatedAfter; compactAndDeserializeEntries keeps the latest
\* revision of each key.
ReadAfter(t) ==
    [head |-> IF headTime > t THEN headTime ELSE 0,
     revs |-> Latest({r \in Live : r.commitTime > t}),
     last |-> serverTime]

\* POST (a write) and PUT (a rewrite) of the entries `new'.
Append(new) ==
    /\ serverTime + 1 \in Time
    /\ serverTime' = serverTime + 1
    /\ history' = history \cup
          {[key |-> k, value |-> new[k], commitTime |-> serverTime + 1] : k \in DOMAIN new}

\* Another client writes one leaf, or replaces everything by some leaves.
ForeignWrite ==
    /\ \E k \in Key, v \in Data : Append([l \in {k} |-> v])
    /\ Spend("writes", MaxWrites)
    /\ UNCHANGED <<storeVars, headTime, pull, push, firstBase>>

Rewrite ==
    /\ "rewrite" \in Allowed
    /\ \E keys \in SUBSET Key :
          /\ HeritageFree(keys)
          /\ \E new \in [keys -> Value] : Append(new)
    /\ headTime' = serverTime + 1
    /\ Spend("writes", MaxWrites)
    /\ UNCHANGED <<storeVars, pull, push, firstBase>>

-----------------------------------------------------------------------------

(***************************************************************************)
(* pullRemoteChangessOnce: read lastModified, ask the server, commit what  *)
(* it answers.                                                             *)
(***************************************************************************)
PullStart(p) ==
    /\ isOpen
    /\ pull[p] = Idle
    /\ "pullDuringPush" \notin Allowed => push = NoSubmissions
    /\ pull' = [pull EXCEPT ![p] = [phase |-> "asked", after |-> lastModified]]
    /\ UNCHANGED <<storeVars, history, headTime, serverTime, push, spent, firstBase>>

\* The server has something newer.
PullAnswered(p) ==
    /\ pull[p].phase = "asked"
    /\ serverTime > pull[p].after
    /\ pull' = [pull EXCEPT ![p] = [phase |-> "answered", batch |-> ReadAfter(pull[p].after)]]
    /\ UNCHANGED <<storeVars, history, headTime, serverTime, push, spent, firstBase>>

\* It has not, and does not wait until it has.
PullEmpty(p) ==
    /\ pull[p].phase = "asked"
    /\ serverTime <= pull[p].after
    /\ pull' = [pull EXCEPT ![p] = Idle]
    /\ UNCHANGED <<storeVars, history, headTime, serverTime, push, spent, firstBase>>

PullCommit(p) ==
    /\ pull[p].phase = "answered"
    /\ CommitRemoteEntries(pull[p].batch)
    /\ pull' = [pull EXCEPT ![p] = Idle]
    /\ UNCHANGED <<history, headTime, serverTime, push, spent, firstBase>>

\* A reset that stops halfway.
PullCommitFails(p) ==
    /\ pull[p].phase = "answered"
    /\ ResetFails(pull[p].batch)
    /\ pull' = [pull EXCEPT ![p] = Idle]
    /\ Spend("faults", MaxFaults)
    /\ UNCHANGED <<history, headTime, serverTime, push, firstBase>>

\* A network error, a timeout, a response that does not decode, or a commit that
\* fails before it writes.
PullFails(p) ==
    /\ pull[p] # Idle
    /\ pull' = [pull EXCEPT ![p] = Idle]
    /\ Spend("faults", MaxFaults)
    /\ UNCHANGED <<storeVars, history, headTime, serverTime, push, firstBase>>

-----------------------------------------------------------------------------

(***************************************************************************)
(* pushLocalChanges: resolve the conflicts, read the pending entries, send *)
(* them, mark them as committed.                                           *)
(***************************************************************************)

\* resolveConflicts: the handler answers, for each conflict, the local value,
\* the remote one (the pending entry is discarded) or another (it is written
\* over the pending one).
PushStart(q, scope) ==
    /\ isOpen
    /\ push[q] = Idle
    /\ "pullDuringPush" \notin Allowed => pull = NoRequests
    /\ "pushFirst" \notin Allowed => lastModified > 0
    /\ \E discarded \in SUBSET (ConflictingKeys \cap scope) :
       \E rewritten \in SUBSET ((ConflictingKeys \cap scope) \ discarded) :
       \E new \in [rewritten -> Data] :
          /\ \A k \in rewritten : new[k] \notin {local[k].value, remote[k].value}
          /\ push' = [push EXCEPT ![q] = [phase     |-> "resolving",
                                          scope     |-> scope,
                                          discarded |-> discarded,
                                          new       |-> new]]
    /\ UNCHANGED <<storeVars, history, headTime, serverTime, pull, spent, firstBase>>

PushDiscard(q) ==
    /\ push[q].phase = "resolving"
    /\ push[q].discarded # {}
    /\ DiscardLocalEntryKeys(push[q].discarded)
    /\ push' = [push EXCEPT ![q].discarded = {}]
    /\ TrackFirstBase
    /\ UNCHANGED <<history, headTime, serverTime, pull, spent>>

PushRecommit(q) ==
    /\ push[q].phase = "resolving"
    /\ push[q].discarded = {}
    /\ DOMAIN push[q].new # {}
    /\ CommitLocalEntries(push[q].new)
    /\ push' = [push EXCEPT ![q].new = [k \in {} |-> Undefined]]
    /\ TrackFirstBase
    /\ UNCHANGED <<history, headTime, serverTime, pull, spent>>

\* getSerializedLocalEntries; nothing pending, nothing to send.
PushCapture(q) ==
    LET sent == Stored(local) \cap push[q].scope
    IN  /\ push[q].phase = "resolving"
        /\ push[q].discarded = {}
        /\ DOMAIN push[q].new = {}
        /\ isOpen
        /\ push' = [push EXCEPT ![q] =
                       IF sent = {} THEN Idle
                       ELSE [phase |-> "posting", sent |-> [k \in sent |-> local[k].value]]]
        /\ UNCHANGED <<storeVars, history, headTime, serverTime, pull, spent, firstBase>>

\* The server commits the request.
PushAccepted(q) ==
    /\ push[q].phase = "posting"
    /\ Append(push[q].sent)
    /\ push' = [push EXCEPT ![q] = [phase |-> "posted",
                                    keys  |-> DOMAIN push[q].sent,
                                    time  |-> serverTime + 1]]
    /\ UNCHANGED <<storeVars, headTime, pull, spent, firstBase>>

PushAck(q) ==
    /\ push[q].phase = "posted"
    /\ SetAsRemotelyCommited(push[q].keys, push[q].time)
    /\ push' = [push EXCEPT ![q] = Idle]
    /\ TrackFirstBase
    /\ UNCHANGED <<history, headTime, serverTime, pull, spent>>

\* The handler rejects, the request is lost, or its response is.
PushFails(q) ==
    /\ push[q] # Idle
    /\ push' = [push EXCEPT ![q] = Idle]
    /\ Spend("faults", MaxFaults)
    /\ UNCHANGED <<storeVars, history, headTime, serverTime, pull, firstBase>>

-----------------------------------------------------------------------------

(***************************************************************************)
(* The application, and the process.                                       *)
(***************************************************************************)
LocalEdit(k, v) ==
    LET new == [l \in {k} |-> v]
    IN  /\ "editDuringPush" \notin Allowed => push = NoSubmissions
        /\ Assignable(new)
        /\ CommitLocalEntries(new)
        /\ Spend("edits", MaxEdits)
        /\ TrackFirstBase
        /\ UNCHANGED <<history, headTime, serverTime, pull, push>>

\* The keys of a subtree are read by an operation of its own: what was added or
\* dropped since makes them any part of it.
DiscardLocalChanges(keys) ==
    /\ keys \cap Stored(local) # {}
    /\ DiscardLocalEntryKeys(keys)
    /\ TrackFirstBase
    /\ UNCHANGED syncVars

\* The process ends: what is in flight is lost.
Lost == pull' = NoRequests /\ push' = NoSubmissions

Crash ==
    /\ "crash" \in Allowed
    /\ \/ Close
       \/ \E p \in Puller : pull[p].phase = "answered" /\ CrashDuringReset(pull[p].batch)
    /\ Lost
    /\ Spend("faults", MaxFaults)
    /\ TrackFirstBase
    /\ UNCHANGED <<history, headTime, serverTime>>

Restart == Open /\ UNCHANGED <<syncVars, firstBase>>

-----------------------------------------------------------------------------

InitSync ==
    /\ InitStore
    /\ history = {}
    /\ headTime = 1
    /\ serverTime = 1
    /\ pull = NoRequests
    /\ push = NoSubmissions
    /\ firstBase = [k \in Key |-> 0]
    /\ spent = [edits |-> 0, writes |-> 0, faults |-> 0]

PullStep(p) == \/ PullStart(p) \/ PullAnswered(p) \/ PullEmpty(p)
               \/ PullCommit(p) \/ PullCommitFails(p) \/ PullFails(p)

PushStep(q) == \/ \E scope \in Scopes : PushStart(q, scope)
               \/ PushDiscard(q) \/ PushRecommit(q) \/ PushCapture(q)
               \/ PushAccepted(q) \/ PushAck(q) \/ PushFails(q)

NextSync ==
    \/ ForeignWrite
    \/ Rewrite
    \/ \E p \in Puller : PullStep(p)
    \/ \E q \in Pusher : PushStep(q)
    \/ \E k \in Key, v \in Data : LocalEdit(k, v)
    \/ \E scope \in Scopes : \E keys \in SUBSET scope : DiscardLocalChanges(keys)
    \/ Crash
    \/ Restart

SpecSync == InitSync /\ [][NextSync]_vars

(***************************************************************************)
(* Fairness.  The steps a promise or the server drives come about.  The    *)
(* application keeps calling pull and push (strongly fair: where it may    *)
(* not overlap them, each is enabled only while the other is idle).        *)
(* Nothing obliges anyone to edit, discard, fail or crash.                 *)
(***************************************************************************)
FairPull(p) ==
    /\ SF_vars(PullStart(p))
    /\ WF_vars(PullAnswered(p) \/ PullEmpty(p) \/ PullCommit(p))

FairPush(q) ==
    /\ SF_vars(\E scope \in Scopes : PushStart(q, scope))
    /\ WF_vars(\/ PushDiscard(q) \/ PushRecommit(q) \/ PushCapture(q)
               \/ PushAccepted(q) \/ PushAck(q))

FairSpecSync ==
    /\ SpecSync
    /\ \A p \in Puller : FairPull(p)
    /\ \A q \in Pusher : FairPush(q)
    /\ WF_vars(Restart)

-----------------------------------------------------------------------------

PartialData == UNION {[keys -> Data] : keys \in SUBSET Key}

TypeOKSync ==
    /\ TypeOKStore
    /\ history \in SUBSET Revision
    /\ headTime \in Time /\ serverTime \in Time
    /\ pull \in [Puller -> {Idle}
                    \cup [phase : {"asked"}, after : Time \cup {0}]
                    \cup [phase : {"answered"}, batch : Answer]]
    /\ push \in [Pusher -> {Idle}
                    \cup [phase : {"resolving"}, scope : Scopes, discarded : SUBSET Key,
                          new : PartialData]
                    \cup [phase : {"posting"}, sent : PartialData]
                    \cup [phase : {"posted"}, keys : SUBSET Key, time : Time]]
    /\ firstBase \in [Key -> Time \cup {0}]
    /\ spent \in [{"edits", "writes", "faults"} -> Nat]

\* A revision in the remote store is one the server has committed: no change
\* made on this side passes for one that was transmitted.  The comment at
\* LocalDBOperations.ts:509 takes this for granted when it skips a revision
\* whose commit time is known ("a previous local change that has been
\* transmitted to the server and marked as commited locally").
CommittedMeansTransmitted ==
    \A k \in Stored(remote) :
        [key |-> k, value |-> remote[k].value, commitTime |-> remote[k].commitTime] \in history

\* The remote store is what the server had at lastModified, but for the newer
\* revisions this database pushed itself.  After a rewrite it has not heard of
\* yet, nothing is claimed.
RemoteIsMostRecentReceived ==
    headTime <= lastModified =>
        \A k \in Key :
            \/ remote[k] # Absent /\ remote[k].commitTime > lastModified
            \/ ServerValueAt(k, lastModified) =
                  (IF remote[k] = Absent THEN Undefined ELSE remote[k].value)

\* "If a head entry is encountered and the datastore has already been synced
\* before, clear all entries" (LocalDBOperations.ts:481): past a rewrite, no
\* entry from before it is left.
NothingOlderThanHead ==
    headTime <= lastModified =>
        \A k \in Stored(remote) : remote[k].commitTime >= headTime

\* A change pending since after the first sync keeps the reference time of its
\* first edit through every later edit, pull and failed push: it is the only
\* trace of what the change was based on.
ReferenceTimeIsFirstBase ==
    \A k \in Stored(local) :
        firstBase[k] > 0 => local[k].syncReferenceTime = firstBase[k]

\* A pending change whose key has a remote revision of another value.
Diverged(k) == local[k] # Absent /\ remote[k] # Absent /\ local[k].value # remote[k].value

\* The conflict handler is asked about every remote revision "updated after the
\* first time an unsubmitted local change was created for that path"
\* (docs/API Reference.md:705).
EveryConflictReported ==
    \A k \in Key : Diverged(k) /\ remote[k].commitTime > firstBase[k] => k \in ConflictingKeys

\* Once nobody edits any more, every change is sent or discarded, and readers
\* see what the server has.
Converged == \A k \in Key : local[k] = Absent /\ View(k) = ServerValue(k)

EventuallyConverges == <>[]Converged
=============================================================================
