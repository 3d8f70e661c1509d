---------------------------- MODULE Subscriptions ----------------------------
(***************************************************************************)
(* subscribe, observe, unsubscribe and announceChanges of                  *)
(* src/src/DB/LocalDB/LocalDB.ts.  What the operations do to the database  *)
(* is LocalDBOperations; here they wait in the dispatcher's queue, and     *)
(* their answers for the program to go on.  The program runs to its next   *)
(* await; the commits it then announces may overtake each other.           *)
(*                                                                         *)
(* The storage works here: there are neither crashes nor failing resets.   *)
(***************************************************************************)
EXTENDS LocalDBOperations, SequencesExt

CONSTANTS Watched,           \* paths that are subscribed to
          Handler,
          Requests,          \* the operations that are asked for
          MaxOperations, MaxSubscriptions

\* The paths are sequences, and the heritage is theirs.
ASSUME PathAssumption ==
    /\ \A p \in Key \cup Watched : p \in Seq(ToSet(p))
    /\ Heritage = {pair \in Key \X Key :
                       IsStrictPrefix(pair[1], pair[2]) \/ IsStrictPrefix(pair[2], pair[1])}

ASSUME FiniteAssumption == IsFiniteSet(Key)

ASSUME BoundsAssumption == MaxOperations \in Nat /\ MaxSubscriptions \in Nat

VARIABLES watchers,   \* subscriberEntries, in the order they were made
          queue,      \* operations sent, in order
          answered,   \* their answers, not yet taken up
          tasks,      \* handlers to call (EventLoop)
          diffs,      \* what each operation changed, in order
          calls,      \* the handlers called, in order
          rejected,   \* operations whose announcement was cut short
          sent,       \* how many operations were sent
          made        \* for each subscription ever made: does it observe?

watchVars == <<watchers, queue, answered, tasks, diffs, calls, rejected, sent, made>>
allVars == <<storeVars, watchVars>>

-----------------------------------------------------------------------------

\* What is at a path inside the value of a leaf.
Inside(value, path) == IF value = Undefined THEN Undefined ELSE <<value, path>>

Below(path) == {k \in lookup : IsStrictPrefix(path, k)}

\* getEntity
Entity(path) ==
    IF \E k \in lookup : IsPrefix(k, path)
    THEN LET leaf == CHOOSE k \in lookup : IsPrefix(k, path)
         IN  Inside(View(leaf), SubSeq(path, Len(leaf) + 1, Len(path)))
    ELSE IF \A k \in Below(path) : View(k) = Undefined THEN Undefined
         ELSE [k \in {k \in Below(path) : View(k) # Undefined} |-> View(k)]

\* determineStringRelationship
Relationship(key, path) ==
    CASE key = path -> "Equal"
      [] IsStrictPrefix(key, path) -> "Ancestor"
      [] IsStrictPrefix(path, key) -> "Descendant"
      [] OTHER -> "None"

Relates(change, path) == Relationship(change.key, path) # "None"

(***************************************************************************)
(* The loop over a diff stops at a change of the path itself or of an      *)
(* ancestor.  What it found last decides what is announced: nothing, if    *)
(* that does not relate to the path, whatever related to it before.        *)
(***************************************************************************)
LastLooked(changes, path) ==
    LET stops == {i \in DOMAIN changes :
                    Relationship(changes[i].key, path) \in {"Equal", "Ancestor"}}
    IN  IF stops = {} THEN Len(changes) ELSE CHOOSE i \in stops : \A j \in stops : i <= j

MatchType(changes, path) ==
    IF changes = <<>> THEN "None"
    ELSE Relationship(changes[LastLooked(changes, path)].key, path)

Matching(changes, path) == {i \in 1 .. LastLooked(changes, path) : Relates(changes[i], path)}

FirstMatch(changes, path) ==
    changes[CHOOSE i \in Matching(changes, path) : \A j \in Matching(changes, path) : i <= j]

HeardFromBelow(changes, path) ==  \* mutant: changes above the path do not count
    MatchType(changes, path) \in {"Equal", "Descendant"}

IsHeard(changes, path) == MatchType(changes, path) # "None"

Subscribers(path) ==
    IF \E i \in DOMAIN watchers : watchers[i].path = path
    THEN watchers[CHOOSE i \in DOMAIN watchers : watchers[i].path = path].subscribers
    ELSE <<>>

IsObserved(path) == \E i \in DOMAIN Subscribers(path) : Subscribers(path)[i].isObserver

ReadsEveryBranch(changes, path) ==  \* mutant: with or without observers
    Subscribers(path) # <<>> /\ MatchType(changes, path) = "Descendant"

NeedsRead(changes, path) ==
    IsObserved(path) /\ MatchType(changes, path) = "Descendant"

WholeLeaf(changes, path) ==  \* mutant: not the part of it at the path
    Inside(FirstMatch(changes, path).value, <<>>)

\* The new value, where the diff has it: that of the first entry that matched.
ValueInDiff(changes, path) ==
    LET first == FirstMatch(changes, path)
    IN  Inside(first.value, SubSeq(path, Len(first.key) + 1, Len(path)))

\* The handlers to call for a path.
Events(n, path, value) ==
    LET subscribers == IF IsHeard(diffs[n], path) THEN Subscribers(path) ELSE <<>>
    IN  [i \in DOMAIN subscribers |->
            [to    |-> subscribers[i], path |-> path, operation |-> n,
             value |-> IF subscribers[i].isObserver THEN value ELSE Undefined]]

EventsFromDiff(n, path) ==
    Events(n, path,
           IF IsHeard(diffs[n], path) /\ MatchType(diffs[n], path) # "Descendant"
           THEN ValueInDiff(diffs[n], path) ELSE Undefined)

-----------------------------------------------------------------------------

\* The entries of a transaction are in its order, one for a key.
Entries ==
    {new \in UNION {[1 .. n -> Change] : n \in 1 .. Cardinality(Key)} :
        \A i, j \in DOMAIN new : new[i].key = new[j].key => i = j}

ASSUME RequestsAssumption ==
    Requests \subseteq
        [op : {"commitLocalTransaction"}, entries : Entries]
        \cup [op : {"commitSerializedRemoteEntries"}, batch : Batches]
        \cup [op : {"discardLocalEntryKeys"}, keys : SUBSET Key]

\* put, update, delete, a pull, discardLocalChanges
Send ==
    /\ sent < MaxOperations
    /\ \E o \in Requests : queue' = Append(queue, o)
    /\ sent' = sent + 1
    /\ UNCHANGED <<storeVars, watchers, answered, tasks, diffs, calls, rejected, made>>

Now == IF queue = <<>> THEN [op |-> "none"] ELSE queue[1]

\* The answer of an operation: its diff, in the order of the entries it was
\* given or has read.
Answers(order) ==
    /\ queue' = Tail(queue)
    /\ diffs' = Append(diffs, order)
    /\ answered' = Append(answered, [operation |-> Len(diffs) + 1, read |-> <<>>])
    /\ UNCHANGED <<watchers, tasks, calls, rejected, sent, made>>

Assignments(entries) ==
    [k \in {entries[i].key : i \in DOMAIN entries} |->
        entries[CHOOSE i \in DOMAIN entries : entries[i].key = k].value]

\* The entries that are in the diff, in their order.  (SelectSeq gives them too,
\* but nothing can be proved of it.)
Kept(entries, changes) ==
    LET kept[i \in 0 .. Len(entries)] ==
            IF i = 0 THEN <<>>
            ELSE IF entries[i] \in changes THEN Append(kept[i - 1], entries[i])
            ELSE kept[i - 1]
    IN  kept[Len(entries)]

CommitTransaction ==
    /\ Now.op = "commitLocalTransaction"
    /\ IF Assignable(Assignments(Now.entries))
       THEN /\ CommitLocalEntries(Assignments(Now.entries))
            /\ Answers(Kept(Now.entries, diff'.changed))
       ELSE /\ queue' = Tail(queue)
            /\ UNCHANGED <<storeVars, watchers, answered, tasks, diffs, calls, rejected, sent, made>>

Unset(keys) == {[key |-> k, value |-> Undefined] : k \in keys}

CommitRemote ==
    /\ Now.op = "commitSerializedRemoteEntries"
    /\ CommitRemoteEntries(Now.batch)
    /\ Answers(SetToSeq(Unset(diff'.cleared)) \o SetToSeq(diff'.changed))

Discard ==
    /\ Now.op = "discardLocalEntryKeys"
    /\ DiscardLocalEntryKeys(Now.keys)
    /\ Answers(SetToSeq(diff'.changed))

\* getEntity, for an announcement that waits for it.
Read ==
    /\ Now.op = "getEntity"
    /\ queue' = Tail(queue)
    /\ answered' = Append(answered,
            [operation |-> Now.operation, read |-> Now.targets,
             value |-> Entity(Now.targets[1]), throws |-> BranchReadThrows(Below(Now.targets[1]))])
    /\ UNCHANGED <<storeVars, watchers, tasks, diffs, calls, rejected, sent, made>>

(***************************************************************************)
(* announceChanges, from its start or from the value it waited for to its  *)
(* next await.                                                             *)
(***************************************************************************)
Walk(n, targets, told) ==
    LET waits == {i \in DOMAIN targets : NeedsRead(diffs[n], targets[i])}
        next  == IF waits = {} THEN Len(targets) + 1
                 ELSE CHOOSE i \in waits : \A j \in waits : i <= j
    IN  /\ tasks' = tasks \o told
                    \o FlattenSeq([i \in 1 .. next - 1 |-> EventsFromDiff(n, targets[i])])
        /\ queue' = IF next > Len(targets) THEN queue
                    ELSE Append(queue, [op |-> "getEntity", operation |-> n,
                                        targets |-> SubSeq(targets, next, Len(targets))])

AnnounceChanges ==
    /\ answered # <<>>
    /\ answered' = Tail(answered)
    /\ LET a == answered[1]
       IN  IF a.read = <<>>
           THEN /\ Walk(a.operation, [i \in DOMAIN watchers |-> watchers[i].path], <<>>)
                /\ UNCHANGED rejected
           ELSE IF a.throws
           THEN rejected' = rejected \cup {a.operation} /\ UNCHANGED <<tasks, queue>>
           ELSE /\ Walk(a.operation, Tail(a.read), Events(a.operation, a.read[1], a.value))
                /\ UNCHANGED rejected
    /\ UNCHANGED <<storeVars, watchers, diffs, calls, sent, made>>

\* EventLoop's flush: all that is queued, in order.
CallHandlers ==
    /\ tasks # <<>>
    /\ tasks' = <<>>
    /\ calls' = calls \o tasks
    /\ UNCHANGED <<storeVars, watchers, queue, answered, diffs, rejected, sent, made>>

-----------------------------------------------------------------------------

Subscriptions == UNION {ToSet(watchers[i].subscribers) : i \in DOMAIN watchers}

\* subscribe and observe.  `id' tells subscriptions apart, `after' is how many
\* operations had been done.
SubscribeOrObserve(path, handler, isObserver, id) ==
    LET new == [handler |-> handler, isObserver |-> isObserver, id |-> id, after |-> Len(diffs)]
    IN  watchers' =
            IF \E i \in DOMAIN watchers : watchers[i].path = path
            THEN [i \in DOMAIN watchers |->
                    IF watchers[i].path = path
                    THEN [watchers[i] EXCEPT !.subscribers = Append(@, new)] ELSE watchers[i]]
            ELSE Append(watchers, [path |-> path, subscribers |-> <<new>>])

\* The first subscription of the handler to each path.
Without(subscribers, handler) ==
    LET its == {i \in DOMAIN subscribers : subscribers[i].handler = handler}
    IN  IF its = {} THEN subscribers
        ELSE RemoveAt(subscribers, CHOOSE i \in its : \A j \in its : i <= j)

Unsubscribe(handler) ==
    watchers' = [i \in DOMAIN watchers |->
                    [watchers[i] EXCEPT !.subscribers = Without(@, handler)]]

Watch ==
    /\ \/ /\ Len(made) < MaxSubscriptions
          /\ \E path \in Watched, handler \in Handler, isObserver \in BOOLEAN :
                /\ SubscribeOrObserve(path, handler, isObserver, Len(made) + 1)
                /\ made' = Append(made, isObserver)
       \/ /\ \E handler \in {s.handler : s \in Subscriptions} : Unsubscribe(handler)
          /\ UNCHANGED made
    /\ UNCHANGED <<storeVars, queue, answered, tasks, diffs, calls, rejected, sent>>

-----------------------------------------------------------------------------

Init ==
    /\ InitStore
    /\ watchers = <<>> /\ queue = <<>> /\ answered = <<>> /\ tasks = <<>>
    /\ diffs = <<>> /\ calls = <<>> /\ rejected = {} /\ sent = 0 /\ made = <<>>

Execute == CommitTransaction \/ CommitRemote \/ Discard \/ Read

Next == Send \/ Execute \/ AnnounceChanges \/ CallHandlers \/ Watch

\* The dispatcher runs what was sent; the program takes up the answers, and the
\* event loop its tasks.
Spec ==
    /\ Init
    /\ [][Next]_allVars
    /\ WF_allVars(Execute)
    /\ WF_allVars(AnnounceChanges)
    /\ WF_allVars(CallHandlers)

-----------------------------------------------------------------------------

TypeOK ==
    /\ TypeOKStore
    /\ \A i \in DOMAIN watchers :
          /\ watchers[i].path \in Watched
          /\ \A s \in ToSet(watchers[i].subscribers) :
                s \in [handler : Handler, isObserver : BOOLEAN,
                       id : 1 .. MaxSubscriptions, after : 0 .. MaxOperations]
    /\ \A i \in DOMAIN diffs : ToSet(diffs[i]) \subseteq Change
    /\ \A i \in DOMAIN calls : calls[i].operation \in DOMAIN diffs /\ calls[i].path \in Watched
    /\ rejected \subseteq DOMAIN diffs
    /\ sent \in 0 .. MaxOperations
    /\ made \in UNION {[1 .. n -> BOOLEAN] : n \in 0 .. MaxSubscriptions}

Quiet == queue = <<>> /\ answered = <<>> /\ tasks = <<>>

CallsTo(id) == {i \in DOMAIN calls : calls[i].to.id = id}

\* The subscription should be told of the operation and was not yet.
Owed(n, id) ==
    /\ n \in DOMAIN diffs /\ n \notin rejected
    /\ \E i \in DOMAIN watchers : \E s \in ToSet(watchers[i].subscribers) :
          /\ s.id = id /\ s.after < n
          /\ \E c \in ToSet(diffs[n]) : Relates(c, watchers[i].path)
    /\ \A j \in CallsTo(id) : calls[j].operation # n

\* A subscriber is told of every change at, above or below its path that was
\* made on its own after it subscribed, whatever is awaited or subscribed in
\* between, unless a read of the announcement failed before its turn.
SingleChangesHeard ==
    <>[](\A n \in DOMAIN diffs, id \in DOMAIN made : Len(diffs[n]) = 1 => ~Owed(n, id))

\* The same of changes made together: "Tracks changes to a given path and its
\* descendants" (docs/API Reference.md:496).
ChangesHeard ==
    <>[](\A n \in DOMAIN diffs, id \in DOMAIN made : ~Owed(n, id))

\* Every observer there ever was still observes.
ObserversStay == {s.id : s \in {t \in Subscriptions : t.isObserver}} = {id \in DOMAIN made : made[id]}

\* While nothing but single changes was announced and every observer stayed, the
\* value an observer was given last is, once all is done, the one a read
\* returns: events never leave it with an old value, although a value is read
\* after its commit, and the announcements of later commits go on meanwhile.
\* Where an observer leaves, the announcement of a later commit need not wait
\* for its value any more, and overtakes one that does.
\* So does the announcement of a commit that turns a branch into a leaf: nothing
\* of this holds with keys above keys, or with head entries, which announce as
\* undefined what is pending.
ObserversSettle ==
    Quiet /\ rejected = {} /\ ObserversStay /\ (\A n \in DOMAIN diffs : Len(diffs[n]) <= 1) =>
        \A i \in DOMAIN watchers : \A s \in ToSet(watchers[i].subscribers) :
            s.isObserver /\ CallsTo(s.id) # {} =>
                LET last == CHOOSE j \in CallsTo(s.id) : \A k \in CallsTo(s.id) : k <= j
                IN  calls[last].value = Entity(watchers[i].path)

\* As long as nobody observed, the handlers are called in the order of the
\* commits: announcing waits for nothing then.
OrderedWithoutObservers ==
    TRUE \notin ToSet(made) =>
        \A i, j \in DOMAIN calls : i < j => calls[i].operation <= calls[j].operation
=============================================================================
