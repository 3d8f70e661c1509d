# A specification of ZincDB

ZincDB is a database for browsers and Node.js: a local store of leaves addressed
by paths, changed by transactions, watched by subscribers, and synchronized with
a server that keeps a log of revisions. This directory has TLA+ modules for its
core, model-checking configurations, and proofs for TLAPS. Source paths below
are relative to `src/src/`.

## 1. The system

| component | source | state it keeps | operations |
|---|---|---|---|
| database operations | `DB/LocalDB/LocalDBOperations.ts` | the object stores `LocalEntries`, `RemoteEntries`, `GlobalMetadata`; the node lookup; is it open | open, reads, `commitLocalTransaction`, `commitLocalEntries`, `commitRemoteEntries`, `setAsRemotelyCommited`, `discardLocalEntryKeys`, `getConflictingEntries`, close, destroy |
| node lookup | `Library/Keypath/NodeLookup.ts` | the tree of leaf paths | add, delete, find what shares heritage with a path |
| the database object | `DB/LocalDB/LocalDB.ts` | subscribers, `isClosed`, is a continuous pull running | pull (once, long polling, websocket), push, resolve conflicts, discard, subscribe, announce |
| transactions | `DB/LocalDB/LocalDBTransaction.ts` | the list of operations, was it committed | put, update, delete, addListItem, commit |
| client | `DB/Client/Client.ts` | requests in flight | read, write, rewrite, websocket reader |
| serializer | `DB/Serialization/EntrySerializer.ts` | none | encode, decode and compact a list of entries |
| HTTP | `Library/Base/HTTPClient.ts`, `SignalSource.ts` | requests in flight, handlers of the abort signal | request, abort |
| dispatch and scheduling | `Library/Dispatcher`, `Library/Scheduling` | the queue of pending tasks; pending tokens; handlers to call | exec, abort, enqueue |
| workers | `DB/LocalDB/Workers` | a child process or web worker, a dispatcher per database | forward a request, answer it |
| storage adapters | `DB/LocalDB/Storage Adapters` | what is on the medium; WebStorage: a rollback record | open, `set` of several stores, get, clear, destroy |
| paths | `Library/Keypath/Keypath.ts` | none | text of a path and back, relationship of two |
| pure libraries | `Library/*` | none | encodings, hashes, ciphers, containers |

How they interact. The application calls the database object. It turns every
call into one or more operations and hands them to a dispatcher, which runs the
operations of one database one at a time: `await`s of *one operation* never
interleave with another operation, but `await`s of the *database object* do.
So a pull (read `lastModified`; ask the server; commit the answer) and a push
(find conflicts; ask the handler; discard; rewrite; read the pending entries;
send them; acknowledge) are sequences of atomic operations and requests between
which anything may happen: edits, other pulls and pushes, other clients, a crash.

Two object stores hold entries of the same keys. A local entry is a change not
yet sent; it shadows the remote entry, which is what the server had. A push moves
local entries to the remote store; a discard drops them. A local entry remembers
in `syncReferenceTime` what it was based on, and this alone tells conflicts. The
head entry of a response says that the datastore was created or rewritten at that
time, and empties the remote store of a client that has synced before.

What is hard here: the interleavings of pull, push and edits; answers out of
order; responses that are lost after the server has committed; a reset, which
writes storage twice; paths above and below each other, of which only one may be
a leaf, written by several clients; a node lookup in memory that has to agree
with two stores; diffs that must say what a reader would see, and announcements
of them that wait for reads while other commits go on; media that store one row
at a time and fail or lose power between two; workers that end with requests
unanswered; and connections whose messages go on being handled after they closed.

## 2. Modules

| module | models | extends |
|---|---|---|
| `NodeLookup` | the lookup as its set of leaves, over any heritage relation between paths | |
| `NodeLookupTree` | the lookup as the tree it is | `NodeLookup` |
| `LocalDBOperations` | the stores, `lastModified`, the lookup, the diff; one action per operation | `NodeLookup` |
| `LocalDBSync` | the server, pulls and pushes in flight, the application, crash and restart | `LocalDBOperations` |
| `LocalDBTransaction` | `commitLocalTransaction` one operation at a time, down to the entries it commits | `LocalDBOperations` |
| `Subscriptions` | subscribers, observers, announcements, the queue between them and the operations | `LocalDBOperations` |
| `OperationQueue` | what the queue of operations promises: single steps, in the order of the calls | |
| `PromiseQueue` | that queue, one microtask or callback at a time | |
| `WorkerDispatcher` | the same behind a worker: tokens, messages, exceptions, the worker's end | `PromiseQueue` |
| `StorageAdapter` | what a storage adapter promises | `ObjectStores` |
| `ObjectStores`, `StorageOperation`, `SQLStatements` | stores, entries and calls; a call in several steps; transactions of SQL statements | |
| `InMemoryAdapter`, `WebStorageAdapter`, `LevelUpAdapter`, `NodeSQLiteAdapter`, `WebSQLAdapter`, `IndexedDBAdapter` | one adapter each, down to the steps of its medium | `StorageOperation` |
| `StorageMedia` | a database on one of the six, crashes, other tabs | instances of the six |
| `HTTPClient` | requests on three platforms, their ends, the abort signal | |
| `RemoteChanges` | the continuous pull, by polls or a websocket, and its back-off | `HTTPClient` |
| `Keypath` | texts of paths | |
| `EntrySerializer` | files of entries | |
| `Representations` | the two last and `NodeLookupTree`, side by side | |
| `MC...` | instances for TLC | the above |
| `..._proofs` | theorems of the module named (`PromiseQueue`'s are in `WorkerDispatcher_proofs`) | the above, `TLAPS` |

They fit together by four refinements. `PromiseQueue` implements `OperationQueue`,
and so does `WorkerDispatcher`, for the program in front of the worker: an
operation, for all its `await`s, counts as one step, taken when it writes.
This is why the other modules may have one action per operation. Each of the six
adapters implements `StorageAdapter`: a `set` of several entries is one step,
which is why `LocalDBOperations` may write its stores at once. An operation that fails
has no effect, or that of its writes before: the queue's `Reject` allows both, and the
reset is the one operation with two. `NodeLookupTree`
implements `NodeLookup`. And `LocalDBTransaction` implements the steps of `LocalDBOperations`: a transaction,
for all its operations, is one `CommitLocalEntries` of a set of leaves that
`Assignable` allows. This is why `LocalDBOperations` and `LocalDBSync` may take a
transaction for such a set.

**Paths** are members of a constant set `Key`; the only structure the operations
use is `Heritage`, the pairs of distinct paths one of which is a prefix of the
other. The set of leaves stands for the tree of `NodeLookup.ts`: in
`NodeLookupTree`, `nodes` has each place that is there, an object or a leaf, and
`add`, `delete` and the search work on it. Where texts matter, `Keypath` has
their characters.

**Entries.** A local entry is `[value, syncReferenceTime]`, a remote one `[value,
commitTime]`, `Undefined` the value of a deletion, `Absent` no entry. `updateTime`
is left out: only the default conflict handler reads it, and the model's handler
may answer anything.

**Operations** are atomic actions. The exception is a reset: the head entry's
clearing of the remote store (`LocalDBOperations.ts:496`) is a write of its own,
before the one that stores the answer (`:555`). The process may end in the first
or between the two (`CrashDuringReset`, which leaves any part of the items), or a later
call of storage may fail while the database stays open (`ResetFails`, at the calls in
`ResetFailsAt`). `commitLocalTransaction` is
there by its result: any function from a set of paths that `Assignable` allows to
values. `commitRemoteEntries` gets a batch: at most one revision per key in the
order of their commit times, a head entry or none, and the commit time of the
last entry, which becomes `lastModified`. Of revisions of one batch that share
heritage the earlier one is stored and bars the later one: `IsAccepted` says so
without going through the batch one entry at a time.

**Calls in flight** are records with a phase, one per member of `Puller` and
`Pusher`. Every `await` of `pullRemoteChangessOnce` and `pushLocalChanges` is a
boundary between two actions. `PushStart` picks any outcome of the conflict
handler; `DiscardLocalChanges` reads the keys in one operation and drops them in
another, so that it drops any part of the subtree. `resolveConflicts` called by
itself is a push that fails before it captures.

**The server** (external) is the set of all revisions it ever committed, the time
of the head entry and the latest commit time. An answer has the latest revision of
every key since `updatedAfter`, and the head entry if that is newer.

**Transactions.** `Put`, `Update` and `DeleteNothing` are one operation each, with
one disjunct of `Update` per kind of match: a leaf the transaction wrote, a part of
the value of one, a leaf in storage, a part of its value, a branch. `written` is
`transactionEntries`, grouped by path; its non-empty paths are
`transactionNodeLookup`. `Found` has the oddity of `getEntries`: a deleted leaf is
found (with an undefined value) only if every leaf asked for has a local entry.
`Kept` and `Stays` are `commitLocalEntries` over a list that has a path twice.
`expected` is a history variable, what a reader should see if each operation did
what it says; no action of the code reads it. A process that ends in the middle of
a transaction loses it, which is `Reject` and then `Close`.

**The queue.** A call goes from the queue to a microtask (`scheduled`), to its
handler (`running`), which reads storage and later writes it, to its promise
(`resolved`, `rejected`), to the callback that answers the caller and starts the
next call. `Add` may come between any two of these.

**The worker.** `toWorker` and `toMain` are the messages under way. A task is a
call and its token. `WorkerError` is an exception that ends the process and
raises the event that rejects what is pending; `WorkerExit` an end without one.
Its operations run in the `PromiseQueue` it is composed with.

**Storage.** `call` and `reply` are an adapter's interface, `disk` what outlives the
program, laid out as the adapter does it, `run` how far a call is, `conn` what the
connection remembers. A call is taken up, does its steps (one `setItem`, one SQL
statement, one request), and returns, or fails at any of them and takes back what
it did. `Content` of each adapter is what the abstract stores have: of web storage,
while there is a record, what the record puts back. `KeepsContract` names the calls
that are left out because an adapter does not keep the contract in them.

**Subscriptions.** The program runs from one `await` to the next, so `Send`,
`Answers`, `AnnounceChanges` and `CallHandlers` are the boundaries: an operation is
put into the queue, its answer is taken up, the announcement goes on to the next
observer that needs a read (itself an operation in the queue), and the event loop
calls what was enqueued. `diffs` and `calls` are histories of what was changed and
what was heard.

**Connections.** A request has a phase and the ways to end that its platform gives
it; `handlers` is the list in `SignalSource`. The continuous pull is `loop`, a websocket
`connections[w]` with its queue of messages, which is worked off after the socket
is closed as well. The server's content is reduced to numbered revisions.

**Files.** A file is a sequence of cells instead of bytes: a header with all its fields,
split as they are, text, or the result of AES-CBC under a vector. `NodeLookupTree`,
`Keypath` and `EntrySerializer` share nothing; `Representations` chooses one of them
at the start of a behaviour.

**History variables.** `firstBase` is the value of `lastModified` when a pending
change was first made; `spent` counts edits, foreign writes and faults, which the
bounds `MaxEdits`, `MaxWrites`, `MaxFaults` cap.

**What is allowed** (`Allowed` of `LocalDBSync`) names what the application and the
server may do: `editDuringPush`, `pullDuringPush`, `pushFirst`, `rewrite`, `crash`.
The passing runs have the last two; without the others they say under which
discipline of the application their properties hold, and section 3 says what comes
of each. `Allowed` of `LocalDBTransaction` has `updateDeleted` (updating a leaf that
is deleted) and `writeBack` (changing a pending leaf and writing the pending value
back, in one transaction), `ResetFailsAt` of `LocalDBOperations`, `Faults` of the adapters and of `HTTPClient`,
`CommitFails` and `OldQueueLasts` of `RemoteChanges` likewise.

## 3. What is checked

| run | module, configuration | what it shows | states |
|---|---|---|---|
| `operations` | `MCLocalDBOperations` | the stores, the lookup and the diffs agree, in every order of operations and answers, and through resets cut short | 35 000 |
| `sync` | `MCLocalDBSync` | the remote store is what the server had at `lastModified`; nothing unsent passes for sent; pending changes keep the time they are based on | 2 600 000 |
| `converge` | `MCLocalDBSync`, `Converge` | a client that goes on pulling and pushing ends with nothing pending and the server's content | 56 000 |
| `transaction` | `MCLocalDBTransaction` | a transaction is one step of the store, and does what its operations say | 80 000 |
| `subscriptions` | `MCSubscriptions`, `Subscriptions` | changes are heard, observers end with the present value | 415 000 |
| `dispatch` | `MCWorkerDispatcher`, `WorkerDispatcher` | one operation at a time, in order, each call answered with its own outcome, in a worker or not | 98 000 |
| `storage` | `MCStorageMedia`, `StorageMedia` | each adapter keeps the contract, through failures and the program's end | 217 000 |
| `requests` | `MCRemoteChanges`, `RemoteChanges` | continuous synchronization catches up, and skips or reverts nothing | 359 000 |
| `structures` | `MCRepresentations`, `Representations` | the tree, the texts and the files stand for what the other models take them for | 93 000 |
| `edit_during_push` | `MCLocalDBSync`, `EditDuringPush` | *violated*: an edit during a push is never sent | |
| `record_after_crash` | `MCStorageMedia`, `RecordAfterCrash` | *violated*: web storage cannot be opened after a crash | |
| `deaf_subscriber` | `MCSubscriptions`, `DeafSubscriber` | *violated*: a subscriber to a branch is not told | |

Each property of a passing run has a mutant: a definition with a plausible bug
(a guard dropped, an order swapped, a reset forgotten), named `\* mutant` in
the modules, with which the run fails.

### The properties

*Operations.* `LookupCoversStores` and `LeavesNeverNest` relate the lookup to the
stores: reads go through the lookup, so a stored entry outside of it is lost, and a
leaf below a leaf hides one of the two. `ChangesMatchView` and `EveryChangeAnnounced`
compare the diff an operation returns with what a reader sees before and after. Each has
one exception, which is what the code does: of the keys a reset clears, those that a pending
change shadows are announced as undefined, though readers go on seeing the change; and of a reset that fails
between its two writes nothing is announced, though it makes keys without a pending change
undefined, and does nothing else.
`GhostsComeFromResets`: only a reset leaves leaves without entries.

*Synchronization.* `RemoteIsMostRecentReceived` is what `lastModified` promises to the
next request. `CommittedMeansTransmitted` is what the comparison of commit times in
`commitRemoteEntries` relies on. `NothingOlderThanHead` says a rewrite leaves nothing
behind. `ReferenceTimeIsFirstBase`: what a pending change was based on, which alone tells a
conflict, is not forgotten by later edits, pulls and failed pushes. `EventuallyConverges` is what it is all for.

*Transactions.* `ImplementsStore` is the refinement of section 2,
`CommitsWhatWasAsked` compares what is committed with the effect of the operations
one after another.

*Subscriptions.* `SingleChangesHeard` (an operation of one change, heard by whoever
watches a path it relates to), `ObserversSettle` (once nothing is under way an
observer that was told anything was told the present value last, whatever overtook
what, while every observer stays), `OrderedWithoutObservers` (without reads to wait
for, events come in the order of the changes).

*Dispatch.* `ImplementsOperationQueue` in the worker and `ImplementsRemotely` in front
of it; `ResolvedIsStored`: what the caller is told was stored has been, though not the
reverse; `EveryCallAnswered`, up to an end of the worker that raises no event.

*Storage.* `ImplementsStorageAdapter` for each medium, `NothingLeftOver` (a record of web
storage, an open transaction), `EveryRequestAnswered`.

*Requests.* `StoreIsAsOfLastModified`, `NoHandlerLeft` (a request that has ended has no
handler in the abort signal), `CatchesUp`.

*Structures.* `TreeOK`, `StepsAsLeafSet`, `FindsMatchingLeaves` of the tree,
`TextsStandForPaths`, `LatestRevisionsAreRead`.

### Bounds, and why they are enough

- `operations`: three paths, one below another and one apart; one value and the
  deletion, times 1 and 2, every answer of at most two revisions with or without a head
  entry. This is exhaustive: nothing bounds the number of operations. Two times suffice
  for older, same and newer; two revisions for a pair that shares heritage.
- `sync`: two unrelated paths, one value and the deletion, one pull and one push
  at a time; two edits, two foreign writes or rewrites, one fault (a failure of a pull, of
  a push, of a reset halfway, or a crash). A lost update needs a change, a conflict with it and one more
  event; each cap admits that. Times go as far as the caps can reach.
- `converge`: one edit, one foreign write, one fault, over two values, so that the two
  sides may differ with neither deleted.
- `transaction`: two operations per transaction over `<<"a">>`, `<<"a", "b">>`, `<<"a", "c">>`:
  a leaf with parts or a branch with two leaves. Any number of transactions; the
  states they start from include deletions pulled, pushes, resets and discards. Two
  operations meet: an operation on what an earlier one wrote, or did not.
- `subscriptions`: two operations of one change each, two subscriptions of two handlers
  over a leaf in a branch and one beside it; watched are the root, whose observers
  wait for a read, and a path inside the value of a leaf, whose observers are told from the
  diff. Three operations were checked once without the liveness property (16 000 000 states).
- `dispatch`: three calls, one that runs, one that waits and one that comes at any
  moment; one exception or one end of the worker.
- `storage`: two stores of two keys, transactions of up to two entries in one store
  or in both, one of them possibly a value the medium refuses. An adapter's steps
  treat all entries alike; with two there is a point between them.
- `requests`: two requests and three websockets, three revisions of two keys, two
  failures: one to break a connection, one to break the next.
- `structures`: names of two kinds, three levels deep; texts of up to two
  specifiers with quotes and brackets in them; files of up to three entries, with
  fields of words of four, so that both halves are used.

`sync` and `edit_during_push` permute paths and values (`MCSymmetry`: no definition
tells two members apart), and `sync` and `transaction` leave the diff out of the
state (`MCView`: no step reads it, and their properties do not either). `converge`
has neither: symmetry is not sound for liveness. Deadlock is checked in
`operations`, `sync`, `converge` and `transaction`, which always have a next step; in the others,
what is bounded (calls, operations, revisions, failures) runs out, or a file or
a connection comes to its end.

### What is left out of the passing runs

`KeepsContract` of `StorageMedia` has the calls an adapter does not keep its
contract in, and why the operations do not make them. `ResetFailsAt = {"set"}`: with
`"getLocalEntryKeys"`, a reset that fails to reread the pending keys (`LocalDBOperations.ts:499`)
leaves the lookup empty and the database open, so that what is pending cannot be read until it is
opened again, and may be nested in by what is written; it violates `LookupCoversStores` and `LeavesNeverNest`. The runs `subscriptions` and `deaf_subscriber`
have neither crashes nor failing resets. `Faults` is empty in the
storage run. With `"statement fails"`, a failed statement of SQLite leaves its transaction
open, and every later `set` fails (`NodeSQLiteAdapter.ts:281`); with
`"read transaction fails"`, WebSQL's open waits for ever (`WebSQLAdapter.ts:108`);
with `"rollback fails"`, web storage keeps a record that it will never apply
(the second finding below).
In the requests run, `CommitFails = {"poll"}` and `OldQueueLasts = FALSE`: with
`"socket"`, messages behind one that failed are committed and `lastModified` passes
it by (`Client.ts:147`); with `OldQueueLasts`, messages of a lost connection that are
still queued when the next one has asked are committed over newer revisions
(`Client.ts:140`). The run takes it that a queue is worked off within the delay of a
retry, which is 250 ms at first. With `"body fails"`, the request of Node or of `XMLHttpRequest`
whose body ends early stays pending, and the loop with it. TLC shows each of
these when the constant is changed.

### Fairness

`FairSpecSync`: what a promise or the server drives comes about, weakly fair; the
application goes on calling pull and push, strongly fair, as each may be disabled
while the other is in flight; a process that ended is started again. Nothing
obliges anyone to edit, discard, fail or crash. `WorkerDispatcher`: the event loops of the
two processes (a message is taken up, an operation settles, an answer is sent and
received). `StorageMedia`: the engine takes the next step of a call; for IndexedDB, the
other tab closes in the end and a timer fires. `Subscriptions`: the queue, the
announcement's `await`s and the event loop go on. `RemoteChanges`: the loop goes on,
the server answers a poll when it has news and sends it to an open socket,
what came is handled, a socket being closed closes, an aborted request gets its
event. In all of them failures, and what the application does of its own accord, are
not obliged to happen, nor to stop; where they are capped, a cap says so.

### Where the code and its documents disagree

1. `edit_during_push` (`LocalDBOperations.ts:584`). `setAsRemotelyCommited` moves whatever
   is pending under the pushed keys to the remote store. An edit of one of them made after
   the push read it is marked as committed with the time of the older value: never sent, and
   the server's revision of that time is skipped by the next pull.
2. `record_after_crash` (`WebStorageAdapter.ts:335`). `open` applies the record of an
   interrupted `set` by way of `getObjectStoreNames`, which throws as the database is not open
   yet. The record stays and so does the failure.
3. `deaf_subscriber` (`LocalDB.ts:279`). The loop over a diff forgets what it matched when a
   later entry does not relate to the path.

Others were met while the models were written. They have no run of their own; the
constant or the definition named reproduces them.

- A pull that runs beside a push and commits before the acknowledgement is overwritten by
  it with the older revision (`LocalDBOperations.ts:586`; `"pullDuringPush" \in Allowed`, violates
  `RemoteIsMostRecentReceived`). Two pulls in flight may commit in the reverse order (`:553`).
- A change made before the first pull keeps reference time 0 only until it is edited
  after that pull; then a conflict with what was pulled goes unnoticed (`:419`; `EveryConflictReported`,
  violated in the `sync` run's instance).
- What was pushed before the first pull survives a rewrite (`:485`; `"pushFirst" \in Allowed`,
  `NothingOlderThanHead`).
- A reset puts the paths it cleared into the lookup again (`:561`): paths that are no leaves
  bar leaves above and below them until the database is opened again. It also announces as
  undefined paths whose pending change is what readers see (`:492`; the exception in `ChangesMatchView`), where
  `docs/API Reference.md:560` has "Remote changes that are shadowed by conflicting local changes would not
  be announced to the subscriber".
- A reset that has cleared the remote store and then fails (`:555`, for want of room, say) takes from readers
  what was not pending and tells nobody; the next pull resets again, but finds nothing to clear, so that what the server no
  longer has is never announced as undefined (the exception in `EveryChangeAnnounced`).
- An observer may be left with an old value when another one leaves: the announcement of a
  first commit waits for the value of the observer of a branch; that one unsubscribes, so that the
  announcement of a second commit waits for nothing and tells an observer of a leaf the new
  value; then the first goes on and tells it the old one, from its own diff (`LocalDB.ts:287`; drop
  `ObserversStay` from `ObserversSettle`). `docs/API Reference.md:515` calls it "the new value for the path".
  The same happens when a branch becomes a leaf (two keys, one above the other; three operations): `b.x` is put and
  discarded, and `b` is put; the announcement of the discard waits for the value of an observer of `b`, that of the
  last commit does not, since its diff has it, and an observer inside of `b.x` is told the new value first and undefined last.
- A branch with a deleted leaf cannot be read once another leaf of it has no pending entry
  (`:139`; `BranchReadThrows`).
- A change of a pending leaf that a later operation of the same transaction takes back is
  committed, and the taking back is not (`:413`; `"writeBack" \in Allowed`, `CommitsWhatWasAsked`).
- An update of a deleted leaf is dropped or rejected depending on where the deletion is from
  (`:311`; `"updateDeleted"`); updating a branch with an empty object is rejected (`:339`, `:359`);
  an update of a leaf to its value makes it pending (`:314`).
- A tie, a change based on the very revision in the remote store, is reported as a conflict
  (`:712`), which "updated after" (`docs/API Reference.md:705`) excludes. `ConflictingKeys` has the code's
  comparison; no property takes a side.
- `unsubscribe` drops the handlers subscribed later, too (`SignalSource.ts:22`), so that an
  abort may miss requests that are active, where `docs/Client API Reference.md:184` says "Abort all
  active requests".
- The result of the checksum verification is not used (`EntrySerializer.ts:272`).
- A key of 65536 bytes or more wraps the field of its size (`EntrySerializer.ts:101`), and so does
  a shorter one that encryption pads to as many; the model assumes keys that are shorter with a block added
  (`SizeAssumption`).
- Names every object has a property of (`constructor`, `toString`) are found in the lookup
  from the start; the models leave them out.

## 4. What is proved

TLAPS checks every theorem below for any number of paths, values, calls and operations: for
any constants that satisfy the assumptions named in the modules. These are

- of data: sharing heritage is symmetric and irreflexive (`HeritageAssumption`; in `Subscriptions`
  it is that of sequences, `PathAssumption`); times are positive and the markers are no values
  (`TimeAssumption`, `ValueAssumption`, `AbsentAssumption`); there are finitely many keys
  (`FiniteAssumption`);
- of what comes from outside: an answer has one revision per key, in the order of commit times
  (`BatchesAssumption`); what is called, asked for, allowed or fails is one of the things the
  code has cases for (`CallsAssumption`, `RequestsAssumption`, `ScopesAssumption`, `AllowedAssumption`,
  `MediumAssumption`, `PlatformAssumption` and the like);
- of bounds: a cap is a natural number.

A theorem that needs more, a discipline of the application or the absence of a failure, has it as
a hypothesis in its statement.

**Operations** (`LocalDBOperations_proofs`). `TypeCorrect`, `StoredEntriesReachable` and
`NoNestedLeaves` come from `InvStore`, the conjunction of the types and the two
properties. Neither is inductive alone: a pulled revision is checked against the
lookup, so that nothing stored is nested only as long as the lookup covers what is stored;
and adding a path to the lookup drops what is above and below it, so that the lookup
goes on covering the stores only as long as nothing is nested. `DiffsTellTheView` (of the entries of a diff and of the keys a reset cleared) and
`DiffsAreComplete` need the types alone, and hold of resets that fail in any way. `GhostsOnlyFromResets` is proved of each step from
`InvStore`. What rests on `InvStore` has the hypothesis `RereadSucceeds`, that a reset does not fail between emptying the lookup and
reading the pending keys for it: where it does, what is pending is out of the lookup's reach, and the next put above or below it
nests. It is a hypothesis of the theorems below as well that build on these.

**Synchronization** (`LocalDBSync_proofs`). `SyncTypeCorrect`, with everything allowed.
`OnlyTransmittedIsCommitted`, for one push at a time and no edits while it is in flight:
the invariant `InvTransmitted` follows a change from its capture (what is pending is what
was captured) through the request (what is pending was committed by the server at that time) to
the acknowledgement. `ReferenceTimesKept` needs no discipline at
all. `SyncNestsNothing` and `SyncKeepsReach`, for pulls and pushes that do not overlap each
other: `InvNesting` adds to `InvStore` that the entries a conflict handler was asked about are
in the remote store until its answer is written, so that writing it without the check a put
makes (`LocalDB.ts:579`) nests nothing. It is about any heritage between the paths, where the `sync` run has
two unrelated ones. `NothingSurvivesRewrites`, for one pull at a time, no push beside it and none before the
first: `InvHead` says of each answer in flight that, if it has seen the head entry, it brings it or meets a
store that has, and of each accepted push that a rewrite it was overtaken by has not been pulled yet. Without
any one of the three the property fails. `WhatWasReceivedIsHeld` adds one push at a time, no edits while it
is in flight, and paths that share no heritage: `InvReceived` says that an answer in flight that no rewrite
has overtaken is all that the server has between `lastModified` and the answer's last entry, that the history has one revision
of a key at a time, and that an accepted push is later than `lastModified`. With the three invariants
before it, an answer leaves nothing out: what is skipped because its commit time is known has the value that is there
(`CommittedMeansTransmitted`). TLC finds the property violated when any one of the six about paths, pulls and pushes is dropped;
of nested paths, a revision that shares heritage with a leaf is refused, and not asked for again.
`SyncImplementsStore`, for pulls and pushes that do not overlap each other: what the other modules and the
theorems of `LocalDBOperations` take synchronization for. `InvBatches` says that of the server's history each write
is of paths that share no heritage, and that each answer in flight is a batch; `InvNesting` that what a handler
resolves can be written. `SyncTellsTheView` and `SyncAnnouncesChanges` follow from it, and the theorems about the store.

**Transactions** (`LocalDBTransaction_proofs`). `TransactionsImplementStore`: the invariant `InvTx`
says that what a transaction has written so far is assignable, which each of its operations keeps
by its own check; the commit is then the abstract step. `TransactionsNestNothing` carries
`NoNestedLeaves` over. `TransactionsCommitWhatWasAsked`, for an application that neither updates what is deleted nor writes
a pending value back (`Allowed = {}`; section 3 says what happens otherwise), for trees as values, and finitely many leaves: `InvMeant`
says that after each operation the value pending for a leaf (the last one written, or else what a reader sees) is
what the operations so far mean. By `OneMatch` an operation finds one leaf at the path or above it, or leaves below it. What
is left is about patches: one with what is there already changes nothing (`PatchSame`), which is why a write that changes
nothing can be left out; and the parts of some leaves put together have nothing at another leaf (`BranchElsewhere`), which is why a
deleted leaf below a branch can be passed over. `getValueByKeypath`, `patchObject` and the composition of a branch are folds, and
the lemmas before say what these compute, step by step.

**Queue** (`WorkerDispatcher_proofs`, its first part). `MutualExclusion` and `QueueRefinement` from `InvQueue`, which
says of each call where it is and that at most one is beyond the queue.

**Worker** (`WorkerDispatcher_proofs`). The queue's invariant holds in the worker, and `InvWorker` adds what
connects the two sides of the channel: a token is in the channel once, and only before its operation is queued; the
responses under way are those of the last operations that settled, in their order; and one that says it succeeded is of an
operation whose effect is stored. `AnsweredIsStored` is the caller's side of it. `RemoteRefinement` is the same abstract
queue seen from the main program: what is in the channel is the end of the abstract queue.

**Requests and continuous synchronization** (`RemoteChanges_proofs`). `InvHTTP`: a handler is in the signal
source's list once, and only while its request is under way, so that removing the first of its
kind removes it; hence `NoHandlerIsLeft`. `InvLoop` says where the loop is for each state of its request and websocket.
`StoreFollowsLastModified` is from `InvStore`: of all websockets, only the loop's is open or has messages waiting, and
these follow one another without a gap from `lastModified` to where the server got. It is so while committing a
message does not fail (`"socket" \notin CommitFails`) and no queue lasts longer than the wait before a retry (`~OldQueueLasts`);
section 3 says what happens otherwise.

**Structures** (`Representations_proofs`). Of the lookup: `TreeStaysTree` (`TreeOK` is inductive by itself),
`TreeImplementsLeafSet`, `SearchIsExact`. They rest on "being above" being a strict order in
which what is above a path is a chain: of two leaves that could bar a path, one would be above
the other. Of files: `EntriesComeBack`, for files of any length and entries whose sizes and times the fields
have room for (`SizeAssumption`). The invariant, `FileOK`, is that there are offsets that divide a file into pieces, each laid
out for the entry written. By induction over the passes of the loop, a part of a file that ends with a piece is
read as these pieces (`LoopCutsPieces`), and one that ends elsewhere is refused (`CutPiece`). Compaction goes by the
bytes of keys, of which an encrypted and a plain entry of one key have different ones; that the pieces it keeps
stay in the order of the file is what makes the last of the two the last (`LatestOfCompacted`).
Of texts: `TextsAreUnambiguous`, for paths of any length and names of any letters, quotes, brackets and digits among
them; numbers are natural ones, which a template string writes in digits only (below 10^21). An escaped name is in pairs of
quotes (`EscapedComesBack`), so that a quote which is not followed by another one is its end, and the expression of
`parse` has one match only, the text of the first specifier, whatever follows (`SpecifierIsMatched`). By
induction over the passes of the loop, a text that starts with the text of a path is read as that path first
(`PathsAreReadOff`); that prefixes of texts are those of paths follows.

**Subscriptions** (`Subscriptions_proofs`). `SubscriptionsTypeCorrect` from `InvWatch`: what waits in the
queue, in the answers and in the event loop is of operations done, about paths that are watched, and
at most as many operations were done as were sent and wait no more.
`SubscriptionsKeepTheStore`: whatever the program awaits, the database takes the steps of
`LocalDBOperations` and no others, so that what is proved of these holds with subscribers too.
`EventsInOrder` from `InvOrder`: as long as nobody observed, no announcement waits; then what is answered is
in the order of the commits, what was announced is not after it, and what was called not after what was
announced.
`ObserversEndUpToDate` from `InvSettle`, for keys none of which is above another and answers without a head entry (the
run's instance; section 3 says what happens otherwise). What is under way is seen as one line of jobs: the answers not
taken up, then the queue. A job has a way to go, from one place of the list of watched paths to another. `LaterTrails` says
that of two changes of a key the later is announced wherever the earlier still is, and after it, which is
why waiting does no harm: both wait at the same observed branches, and the queue keeps their order. `LeavesTold`: an observer inside of a
leaf knows the value of one of its changes, and all later ones are still to come to its place. `BranchesTold`: an observer of a
branch knows its present value, or an answer brings it, or a read of it is still to be made. `LatestIsSeen`
connects the diffs with what readers see. That an observer is not passed over needs that observers stay
(`ObserversStay`), that no read throws, and that a diff is of one change; these are hypotheses of the property itself.

**Storage** (`StorageMedia_proofs`). `Inv` has one part per medium, which relates how far a call is (`run`)
to what it has done to the medium. For web storage (`InvLocalStorage`) that is the roll-back record: while a
`set` writes, what the record puts back is what the stores contained when it began, so that its
writes, a failure among them, the roll-back and a crash change nothing of `Content`, and the removal of the
record is the one step of the contract. For SQLite the rows in an open transaction are not yet
content; for LevelDB a batch is; for IndexedDB a request in a transaction, an upgrade and another tab's hold on the
database are told apart. `TypeCorrect`, `NothingIsLeftOver`, `ImplementsContract` (each step of each
adapter is one of `StorageAdapter`, or a stutter) follow. They have two hypotheses, `RollbackSucceeds` and
`StatementsSucceed`: the failures no adapter recovers from (section 3). TLC finds the second and the third
violated without them.

Only model-checked: everything about liveness (`EventuallyConverges`, `EveryCallAnswered`,
`EveryRequestAnswered`, `CatchesUp`, `SingleChangesHeard`), which is out of the prover's reach.
Each invariant and each action property of the passing runs is stated by a theorem.

## 5. What is not modelled

- The cache of connections by name: closing one `LocalDB` closes the others of that name, and
  a push in flight goes on into a connection opened meanwhile (`LocalDB.ts:81`, `:616`).
- A failed `open` and its unawaited `close` (`LocalDBOperations.ts:95`).
- Reads other than those properties compare (`hasEntity`, `getLeafPaths`); `addListItem`, a put with a
  random name; `updateTime`, which only the default conflict handler reads.
- IndexedDB's indexes and key ranges, compression, checksums; that JSON, UTF-8 and AES give
  back what they were given.
- `compare`, `flattenObjectTree`, `diffObjects` and `patchImmutableObject` of `Keypath`, which the database does
  not use.
- `destroyRemoteData`, the building of URLs, headers and bodies of requests.
- The containers and pure libraries (sequential, and tested against reference vectors), `AppEvent`,
  platform glue, the vendored promise polyfill, the editor and the benchmarks.

## 6. What comes next

1. The cache of connections, with `LocalDBSync` twice over one set of stores.
