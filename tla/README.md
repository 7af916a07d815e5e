# lisk-db in TLA+

lisk-db is a key-value store for blockchain state: RocksDB below, a sparse
Merkle tree beside the data, one diff per version so that a version can be taken
back, and JavaScript classes on top. The core is Rust (`src/src/`); the classes are
`src/*.js`. This directory holds its models, the TLC runs that check them and the
TLAPS proofs about them.

Run a check with `tlc -config StateDB_rules.cfg MCStateDB`, a proof with
`tlapm StateDBProofs.tla`. Every run takes less than three minutes, every proof
module less than ten.

## 1. The system

### Components

| component | code | state | operations |
|---|---|---|---|
| StateWriter | `state/state_writer.rs`, `diff.rs` | cache of entries (value at snapshot, value, dirty, deleted), saved copies, a counter | cache, get, update, delete, get_range, snapshot, restore, get_hashed_updated, commit to a batch and a diff |
| StateReadWriter | `state_db.js`, `reader_writer/*.rs` | one RocksDB snapshot on a thread of its own, a queue to it, a shared StateWriter | get, set, del, range (promises); snapshot, restoreSnapshot, close (synchronous) |
| StateReader | `reader_writer/reader_db.rs` | a snapshot thread | get, has, iterate, close |
| StateDB | `state/state_db.rs`, `state_db.js` | buckets STATE, SMT, DIFF, CURRENT_STATE | commit, revert, finalize, getCurrentState, prove, verify, calculateRoot, checkpoint, close |
| SparseMerkleTree | `sparse_merkle_tree/smt.rs`, `smt_db.rs` | subtrees of height 8 by hash | commit |
| SMT proofs | `sparse_merkle_tree/smt.rs` | none | prove, verify, calculate_root, remove_keys_from_proof |
| InMemorySMT | `in_memory_smt.rs`, `sparse_merkle_tree.js` | a locked map of subtrees | update, prove, verify, verifyInclusionProof, verifyNonInclusionProof, calculateRoot, removeKeysFromProof; a thread per call |
| Database | `database/db.rs`, `db_base.rs`, `database.js` | RocksDB and a DB thread with a queue | get, set, del, write, iterate, clear, checkpoint, close |
| InMemoryDatabase | `database/in_memory/` | an ordered map | the same, synchronous, and clone |
| Batch | `batch.rs` | a list of writes | set, del, with a bucket prefix |
| Codec | `codec.rs`, `diff.rs` | none | varint and length-prefixed fields |
| Iteration and options | `database/utils.rs`, `database/options.rs`, `iterator.js` | none | start, direction, end and limit of a scan |
| FFI and utilities | `lib.rs`, `utils.rs`, `consts.rs`, `traits.rs`, `types.rs` | none | conversions |

### Who runs where

Three kinds of thread touch a state database.

* **The JS thread** runs `commit` and `revert` from beginning to end. Each makes
  two separate writes to RocksDB: one batch for STATE, SMT and DIFF, then a put of
  CURRENT_STATE.
* **One thread per reader and read-writer** takes a RocksDB snapshot when it first
  runs, then serves messages in order. It only reads; its answer travels back over
  the neon channel as a closure that runs on the JS thread, locks the StateWriter,
  changes it and settles the promise.
* **The DB thread** of a database runs the closures sent to it, in order. write, clear,
  iterate, checkpoint and finalize do their work there, on a clone of the connection
  that the closure was given when the call was made. get, has, set, del and commit use
  the connection on the JS thread, inside the call; only their answer takes the way
  over the DB thread, so a set is visible before the writes queued ahead of it.

They share RocksDB (every write is atomic by itself), per read-writer the mutex around
its StateWriter, and per Batch the mutex around it. There is no other lock. `close()`
drops the connection of the object at once and sends a message that ends the DB thread
behind the calls already queued; RocksDB lets go of its files when the last clone is
gone.

An in-memory database has no thread: each call runs to its end on the JS thread.

An in-memory tree has a thread per call. An update or a proof locks the map of
subtrees from beginning to end, so calls take effect one after another, in the order
in which their threads get the lock; the other calls touch no shared state.

### What is hard

Calls that take effect later than they are made; synchronous operations that
overtake them; two writes where the documentation speaks of one state; a
background scan and delete racing commits; panics that poison a mutex; a u32 at
zero; a close that drops the connection while closures hold clones of it; a clear that
scans and removes in two steps; default bounds of an iteration that know nothing of
buckets; a tree update that deletes subtrees other roots may still use; a list of
sibling hashes that one algorithm writes and another consumes by position alone; and
two pairs of loops (`get_hashed_updated` with `commit`,
`revert_hashed_update` with `revert_commit`) that must agree although they test the
same flags in another order. `PROJECT.json` lists each hazard at its line.

### What makes each part correct

* StateWriter: a commit writes and hashes exactly what its caller saw; the diff
  takes both STATE and tree back.
* StateReadWriter: to its caller it is a private map with checkpoints, whatever
  interleaves; calls are answered; range shows the merged view.
* StateDB: the root is the root of STATE; the tree of the current root is complete;
  every version not finalized can be undone exactly; finalize deletes what it should;
  a commit cut off by a crash can be taken back, with the root it was about to answer,
  until something else is written.
* SparseMerkleTree: the root depends only on the contents; proofs verify exactly for
  what they claim.
* Database: every call takes effect once, between call and answer, and is answered
  once; close() loses nothing sent before it, never makes the DB thread panic and
  releases the files; a clear between two bounds removes what is there, and only that.
* Iteration, InMemoryDatabase: the rows are those between the bounds, in order, up to
  the limit, in both databases and inside a bucket; where the mock's default bounds end a
  walk earlier than RocksDB does, its rows are the first ones of RocksDB.
* Codec: decoding undoes encoding, at every boundary of a varint.

## 2. Modules

| module | models | how |
|---|---|---|
| `StateWriter` | `state_writer.rs`, `diff.rs`, the handlers' effect on a cache, the tree by its contents | operators only, so that two state machines can share them and lemmas about them are stated once |
| `ReadWriter` | one StateReadWriter | an action per message, reply and synchronous method |
| `ScratchMap` | what a read-writer promises | a map with checkpoints; no cache, no messages |
| `StateDB` | the buckets, several read-writers, commit, revert, finalize, crashes | an action per write to RocksDB and per handler |
| `VersionedStore` | what the database promises a caller that keeps its rules | push, pop and trim of a version history |
| `Iteration` | `database/utils.rs`, `options.rs`, the loop of `js_iterate`, `get_key_value_pairs`, `compare` | operators: the order of byte strings, where a walk starts and stops, the rows it yields |
| `StoreCalls` | `db.rs`, `database.js`, `batch.rs` | operators: the requests of a database, what each does to the contents and answers |
| `Database` | `db_base.rs`, `db.rs`, the DB thread, `close` | an action per call, per turn of the thread and per answer; extends StoreCalls |
| `LinearStore` | what a database promises | each call acts in one step between call and answer; a clear looks first |
| `InMemoryDatabase` | `in_memory_db.rs` | an action per operation, clones included; its iteration compared with that of RocksDB |
| `Codec` | `codec.rs` | operators: varints, keys, byte fields, lists of them |
| `DiffCodec` | the encoding of `diff.rs` | operators, and the round trip of every diff that ReadWriter reaches |
| `SparseMerkleTree` | `smt.rs`: hashes, nodes, bins, subtrees, the hasher and calculate_subtree; `smt_db.rs` | operators; recursion as functions, so that it can be proved about |
| `InMemorySMT` | `in_memory_smt.rs`; `smt.rs`: commit, update_subtree, update_node, update_same_height | the map of subtrees; an update from any root with an action per call of update_node and its call stack; the properties of the tree |
| `SmtProof` | `smt.rs`: prove, verify, calculate_root, remove_keys_from_proof; `utils.js`, the checks of `sparse_merkle_tree.js` | operators, some RECURSIVE, for TLC only; extends SparseMerkleTree |
| `SmtQueries` | the proof calls of `in_memory_smt.rs` | extends InMemorySMT and SmtProof: the properties of proofs, in every state between updates |
| `MCReadWriter`, `MCDiffCodec`, `MCStateDB`, `MCDatabase`, `MCInMemoryDatabase`, `MCInMemorySMT` | | instances for TLC: keys, option sets, symmetry |
| `NaturalSets` | | lemmas about sets of numbers: least and greatest members, induction, recursion |
| `IterationProofs` | | lemmas about `Iteration`: the order of byte strings, ranks, what a walk yields |
| `StateWriterProofs`, `ReadWriterProofs`, `StateDBProofs`, `DatabaseProofs`, `InMemoryDatabaseProofs`, `InMemorySMTProofs` | | lemmas and theorems |

### StateWriter

A store is a total function from keys to values with `None` for an absent key. A
cache entry is the Rust struct, flag for flag. `Upsert`, `Erase` and `Load` are the
bodies of the reply handlers of `read_writer_db.rs`; `CommitState`, `CommitDiff` and
`GetHashedUpdated` are the loops of `state_writer.rs`; `RevertState` and
`RevertHashedUpdate` those of `diff.rs`. A Rust HashMap keeps at most one entry per
key, so the lists of a diff hold a key at most once and become functions.

The tree is represented by what its root commits to: hashing is taken as collision
free, so `Root` is the map from keys to hashed values, and `SmtCommit` says what an
update makes of it. The digest of a value is a record, never the value itself: a
place where code hashes twice or forgets to hash would not type-check in the runs.
The key hash is a renaming of tree positions and is left out.

### ReadWriter

`queue` is the `std::sync::mpsc` channel to the snapshot thread, `replies` the closures
posted to the JS event loop. `Issue` is the JS method, `Serve` one turn of the
thread's loop, `UpsertKey`, `GetKeyWithWriter`, `DeleteKey` and `RangeWithWriter` the closures.
The snapshot does not change, so a reply carries the call and the value read is
looked up when it runs. `Snapshot`, `RestoreSnapshot` and `Close` run at once on the
JS thread and overtake queued calls. `Serve` on Close drops the queue with the
receiver, as the thread's return does. `RangeWithWriter` keeps the row counter of
`is_key_out_of_range`, the merge with `get_range` and the JS sort and splice; without
a bound it panics and poisons the mutex, and `PanickedReply` is every later reply.
`has` is `get` with another answer.

### StateDB

One variable per bucket. SMT is abstracted to `tip`: an update deletes the subtrees
it replaces, so of all roots only the one written last is sure to be complete; an
update on any other root may answer NotFound or may succeed, and the model allows
both. `window` is the time between the two writes of a commit or revert: nothing
else runs on the JS thread then, the DB thread and the snapshot threads do, and a
crash may come. `Revert` keeps the order of the code: the batch is written, then
version - 1 is computed in u32 (`OverflowChecks` chooses the build), then
CURRENT_STATE is put. `cleaner` is one finalize request; its scan and its delete are
two steps of the DB thread.

`Commit` starts from the root in CURRENT_STATE. `Revert` has its root from the caller, who
gives the current one or, after a crash, the one the cut-off write was about to store
(`RevertRoots`; a node has it from its block). The difference matters: the batch that was
written has deleted the subtrees it replaced (smt.rs:1113), so a revert from the root in
CURRENT_STATE may then answer NotFound, and the model has both outcomes
(`RevertNothing`, `TreeMayFail`).

`past` and `torn` are history variables: the contents before each version, and what
was cut off between its two writes. No action's guard reads them, except through the
two rules below and the choice of a root for revert. `torn.undoable` ends with the next
write and with the finalize that deletes its diff (`Spoiled`, `DoomsTorn`).

The code accepts any version, any order and any stale writer. `Disciplined` adds the
rules a blockchain node keeps and the code does not enforce:

* `FreshCommit`: commit what was read from the contents it is applied to, under a
  version above every one that can still be reverted and not below a height being
  finalized; delete no key the same writer has overwritten; after a crash repair
  first.
* `FreshRevert`: revert the newest version, none below a height being finalized;
  after a crash the cut-off commit first, with the root it was about to answer.

What holds without the rules is stated and proved without them.

### Iteration

A key is a sequence of bytes, with the prefix of its bucket where the database has
buckets. `IteratorKeys` is the mode of `get_iteration_mode`: start, end, or from a bound
in one direction, the missing bound filled with as many 0 or MaxByte bytes as the other
one has. `IsKeyOutOfRange` stops the walk, and looks only at the bound in the direction
of the walk and at the row counter. `Scan` is the loop over both. `GetKeyValuePairs` is
the same question in the in-memory database: filter, sort, cut. `ExpectedRows` is what
an iteration owes its caller, written down without either.

### StoreCalls, Database, LinearStore

`store` is RocksDB, `conn` whether the object still has its connection, `queue` the
channel to the DB thread, `replies` the closures posted to the event loop. `call` keeps,
per promise, how far its call is (`phase`), the request, whether its closure holds a
clone of the connection (`holds`), whether it has been carried out (`acted`) and its
answer. `CallNow` is a handler that acts inside the call, `CallLater` one whose closure
acts on the thread. `Send` fails once the thread is gone, and the promise is rejected.
`ServeAnswered`, `ServeScan`, `ServeCall` and `ServeEnd` are the turns of the thread,
`Deliver` the event loop. A closure made after close() was given no connection and would
panic the thread (`PanicsOn`): the action is there, and that it never fires is proved.

* A clear without two bounds is `js_clear`: it walks the database and then writes a
  batch, and set and del on the JS thread fall between the two. `ServeScan` is the first
  half; it makes the call the removal of the keys it saw. With two bounds `database.js`
  iterates, collects the rows and writes a batch of its own when the stream has ended
  (`ClearWrite`): two messages, and close() may come between them.
* A Batch is handed over by reference. The thread reads it when it carries out the
  write, so `Effect` of a write looks at `batch` then, and `ChangeBatch` may come before.
* With `kind` "State" the same module is what a state database does through this
  object: get and has with the prefix, commit as one batch over all buckets, iterate,
  checkpoint, close. A checkpoint answers the contents it copied.
* `fresh` is a history variable: which keys were filled while a clear was under way.

`LinearStore` has no thread, queue or connection. `LinearCalls` maps a call to "open",
"done" or nothing; a refused call and a call dropped behind Close never act.

### InMemoryDatabase

The map per handle; `Clone` gives a handle of its own. clear() and close() are the same
function and ignore options. get, has and iterate change nothing: the properties
evaluate iteration in every state for every option record, in memory, in a RocksDB with
the same keys, and in a RocksDB with these keys under STATE and others in the buckets
after it (`OtherBuckets`).

### Codec, DiffCodec

Bytes are numbers. A varint byte holds a digit below `Group` and a flag that another
byte follows; `Group` is 128 in the code and 4 in the run, which brings the boundaries
of one and two bytes down to short payloads. A reader is data and index, as in the code.
`Place[n]` is what a shift by n groups multiplies by, and `Readable` the bound below which
a value can be read back: 2^32 in the code, whose lengths are u32.
`ReadOnlyBytes` keeps the length test of the code, which compares with all of the data
and not with what is left of it: a slice past the end is then a panic, not an error.
`DiffCodec` extends `ReadWriter`, so that the diffs it encodes are those of every cache
a writer can have, with every assignment of payloads to keys and values.

### SparseMerkleTree, InMemorySMT, SmtProof, SmtQueries

A key is a sequence of bits, a hash is the term that was hashed: no two terms have one
hash, and every root can be compared with a reference written down directly
(`MerkleRoot`, `RootBelow`). A subtree is the sequence of its bottom nodes with their
depths, as `structure` and `nodes` are; its encoding keeps exactly that, so a stored
subtree is that sequence. That takes for granted that the value of a leaf has 32 bytes:
`SubTree::new` reads a leaf as key and HASH_SIZE bytes (smt.rs:670). A state database
hashes its values first; an in-memory tree stores what its caller gives, and with values of
another length a subtree could not be read back. Such callers are not modelled. The bins of an update are the sets of keys with one index
(`Slice`); a HashMap gives each key once. `HasherExecute` and `CalculateSubtree` are the
two loops over the layers of a subtree; `GetParentNode` keeps the queue of unfinished
parts and its two ends. Loops are recursive functions over the layer or the position.

`InMemorySMT` is the recursion of `commit` as a state machine. `stack` holds the calls of
`update_subtree` in progress, each frame the nodes that are done, those to be done and the
next bin. One step is one call of `update_node`: `KeepNode`, `SetSingleNode`, `SplitNode`
are its early returns and its own recursion, `EnterSubtree` and `LeaveSubtree` go down into
the next subtree by `update_same_height` and come back. Stubs are deleted and subtrees
stored where the code does it, so that what an update has done before it fails
(`FailUpdate`) is kept, as it is in the in-memory map. The mutex is held throughout:
`Begin` needs an empty stack. `StoreThenDelete`, the form with the last two operations
swapped, is there for comparison only.

Beside the map it keeps the history of what every answered root stands for (`claims`) and
the root that updates have been chained to (`tip`). An update may start from any answered
root: that covers calls that overlap, whatever order their threads got the lock in, and
callers that hold on to old roots.

In `SmtProof` a query carries its bitmap as Booleans, deepest level first; the bytes
of a bitmap are the padded bits (`BoolsToBytes`, with `ByteBits` for 8), because
verify looks at the first byte. Instead of node indices the node that is followed up
the tree is marked. Where the code reports an error, an operator answers with `ok`
FALSE; the texts are left out. Prove, verify and the rest change nothing, so the
properties of `SmtQueries` evaluate them in every state between updates for every root and
every list of keys.

What this shows also carries the abstraction of `StateDB`: `RootsAreReference` is what
lets `StateWriter` represent a root by its contents, and `TipIsComplete` what lets
`StateDB` trust the last root written; both are proved. (`SmtDB` of a state database
collects the same changes in a batch and reads only what was stored before. An update
never reads a subtree it has itself stored: that of another place has another hash, by
`RootTells`.)

## 3. Runs

| run | instance | shows |
|---|---|---|
| `writer` | 2 keys, 2 values, 1 call at a time, 1 snapshot; range in both directions with limits -1, 0, 1, 2 and none; 3 payloads | commit and revert of every cache; the merge of snapshot and cache in range; every diff survives its encoding; refinement of ScratchMap |
| `async` | 1 key, 1 value, 2 calls in flight, close, panics | calls in flight are settled; refinement with overtaking |
| `any` | 1 key, 2 values, 1 writer, versions 0 and 1, 1 crash, no rules | root and STATE, subtrees, checkRoot |
| `rules` | 1 key, 2 values, 1 writer, versions 0 to 2, 1 crash | diffs lead back; a cut-off commit whose diff is there leads back with the root it was about to answer; refinement of VersionedStore; finalize is exact and is carried out |
| `smt` | 5 keys of 6 bits, subtrees of height 2, 3 updates from any root, lists of up to 3 keys; 65 984 states | roots, subtrees and proofs of the sparse Merkle tree |
| `database` | 2 keys, 1 value, 2 calls in flight, both kinds of database | calls tracked and answered once, no panic, files released, calls before close() settled; clears complete, and between two bounds exact; refinement of LinearStore |
| `memory` | 6 keys of 3 lengths, 2 handles, 200 option records | iteration in RocksDB, in memory and in a bucket against the rows asked for |

Five further runs state what a comment or a declaration says and the code does not do;
TLC shows the shortest way there:

| run | what happens |
|---|---|
| `diff_originals` | set, del of an existing key: the diff keeps the overwriting value |
| `crash_window` | a crash between batch and CURRENT_STATE leaves the old root |
| `late_snapshot` | a commit after newReadWriter() is part of its snapshot |
| `bucket_leak` | iterate() of a state database without bounds returns rows of SMT, DIFF and CURRENT_STATE, their first byte cut off |
| `clear_one_bound` | clear() with gte and without lte empties the database (db.rs:44 announces "Options for range") |

Others are part of the models without a run of their own:

* finalize(0) returns without calling its callback, so its promise stays pending
  (`Finalize`; in `rules`).
* range without `gte` or `lte` panics in the reply and poisons the writer's mutex
  (`RangeWithWriter`, `PanickedReply`; in `async`), although both are optional in `types.d.ts`.
* A row deleted in the writer uses up the limit of range (`RangeWithWriter`; in `writer`, where
  `RangeMatchesView` allows for it).
* A call made after close() and before its thread has taken the message is neither
  answered nor refused (`Serve` of ReadWriter; `ServeEnd` of Database): `InFlightSettles`
  speaks of the calls ahead of Close only.
* revert of version 0 panics between its two writes in a debug build (`Revert`; in
  `any`), which leaves STATE and CURRENT_STATE as a crash there does; a release build
  stores version 2^32 - 1.
* clear of an in-memory database ignores its options altogether (`Clear`).
* A limit of -2 gives no rows in RocksDB and all rows in range in memory
  (`IsKeyOutOfRange`, `GetKeyValuePairs`): `MockShowsNoMore` says so, the other properties
  of `memory` speak of limits from -1.
* revert after a crash inside a commit, with the root in CURRENT_STATE, may answer
  NotFound (`RevertNothing`; in `rules` and `any`).
* With one bound the default for the other is as long as the given one: rows with longer
  keys are missing, and in a state database the walk can go on into the next bucket
  (`OneBoundExact` and `WalkStaysInBucket` say when it does not).

### Bounds

* Keys: the handlers, the commit loops and the diff treat each key by itself, so one
  or two keys reach every combination of flags. range compares keys and counts rows: two
  keys give a stored and a cached row in either order and a limit that cuts the second.
* Values: two tell "original" from "overwritten". `Values` is a symmetry set where
  only safety is checked.
* `Promises` bounds calls in flight, `MaxQueue` the channel, `MaxSnapshots` the u32
  counter of snapshots: two calls suffice for one to be overtaken and one to be
  queued behind Close.
* `MaxVersion` plays u32::MAX. Three versions give a newest, a middle and a finalized
  one; two are enough where diffs need not chain.
* One writer goes stale by its own earlier commit, since it may be committed twice;
  `late_snapshot` needs two.
* `MaxCrashes` is 1: a crash, the repair, and everything after it.
* Three layers of subtrees give a top, a middle and a bottom one; the five keys put two
  leaves into one bottom subtree, a second subtree into the middle layer and a second
  stub into the top one, so that stubs, collapsing subtrees and queued parts all occur.
  Heights 4 and 8 of the code change only how many levels one subtree holds. Three
  updates are the fewest with an update from a root that another update has replaced.
* Two keys to a list reach repeated keys, siblings, keys at different depths and a key
  proved absent by another's leaf; three are needed to remove one and keep two. A proof
  of no keys is accepted for no root (calculate_root answers an empty root), so lists
  are not empty. Keys are removed from inclusion proofs only: removing a key that an
  empty node proves absent adds the empty hash to the list, and the rest no longer
  verifies; no document says that it should.
* `database`: one key of STATE and one of SMT, so that a bound can cut one off and a
  commit writes two buckets; clears with both bounds, with one and with none; two promises are enough for a set to overtake a queued
  clear or write, for close() to come between the halves of a clear, and for a call to
  be queued behind Close. `MaxQueue` bounds the channel, `MaxBatch` the keys of a Batch.
* `memory`: `MaxByte` is 2, so that a key can be all zero, all MaxByte or neither; keys
  of length 0, 1 and 2 and bounds of length 1 and 2 give every comparison of lengths.
  `Options` has every pair of bounds, limits -2, -1, 0 and 2 and both directions.
* `Payloads` are the empty one, the longest whose length takes one varint byte and the
  shortest that takes two; a field of a pair and a pair in a list then have lengths of
  one to two bytes on both sides of the boundary. `MaxGroups` and `LastMax` are the
  length and the last byte of the longest varint that is read.
* One finalize request is outstanding at a time; the DB thread serves requests one
  after another.

The theorems below hold for all values of these constants.

### Fairness

`ReadWriter!FairSpec`: the snapshot thread blocks only on its queue, and the event
loop runs closures as long as there are any (weak fairness of `Serve` and of
`Deliver`). No caller is assumed to do anything. `StateDB!FairSpec`: the DB thread
finishes a scan and a delete it has begun, and the JS thread goes from the first write
of a commit to the second. A crash is never required and never excluded.
`Database!FairSpec`: the DB thread blocks only on its queue, the event loop runs the
closures posted to it, and the JS thread goes on with a clear whose stream has ended
(weak fairness of `Serve`, of `Deliver` and of `ClearWrite` per call). No call and no
close() is assumed.

## 4. Proofs

All theorems hold for every set of keys, values, writers and options and every bound,
from the named assumptions of the modules: the sentinels differ from the data beside
them, keys are ordered as numbers or are byte strings, bounds are natural numbers. Four
assumptions are there for the proofs about rows, bytes and trees, and the runs check them
too:

* `StoreCallsAssumption`, `InMemoryDatabaseAssumption`: the set of possible keys and that
  of other buckets' keys are finite, since the length of a key has a bound. A walk over
  infinitely many keys would have no end to reach. Keys of other buckets do not begin
  with the prefix of STATE (`consts.rs`).
* `DiffCodecAssumption`: a cache is finite, and a key, a value and an encoded pair have
  lengths below `Readable`.
* `SparseMerkleTreeAssumption`, `InMemorySMTAssumption`: the length of a key in bits is a
  positive multiple of the height of a subtree, as it is with keys of whole bytes and
  heights 4 and 8; the data of an update is a map whose keys are bits. That hashes do not
  collide is no assumption but part of the model: a hash is a term.

**Lemmas (`StateWriterProofs`).** `EntryFits` lists the five kinds of entry the
handlers build. It is the key to everything: for caches that fit, the two loops of a
commit agree (`CommitViewLemma`, `CommitHashLemma`), a revert undoes the commit
(`RevertCommitLemma`), and for any diff whatever the two loops of a revert agree
(`RevertHashLemma`). An entry both dirty and deleted would break the first.

**Read-writer (`ReadWriterProofs`).** The inductive invariant is `TypeOK /\
CachesFit`: the current cache and every saved copy fit the snapshot. Saved copies
must be part of it, since restoring makes one current. From it follow what a commit
writes and hashes, what a revert restores, that range shows live rows only, and the
refinement `Spec => ScratchRefined`: every step is a step of the map or leaves it
alone.

`RangeMatchesView` says that range answers the first rows of the merged view. The code
cuts twice: the scan of the snapshot stops after `limit` rows, and JavaScript cuts the
merged list again. `MergeFirst` is the reason that this is right: a row among the first n
of a union is among the first n of the part it comes from, so the scan has dropped none
that the second cut would keep. It needs that no scanned row is deleted in the writer,
which is the hypothesis of the property.

**State database (`StateDBProofs`).**

* `RootInv`, for every caller: the root due is the root of STATE, the tip is that
  tree, and, when a commit was cut off and has its diff, the diff covers every key in which
  STATE differs from what CURRENT_STATE still names. "Root of STATE" is not inductive alone: a revert after a
  crash re-establishes it only because of what is said of the cut-off commit. From it
  follow `RootAlwaysMatches`, `TreeAlwaysAvailable` and `CheckedCommits`.
* `HistoryInv`, for callers that keep the rules: diffs and history have the same
  versions, each diff leads from the contents after its version to those before, and a
  scan that is waiting to delete still knows exactly the versions below its height.
  After a cut-off commit (`TornInv`) its diff is there and leads from STATE to the root that
  CURRENT_STATE names, and the tree of STATE, not that of CURRENT_STATE, is the complete
  one; between the
  two writes (`WindowInv`) the same is known of the commit under way, so that a crash
  makes the first of the second. From it follow `DiffsAlwaysLeadBack`,
  `TornCommitsUndoable`, `FinalizeIsExact` and the refinement of VersionedStore.

**Database (`DatabaseProofs`).** The inductive invariant is `DBInv == TypeOK /\ Places
/\ Progress /\ Connected`.

* `Places`: a queued call is in the queue once, a posted one among the replies once, and
  nothing else is in either. What the thread or the event loop does to the call at the
  head then disturbs no other; `CallsTracked`, which counts, follows.
* `Progress`: what the phase of a call says of its request and its answer.
* `Connected`: as long as there is a connection the thread runs and no Close is queued;
  without one, a Close is queued or the thread has ended; and no closure ahead of the
  first Close lacks a connection. "The thread never panics" needs all three: a closure
  without connection can be queued, but only behind Close.

From it follow `TypeCorrect`, `NeverPanics`, `CallsAlwaysTracked` and `Refinement`: every
step is a step of LinearStore (a call is made, looks, acts or is answered, a batch
changes) or leaves it alone. The refinement rests on what requests do to contents of the
right type (`EffectType`, `FixedType`) and on eager requests having nothing to look at
(`EagerIsReady`).

A clear acts in two halves, and anything may fall between them: sets, dels, other writes,
close(). `CallSteps` says what any step may do to a call, and two more invariants say
what is true of a clear at each phase.

* `ClearsSeen`: once it has looked, every key between its bounds is one it is going to
  remove, is gone, or was filled since (`fresh`). What it is going to remove is the
  answer of its scan, hence lemmas of `IterationProofs` on which rows a scan yields.
  From it follows `ClearedIsGone`.
* `ClearsBounded`: what a clear with both bounds is going to remove lies between them.
  From it follows `ClearKeepsRest`. With one bound `js_clear` ignores it and removes
  everything (run `clear_one_bound`).

**Iteration (`IterationProofs`, `InMemoryDatabaseProofs`).** `compare` is a strict total
order on byte strings (`LessIrreflexive`, `LessTransitive`, `LessTotal`), upwards and
downwards. In such an order each key of a finite set has a rank of its own (`Ranks`), so
that `Ordered` lists every key once (`OrderedProperties`), and a walk that stops at the
first key beyond a bound, or after a number of rows, yields an initial segment of what is
between the bounds (`InitialSegment`, `ScanIsCut`). The order survives a common prefix
(`PrefixOrder`), and a key of STATE lies below every key of another bucket
(`NotAboveState`), so a walk in the bucket is a walk in the database without one
(`WalkedInState`). From this follow, for every set of keys and every option record,
`BoundedIterationExact`, `OneBoundExact`, `MockShowsNoMore` and `WalkStaysInBucket`.

**Codec (second half of `ReadWriterProofs`).** `Stands` says that bytes stand somewhere in data. A varint
is read back wherever it stands: its first byte without a flag is its last, and the sum
of its digits is the value modulo `Place[n]`, digit by digit (`DigitStep`). With it a
field is read back, and where another field or the end of the data comes (`NotField`)
none is read. A list is then read back item by item, from its end (`SliceReadBack`), and
a list that is empty leaves in place what follows it (`SliceNotField`), so that an empty
first list cannot swallow the second. The loop of `read_bytes_slice` is a recursive
function; that it ends on any data whatever, since every item consumes a byte, is part of
the proof (`ItemAdvances`, `SliceByItem`). `DiffsSurvive` then covers the sizes of the
code (`Group` 128, five bytes, lengths below 4 GiB), which the run does not reach.

Recursive definitions are reasoned about with `SetInduction` and `Recursion` of
`NaturalSets`, which speak of sets and functions instead of formulas.

**Sparse Merkle tree (`InMemorySMTProofs`).** What could go wrong: an update deletes a
subtree by its hash before it goes on below it, so two places with one hash would lose
theirs; the bins of a subtree are cut by counting; a subtree is decoded, split, updated
place by place and put together again from a queue whose two ends are both used.

* `RootTells`: the root of the contents below a path tells these contents and, where keys
  part, the path, because a leaf's hash covers the whole key. It goes by induction from
  the bottom of the tree to the top. Deleting the subtree of one place then harms no
  other place (`HasBeside`).
* A *frontier* of a path is a sequence of places below it, from left to right, such that
  every longer path extends exactly one of them: the path itself, or a frontier of its
  left half followed by one of its right half (`Fronts`, `FrontInduction`). Splitting a
  place leaves a frontier (`FrontSplits`). The *normal* frontier goes on where keys part
  and only there; its nodes are the stored form of a subtree (`Subtree`).
* `HasherFindsRoot`: each layer of the hasher is the frontier with its deepest places
  joined, so the last layer is the root. `CalculateIs`: with a queue of the rows that wait
  for each place (`Waiting`), the same holds of `calculate_subtree`, and the rows that
  come out are those of the normal frontier, from any frontier whose branches all end at
  the bottom.
* `LowHalves`, `FrontTiles`, `SliceIs`: the bins of a place are those of its two halves
  one after the other, so the sums of `update_subtree` and `split_at` hand every node
  the data of the keys below it.
* A frame is a frontier cut in two (`FrameWith`): the places done hold nodes of the
  updated contents, the next ones nodes of the old contents, and `low` is where the bins
  of the next one begin. A frame that waits for an inner one has done and will do the
  places beside the one entered (`OuterIs`). A lemma per case of `update_node` says that
  the frame goes from one cut to the next (`KeepTop`, `SingleTop`, `SplitTop`, `EnterTop`,
  `TopStored`, `OuterAdvances`).
* `IInv` puts this together: what is stored under a hash is the subtree of some place of
  some contents with this root (`StoreOK`); every claimed root is the root of its contents
  (`ClaimsOK`); the stack is a chain of such frames, one inside the other up to the root
  (`StackIs`); and for a chained update all subtrees below places to be done, in the old
  contents, and below places done, in the new, are stored (`Has`). The last part is what
  `TipIsComplete` leaves unsaid about the middle of an update, and why it is not inductive.
  From `IInv` follow `RootsStandForContents` and `TipStaysComplete`, its second half by
  `NeverStuck`. For an update that is not chained the same invariant without `Has` holds:
  it may fail, but it does not answer a wrong root.

`IInv` quantifies over all contents and all frontiers and cannot be evaluated by TLC; the
two properties it implies are checked in `smt`.

**Only model-checked.** `ProofVerifies`, `VerifiedIsTrue` and `RemovalVerifies`: `SmtProof`
keeps the recursion of prove and calculate_root as RECURSIVE operators, which the prover
does not take. The liveness properties `InFlightSettles` (of both modules),
`ClosedIsReleased` and `FinalizeCarriedOut`: fairness is beyond it as well.

## 5. Not modelled

* I/O errors of RocksDB, power loss that takes the tail of its log, databases opened
  read-only, and the end of the DB thread when its object is garbage collected.
* `snapshot()` and `restoreSnapshot()` on a poisoned mutex panic and change nothing.
* The calls in flight of a StateReader: they go through the same queue and thread as
  those of a read-writer (`reader_base.rs`), and change nothing.
* Any root a caller might supply: the models pass the current one to commit, as
  `js_commit` documents, and to revert the current one or that of a cut-off write.
  `InMemorySMT` updates from any root.
* The connections of open readers and read-writers: each thread holds a clone
  (reader_base.rs:46-48), so the files are released when those too are closed.
  `ClosedIsReleased` is about a database without open readers.
* Leaves of an in-memory tree whose value does not have 32 bytes (section 2).
* Lengths of 4 GiB and more, which the codec cuts to u32.
* The export table and the conversion of arguments (`lib.rs`, `utils.rs`): no state.

## 6. Plan

Done, in this order: StateWriter, ReadWriter with ScratchMap, StateDB with
VersionedStore, their proofs, the sparse Merkle tree with its proofs as InMemorySMT,
Iteration with InMemoryDatabase, Database with LinearStore and its proofs, Codec with
DiffCodec, the proofs about range, iteration, clear and the codec, the update of the tree
as a state machine and the proof about it. Next:

1. SmtProof with loops as recursive functions, and the proof that verify accepts what
   prove makes: the siblings of a query are roots of places, to which `RootTells` applies.
2. StateDB with any root supplied by the caller: which pairs of root and STATE then arise.
3. StateReader as a module of its own, its stream racing close().
