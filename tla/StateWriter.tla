---------------------------- MODULE StateWriter ----------------------------
(***************************************************************************)
(* The write cache of a read-writer (state/state_writer.rs), the diff it   *)
(* leaves behind (diff.rs) and what both do to the STATE bucket and to the *)
(* sparse Merkle tree.  The module holds operators only: ReadWriter and    *)
(* StateDB give them state.                                                *)
(*                                                                         *)
(* A store is a total function from keys to values, None standing for an   *)
(* absent key.  A tree is named by its root hash; the hash is taken to be  *)
(* collision free, so a root IS the map from keys to the hashed values it  *)
(* commits to.  The tree is indexed by the key: the key hash only renames  *)
(* the positions (six bytes kept, the rest hashed, types.rs).              *)
(***************************************************************************)

CONSTANTS
    Keys,           \* the state keys of the instance
    Values,         \* the values a key can hold
    None,           \* Rust's None: absent key, absent cache entry, no diff
    EmptyBytes      \* vec![], the deletion marker in tree update data

\* hash_with_kind(HashKind::Value): the digest of a value is never empty.
HashValue(v) == [sha256 |-> v]

HashedValues == {HashValue(v) : v \in Values}

MaybeValue == Values \union {None}

Store == [Keys -> MaybeValue]

\* StateCache: what the snapshot held, the current value and two flags.
Entry == [init : MaybeValue, value : Values, dirty : BOOLEAN, deleted : BOOLEAN]

Cache == [Keys -> Entry \union {None}]

Root == [Keys -> HashedValues \union {None}]

UpdateData == [Keys -> HashedValues \union {None, EmptyBytes}]

Diff == [created : SUBSET Keys, updated : Store, deleted : Store]

\* The sentinels are told apart from the data they stand beside.
ASSUME SentinelAssumption ==
    /\ None \notin Values
    /\ None \notin Entry
    /\ None \notin Store
    /\ None \notin Cache
    /\ None \notin HashedValues
    /\ EmptyBytes \notin HashedValues
    /\ EmptyBytes # None

----------------------------------------------------------------------------
(* The cache entry by entry.                                               *)

EmptyCache == [k \in Keys |-> None]

NewEntry(v) == [init |-> None, value |-> v, dirty |-> FALSE, deleted |-> FALSE]

ExistingEntry(v) == [init |-> v, value |-> v, dirty |-> FALSE, deleted |-> FALSE]

IsCached(cache, k) == cache[k] # None

CacheNew(cache, k, v) == [cache EXCEPT ![k] = NewEntry(v)]

CacheExisting(cache, k, v) == [cache EXCEPT ![k] = ExistingEntry(v)]

\* update of a cached key; an uncached one is InvalidUsage and is never asked for.
UpdateEntry(cache, k, v) ==
    [cache EXCEPT ![k] = [@ EXCEPT !.value = v, !.dirty = TRUE, !.deleted = FALSE]]

\* Mutant: delete leaves the dirty flag of an updated key.
DeleteKeepsDirty(cache, k) ==
    IF ~IsCached(cache, k)
    THEN cache
    ELSE IF cache[k].init = None
         THEN [cache EXCEPT ![k] = None]
         ELSE [cache EXCEPT ![k] = [@ EXCEPT !.deleted = TRUE]]

\* Mutant: a key created by this writer is flagged instead of dropped.
DeleteFlagsCreated(cache, k) ==
    IF ~IsCached(cache, k)
    THEN cache
    ELSE [cache EXCEPT ![k] = [@ EXCEPT !.dirty = FALSE, !.deleted = TRUE]]

DeleteEntry(cache, k) ==
    IF ~IsCached(cache, k)
    THEN cache
    ELSE IF cache[k].init = None
         THEN [cache EXCEPT ![k] = None]
         ELSE [cache EXCEPT ![k] = [@ EXCEPT !.dirty = FALSE, !.deleted = TRUE]]

\* Mutant: get_range does not skip deleted keys.
AllCached(cache, S) == {k \in S : IsCached(cache, k)}

\* get_range: the live cached keys between the two bounds.
LiveCached(cache, S) == {k \in S : IsCached(cache, k) /\ ~cache[k].deleted}

----------------------------------------------------------------------------
(* The read-writer's handlers on a cache over a snapshot "base".           *)

\* Mutant: the found value is cached over an entry that is there already.
LoadOver(cache, base, k) == IF base[k] = None THEN cache ELSE CacheExisting(cache, k, base[k])

\* Mutant: an absent key is cached as an existing one.
LoadAbsent(cache, base, k) ==
    IF IsCached(cache, k) THEN cache ELSE CacheExisting(cache, k, base[k])

\* delete_key and get_key_with_writer first bring a found value into the cache.
Load(cache, base, k) ==
    IF IsCached(cache, k) \/ base[k] = None
    THEN cache
    ELSE CacheExisting(cache, k, base[k])

Upsert(cache, base, k, v) ==
    IF ~IsCached(cache, k) /\ base[k] = None
    THEN CacheNew(cache, k, v)
    ELSE UpdateEntry(Load(cache, base, k), k, v)

Erase(cache, base, k) == DeleteEntry(Load(cache, base, k), k)

\* What get answers: a live cached value, "No data" for a deleted key, or the snapshot.
Lookup(cache, base, k) ==
    IF IsCached(cache, k)
    THEN IF cache[k].deleted THEN None ELSE cache[k].value
    ELSE base[k]

\* What the read-writer as a whole shows its caller.
View(cache, base) == [k \in Keys |-> Lookup(cache, base, k)]

----------------------------------------------------------------------------
(* Committing a cache and reverting a commit.                              *)

Changed(e) == e # None /\ (e.init = None \/ e.dirty)

Removed(e) == e # None /\ ~Changed(e) /\ e.deleted

\* get_hashed_updated: hashed value for a write, empty bytes for a removal.
GetHashedUpdated(cache) ==
    [k \in Keys |-> IF Changed(cache[k]) THEN HashValue(cache[k].value)
                    ELSE IF Removed(cache[k]) THEN EmptyBytes
                    ELSE None]

\* The three lists commit sorts the entries into.
Created(cache) == {k \in Keys : cache[k] # None /\ cache[k].init = None}

Deleted(cache) == {k \in Keys \ Created(cache) : cache[k] # None /\ cache[k].deleted}

Updated(cache) ==
    {k \in Keys \ (Created(cache) \union Deleted(cache)) : cache[k] # None /\ cache[k].dirty}

\* The STATE part of the commit batch, applied to a store.
CommitState(store, cache) ==
    [k \in Keys |-> IF k \in Created(cache) \union Updated(cache) THEN cache[k].value
                    ELSE IF k \in Deleted(cache) THEN None
                    ELSE store[k]]

\* Mutant: the diff of an updated key carries its new value.
CommitDiffNew(cache) ==
    [created |-> Created(cache),
     updated |-> [k \in Keys |-> IF k \in Updated(cache) THEN cache[k].value ELSE None],
     deleted |-> [k \in Keys |-> IF k \in Deleted(cache) THEN cache[k].value ELSE None]]

\* The diff commit returns: a deleted key carries the CACHED value, not init.
CommitDiff(cache) ==
    [created |-> Created(cache),
     updated |-> [k \in Keys |-> IF k \in Updated(cache) THEN cache[k].init ELSE None],
     deleted |-> [k \in Keys |-> IF k \in Deleted(cache) THEN cache[k].value ELSE None]]

\* Mutant: created keys are not deleted again.
RevertStateKeeps(store, diff) ==
    [k \in Keys |-> IF diff.deleted[k] # None THEN diff.deleted[k]
                    ELSE IF diff.updated[k] # None THEN diff.updated[k]
                    ELSE store[k]]

\* revert_commit: updated, then deleted, then created; the three are disjoint.
RevertState(store, diff) ==
    [k \in Keys |-> IF k \in diff.created THEN None
                    ELSE IF diff.deleted[k] # None THEN diff.deleted[k]
                    ELSE IF diff.updated[k] # None THEN diff.updated[k]
                    ELSE store[k]]

\* Mutant: deleted keys are not put back into the tree.
RevertHashedUpdateDrops(diff) ==
    [k \in Keys |-> IF k \in diff.created THEN EmptyBytes
                    ELSE IF diff.updated[k] # None THEN HashValue(diff.updated[k])
                    ELSE None]

\* revert_hashed_update: the data that takes the tree back.
RevertHashedUpdate(diff) ==
    [k \in Keys |-> IF k \in diff.created THEN EmptyBytes
                    ELSE IF diff.deleted[k] # None THEN HashValue(diff.deleted[k])
                    ELSE IF diff.updated[k] # None THEN HashValue(diff.updated[k])
                    ELSE None]

----------------------------------------------------------------------------
(* The tree, by what an update makes of the contents it commits to.        *)

EmptyRoot == [k \in Keys |-> None]

RootOf(store) == [k \in Keys |-> IF store[k] = None THEN None ELSE HashValue(store[k])]

IsEmptyData(data) == \A k \in Keys : data[k] = None

\* SparseMerkleTree::commit on the tree named by root.
SmtCommit(root, data) ==
    [k \in Keys |-> IF data[k] = None THEN root[k]
                    ELSE IF data[k] = EmptyBytes THEN None
                    ELSE data[k]]

----------------------------------------------------------------------------
(* What every cache over a snapshot looks like.                            *)

EntryFits(e, b) ==
    e # None => /\ e.init = b
                /\ ~(e.dirty /\ e.deleted)
                /\ e.deleted => e.init # None
                /\ ~e.dirty /\ ~e.deleted /\ e.init # None => e.value = e.init

CacheFits(cache, base) == \A k \in Keys : EntryFits(cache[k], base[k])

\* Keys overwritten and then deleted by the same writer.
Overwritten(cache) == {k \in Deleted(cache) : cache[k].value # cache[k].init}

============================================================================
