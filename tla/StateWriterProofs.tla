-------------------------- MODULE StateWriterProofs --------------------------
(***************************************************************************)
(* Lemmas about the operators of StateWriter: what each handler does to a  *)
(* cache that fits its snapshot, and how commit, revert and the two tree   *)
(* updates correspond.  ReadWriterProofs and StateDBProofs rest on them.   *)
(***************************************************************************)
EXTENDS StateWriter, TLAPS

\* A fresh StateWriter fits every snapshot and shows it unchanged.
LEMMA EmptyCacheLemma ==
    ASSUME NEW base \in Store
    PROVE  /\ EmptyCache \in Cache
           /\ CacheFits(EmptyCache, base)
           /\ View(EmptyCache, base) = base
  BY DEF EmptyCache, Cache, CacheFits, EntryFits, View, Lookup, IsCached, Store, MaybeValue

\* The five shapes of entry the code builds are entries.
LEMMA EntryLemma ==
    ASSUME NEW v \in Values
    PROVE  /\ NewEntry(v) \in Entry
           /\ ExistingEntry(v) \in Entry
           /\ \A e \in Entry :
                 /\ [e EXCEPT !.value = v, !.dirty = TRUE, !.deleted = FALSE] \in Entry
                 /\ [e EXCEPT !.dirty = FALSE, !.deleted = TRUE] \in Entry
  BY DEF NewEntry, ExistingEntry, Entry, MaybeValue

\* Bringing a key of the snapshot into the cache is invisible.
LEMMA LoadLemma ==
    ASSUME NEW base \in Store, NEW cache \in Cache, NEW k \in Keys, CacheFits(cache, base)
    PROVE  /\ Load(cache, base, k) \in Cache
           /\ CacheFits(Load(cache, base, k), base)
           /\ View(Load(cache, base, k), base) = View(cache, base)
           /\ base[k] # None => IsCached(Load(cache, base, k), k)
  <1>1. CASE IsCached(cache, k) \/ base[k] = None
    BY <1>1 DEF Load
  <1>2. CASE ~(IsCached(cache, k) \/ base[k] = None)
    <2> DEFINE e == ExistingEntry(base[k])
    <2>1. base[k] \in Values
      BY <1>2 DEF Store, MaybeValue
    <2>2. e \in Entry
      BY <2>1, EntryLemma
    <2>3. Load(cache, base, k) = [cache EXCEPT ![k] = e]
      BY <1>2 DEF Load, CacheExisting
    <2>4. e # None
      BY <2>2, SentinelAssumption
    <2>5. EntryFits(e, base[k])
      BY <2>1 DEF EntryFits, ExistingEntry
    <2>6. Load(cache, base, k) \in Cache
      BY <2>2, <2>3 DEF Cache
    <2>7. CacheFits(Load(cache, base, k), base)
      BY <2>3, <2>5 DEF CacheFits, Cache
    <2>8. View(Load(cache, base, k), base) = View(cache, base)
      BY <1>2, <2>1, <2>3, <2>4 DEF View, Lookup, IsCached, ExistingEntry, Cache
    <2> QED
      BY <2>3, <2>4, <2>6, <2>7, <2>8 DEF IsCached, Cache
  <1> QED
    BY <1>1, <1>2

\* upsert_key changes what the caller sees of its key and nothing else.
LEMMA UpsertLemma ==
    ASSUME NEW base \in Store, NEW cache \in Cache, NEW k \in Keys, NEW v \in Values,
           CacheFits(cache, base)
    PROVE  /\ Upsert(cache, base, k, v) \in Cache
           /\ CacheFits(Upsert(cache, base, k, v), base)
           /\ View(Upsert(cache, base, k, v), base) = [View(cache, base) EXCEPT ![k] = v]
  <1> DEFINE next == Upsert(cache, base, k, v)
  <1>1. CASE ~IsCached(cache, k) /\ base[k] = None
    <2>1. next = [cache EXCEPT ![k] = NewEntry(v)]
      BY <1>1 DEF Upsert, CacheNew
    <2>2. NewEntry(v) \in Entry /\ NewEntry(v) # None
      BY EntryLemma, SentinelAssumption
    <2>3. EntryFits(NewEntry(v), base[k])
      BY <1>1 DEF EntryFits, NewEntry
    <2>4. next \in Cache /\ CacheFits(next, base)
      BY <2>1, <2>2, <2>3 DEF Cache, CacheFits
    <2>5. View(next, base) = [View(cache, base) EXCEPT ![k] = v]
      <3> DEFINE e == NewEntry(v)
      <3>1. e # None /\ e.value = v /\ e.deleted = FALSE
        BY <2>2 DEF NewEntry
      <3>2. next = [cache EXCEPT ![k] = e]
        BY <2>1
      <3> HIDE DEF e, next
      <3> QED
        BY <3>1, <3>2 DEF View, Lookup, IsCached, Cache
    <2> QED
      BY <2>4, <2>5
  <1>2. CASE ~(~IsCached(cache, k) /\ base[k] = None)
    <2> DEFINE mid == Load(cache, base, k)
    <2> DEFINE e == [mid[k] EXCEPT !.value = v, !.dirty = TRUE, !.deleted = FALSE]
    <2>1. /\ mid \in Cache
          /\ CacheFits(mid, base)
          /\ View(mid, base) = View(cache, base)
      BY LoadLemma
    <2>2. mid[k] \in Entry /\ mid[k] # None
      BY <1>2, <2>1, LoadLemma DEF Load, IsCached, Cache
    <2>3. next = [mid EXCEPT ![k] = e]
      BY <1>2, <2>1 DEF Upsert, UpdateEntry, Cache
    <2>4. e \in Entry /\ e # None
      BY <2>2, EntryLemma, SentinelAssumption
    <2>5. EntryFits(e, base[k])
      BY <2>1, <2>2 DEF EntryFits, CacheFits, Entry
    <2>6. next \in Cache /\ CacheFits(next, base)
      BY <2>1, <2>3, <2>4, <2>5 DEF Cache, CacheFits
    <2>7. View(next, base) = [View(mid, base) EXCEPT ![k] = v]
      <3>1. e.value = v /\ e.deleted = FALSE
        BY <2>2 DEF Entry
      <3> QED
        BY <2>1, <2>3, <2>4, <3>1 DEF View, Lookup, IsCached, Cache
    <2> QED
      BY <2>1, <2>6, <2>7
  <1> QED
    BY <1>1, <1>2

\* delete_key hides its key and nothing else.
LEMMA EraseLemma ==
    ASSUME NEW base \in Store, NEW cache \in Cache, NEW k \in Keys, CacheFits(cache, base)
    PROVE  /\ Erase(cache, base, k) \in Cache
           /\ CacheFits(Erase(cache, base, k), base)
           /\ View(Erase(cache, base, k), base) = [View(cache, base) EXCEPT ![k] = None]
  <1> DEFINE mid == Load(cache, base, k)
  <1> DEFINE next == Erase(cache, base, k)
  <1>1. /\ mid \in Cache
        /\ CacheFits(mid, base)
        /\ View(mid, base) = View(cache, base)
        /\ base[k] # None => IsCached(mid, k)
    BY LoadLemma
  <1>2. next = DeleteEntry(mid, k)
    BY DEF Erase
  <1>3. CASE ~IsCached(mid, k)
    <2>1. next = mid /\ base[k] = None
      BY <1>1, <1>2, <1>3 DEF DeleteEntry
    <2>2. View(mid, base) = [View(mid, base) EXCEPT ![k] = None]
      BY <1>1, <1>3, <2>1 DEF View, Lookup
    <2> QED
      BY <1>1, <2>1, <2>2
  <1>4. CASE IsCached(mid, k) /\ mid[k].init = None
    <2>1. next = [mid EXCEPT ![k] = None]
      BY <1>2, <1>4 DEF DeleteEntry
    <2>2. base[k] = None
      BY <1>1, <1>4 DEF CacheFits, EntryFits, IsCached
    <2>3. next \in Cache /\ CacheFits(next, base)
      BY <1>1, <2>1 DEF Cache, CacheFits, EntryFits
    <2>4. View(next, base) = [View(mid, base) EXCEPT ![k] = None]
      BY <1>1, <2>1, <2>2 DEF View, Lookup, IsCached, Cache
    <2> QED
      BY <1>1, <2>3, <2>4
  <1>5. CASE IsCached(mid, k) /\ mid[k].init # None
    <2> DEFINE e == [mid[k] EXCEPT !.dirty = FALSE, !.deleted = TRUE]
    <2>1. next = [mid EXCEPT ![k] = e]
      BY <1>1, <1>2, <1>5 DEF DeleteEntry, Cache
    <2>2. mid[k] \in Entry /\ mid[k] # None
      BY <1>1, <1>5 DEF Cache, IsCached
    <2>3. e \in Entry /\ e # None
      BY <2>2, SentinelAssumption DEF Entry
    <2>4. EntryFits(e, base[k])
      BY <1>1, <1>5, <2>2 DEF EntryFits, CacheFits, Entry
    <2>5. next \in Cache /\ CacheFits(next, base)
      BY <1>1, <2>1, <2>3, <2>4 DEF Cache, CacheFits
    <2>6. View(next, base) = [View(mid, base) EXCEPT ![k] = None]
      <3>1. e.deleted = TRUE
        BY <2>2 DEF Entry
      <3> QED
        BY <1>1, <2>1, <2>3, <3>1 DEF View, Lookup, IsCached, Cache
    <2> QED
      BY <1>1, <2>5, <2>6
  <1> QED
    BY <1>3, <1>4, <1>5

----------------------------------------------------------------------------
(* Commit and revert.                                                      *)

\* What commit and revert produce has the type of what it is stored in.
LEMMA CommitTypes ==
    ASSUME NEW store \in Store, NEW cache \in Cache
    PROVE  /\ CommitState(store, cache) \in Store
           /\ CommitDiff(cache) \in Diff
           /\ GetHashedUpdated(cache) \in UpdateData
  <1>1. \A k \in Keys : cache[k] # None => cache[k] \in Entry
    BY DEF Cache
  <1>2. CommitState(store, cache) \in Store
    BY <1>1 DEF CommitState, Store, Created, Updated, Deleted, Entry, MaybeValue
  <1>3. CommitDiff(cache) \in Diff
    <2>1. Created(cache) \in SUBSET Keys
      BY DEF Created
    <2>2. [k \in Keys |-> IF k \in Updated(cache) THEN cache[k].init ELSE None] \in Store
      BY <1>1 DEF Store, Updated, Entry, MaybeValue
    <2>3. [k \in Keys |-> IF k \in Deleted(cache) THEN cache[k].value ELSE None] \in Store
      BY <1>1 DEF Store, Deleted, Entry, MaybeValue
    <2> QED
      BY <2>1, <2>2, <2>3 DEF CommitDiff, Diff
  <1>4. GetHashedUpdated(cache) \in UpdateData
    <2>1. \A k \in Keys : Changed(cache[k]) => HashValue(cache[k].value) \in HashedValues
      BY <1>1 DEF Changed, Entry, HashedValues
    <2> QED
      BY <2>1 DEF GetHashedUpdated, UpdateData
  <1> QED
    BY <1>2, <1>3, <1>4

\* The same of what a revert produces, for every diff.
LEMMA RevertTypes ==
    ASSUME NEW store \in Store, NEW diff \in Diff
    PROVE  /\ RevertState(store, diff) \in Store
           /\ RevertHashedUpdate(diff) \in UpdateData
  <1>1. diff.created \in SUBSET Keys /\ diff.updated \in Store /\ diff.deleted \in Store
    BY DEF Diff
  <1>2. RevertState(store, diff) \in Store
    BY <1>1 DEF RevertState, Store, MaybeValue
  <1>3. \A k \in Keys : /\ diff.deleted[k] # None => HashValue(diff.deleted[k]) \in HashedValues
                        /\ diff.updated[k] # None => HashValue(diff.updated[k]) \in HashedValues
    BY <1>1 DEF Store, MaybeValue, HashedValues
  <1>4. RevertHashedUpdate(diff) \in UpdateData
    BY <1>3 DEF RevertHashedUpdate, UpdateData
  <1> QED
    BY <1>2, <1>4

\* Roots are closed under the tree update.
LEMMA TreeTypes ==
    /\ EmptyRoot \in Root
    /\ \A store \in Store : RootOf(store) \in Root
    /\ \A root \in Root, data \in UpdateData : SmtCommit(root, data) \in Root
  <1>1. EmptyRoot \in Root
    BY DEF EmptyRoot, Root
  <1>2. ASSUME NEW store \in Store PROVE RootOf(store) \in Root
    <2>1. \A k \in Keys : store[k] # None => HashValue(store[k]) \in HashedValues
      BY DEF Store, MaybeValue, HashedValues
    <2> QED
      BY <2>1 DEF RootOf, Root
  <1>3. ASSUME NEW root \in Root, NEW data \in UpdateData PROVE SmtCommit(root, data) \in Root
    BY DEF SmtCommit, Root, UpdateData
  <1> QED
    BY <1>1, <1>2, <1>3

\* What a caller sees is a store.
LEMMA ViewTypes ==
    ASSUME NEW base \in Store, NEW cache \in Cache
    PROVE  /\ View(cache, base) \in Store
           /\ View(cache, base) # None
           /\ \A k \in Keys : View(cache, base)[k] = Lookup(cache, base, k)
  <1>1. \A k \in Keys : cache[k] # None => cache[k] \in Entry
    BY DEF Cache
  <1>2. View(cache, base) \in Store
    BY <1>1 DEF View, Lookup, IsCached, Entry, Store, MaybeValue
  <1> QED
    BY <1>2, SentinelAssumption DEF View

\* A cache over its own snapshot commits to what its caller sees.
LEMMA CommitViewLemma ==
    ASSUME NEW base \in Store, NEW cache \in Cache, CacheFits(cache, base)
    PROVE  CommitState(base, cache) = View(cache, base)
  <1>1. ASSUME NEW k \in Keys
        PROVE  CommitState(base, cache)[k] = View(cache, base)[k]
    <2>1. CASE cache[k] = None
      BY <2>1 DEF CommitState, Created, Updated, Deleted, View, Lookup, IsCached
    <2>2. CASE cache[k] # None
      <3>1. cache[k] \in Entry /\ EntryFits(cache[k], base[k])
        BY <2>2 DEF Cache, CacheFits
      <3> QED
        BY <2>2, <3>1 DEF CommitState, Created, Updated, Deleted, View, Lookup, IsCached,
                          EntryFits, Entry
    <2> QED
      BY <2>1, <2>2
  <1> QED
    BY <1>1 DEF CommitState, View

\* The loop of get_hashed_updated and the loop of commit agree: on a tree
\* over ANY contents the update has the effect the batch has on STATE.  The
\* cache need only fit the snapshot it was made from.
LEMMA CommitHashLemma ==
    ASSUME NEW store \in Store, NEW base \in Store, NEW cache \in Cache,
           CacheFits(cache, base)
    PROVE  SmtCommit(RootOf(store), GetHashedUpdated(cache)) = RootOf(CommitState(store, cache))
  <1> DEFINE data == GetHashedUpdated(cache)
  <1> DEFINE next == CommitState(store, cache)
  <1>1. ASSUME NEW k \in Keys
        PROVE  SmtCommit(RootOf(store), data)[k] = RootOf(next)[k]
    <2>0. /\ SmtCommit(RootOf(store), data)[k] =
                IF data[k] = None THEN RootOf(store)[k]
                ELSE IF data[k] = EmptyBytes THEN None ELSE data[k]
          /\ RootOf(store)[k] = IF store[k] = None THEN None ELSE HashValue(store[k])
          /\ RootOf(next)[k] = IF next[k] = None THEN None ELSE HashValue(next[k])
      BY DEF SmtCommit, RootOf
    <2>1. CASE cache[k] = None
      <3>1. data[k] = None /\ next[k] = store[k]
        BY <2>1 DEF GetHashedUpdated, Changed, Removed, CommitState, Created, Updated, Deleted
      <3> HIDE DEF data, next
      <3> QED
        BY <2>0, <3>1
    <2>2. CASE cache[k] # None
      <3>1. cache[k] \in Entry /\ EntryFits(cache[k], base[k])
        BY <2>2 DEF Cache, CacheFits
      <3>2. CASE Changed(cache[k])
        <4>1. data[k] = HashValue(cache[k].value)
          BY <3>2 DEF GetHashedUpdated
        <4>2. next[k] = cache[k].value
          BY <2>2, <3>1, <3>2 DEF Changed, CommitState, Created, Updated, Deleted, EntryFits
        <4>3. cache[k].value \in Values /\ cache[k].value # None
          BY <3>1, SentinelAssumption DEF Entry
        <4>4. data[k] # None /\ data[k] # EmptyBytes
          BY <4>1, <4>3, SentinelAssumption DEF HashedValues
        <4> HIDE DEF data, next
        <4> QED
          BY <2>0, <4>1, <4>2, <4>3, <4>4
      <3>3. CASE Removed(cache[k])
        <4>1. data[k] = EmptyBytes /\ EmptyBytes # None
          BY <3>3, SentinelAssumption DEF GetHashedUpdated, Removed
        <4>2. next[k] = None
          BY <2>2, <3>3 DEF Removed, Changed, CommitState, Created, Updated, Deleted
        <4> HIDE DEF data, next
        <4> QED
          BY <2>0, <4>1, <4>2
      <3>4. CASE ~Changed(cache[k]) /\ ~Removed(cache[k])
        <4>1. data[k] = None
          BY <3>4 DEF GetHashedUpdated
        <4>2. next[k] = store[k]
          BY <2>2, <3>4 DEF Changed, Removed, CommitState, Created, Updated, Deleted
        <4> HIDE DEF data, next
        <4> QED
          BY <2>0, <4>1, <4>2
      <3> QED
        BY <3>2, <3>3, <3>4
    <2> QED
      BY <2>1, <2>2
  <1> QED
    BY <1>1 DEF SmtCommit, RootOf

\* The same of revert_hashed_update and revert_commit, for every diff.
LEMMA RevertHashLemma ==
    ASSUME NEW store \in Store, NEW diff \in Diff
    PROVE  SmtCommit(RootOf(store), RevertHashedUpdate(diff)) = RootOf(RevertState(store, diff))
  <1> DEFINE data == RevertHashedUpdate(diff)
  <1> DEFINE next == RevertState(store, diff)
  <1>1. ASSUME NEW k \in Keys
        PROVE  SmtCommit(RootOf(store), data)[k] = RootOf(next)[k]
    <2>0. /\ SmtCommit(RootOf(store), data)[k] =
                IF data[k] = None THEN RootOf(store)[k]
                ELSE IF data[k] = EmptyBytes THEN None ELSE data[k]
          /\ RootOf(store)[k] = IF store[k] = None THEN None ELSE HashValue(store[k])
          /\ RootOf(next)[k] = IF next[k] = None THEN None ELSE HashValue(next[k])
      BY DEF SmtCommit, RootOf
    <2>1. /\ data[k] = IF k \in diff.created THEN EmptyBytes
                       ELSE IF diff.deleted[k] # None THEN HashValue(diff.deleted[k])
                       ELSE IF diff.updated[k] # None THEN HashValue(diff.updated[k])
                       ELSE None
          /\ next[k] = IF k \in diff.created THEN None
                       ELSE IF diff.deleted[k] # None THEN diff.deleted[k]
                       ELSE IF diff.updated[k] # None THEN diff.updated[k]
                       ELSE store[k]
      BY DEF RevertHashedUpdate, RevertState
    <2>2. /\ diff.deleted[k] # None => HashValue(diff.deleted[k]) \notin {None, EmptyBytes}
          /\ diff.updated[k] # None => HashValue(diff.updated[k]) \notin {None, EmptyBytes}
      BY SentinelAssumption DEF Diff, Store, MaybeValue, HashedValues
    <2>3. EmptyBytes # None
      BY SentinelAssumption
    <2> HIDE DEF data, next
    <2> QED
      BY <2>0, <2>1, <2>2, <2>3
  <1> QED
    BY <1>1 DEF SmtCommit, RootOf

\* A key the diff of a commit does not mention was not written by it.
LEMMA UntouchedLemma ==
    ASSUME NEW store \in Store, NEW base \in Store, NEW cache \in Cache,
           CacheFits(cache, base), NEW k \in Keys,
           RevertHashedUpdate(CommitDiff(cache))[k] = None
    PROVE  CommitState(store, cache)[k] = store[k]
  <1> DEFINE diff == CommitDiff(cache)
  <1>1. /\ diff.created = Created(cache)
        /\ diff.updated[k] = IF k \in Updated(cache) THEN cache[k].init ELSE None
        /\ diff.deleted[k] = IF k \in Deleted(cache) THEN cache[k].value ELSE None
    BY DEF CommitDiff
  <1>2. diff \in Diff
    BY CommitTypes
  <1>3. k \notin diff.created /\ diff.deleted[k] = None /\ diff.updated[k] = None
    <2>1. RevertHashedUpdate(diff)[k] =
              IF k \in diff.created THEN EmptyBytes
              ELSE IF diff.deleted[k] # None THEN HashValue(diff.deleted[k])
              ELSE IF diff.updated[k] # None THEN HashValue(diff.updated[k])
              ELSE None
      BY DEF RevertHashedUpdate
    <2>0. RevertHashedUpdate(diff)[k] = None
      OBVIOUS
    <2> HIDE DEF diff
    <2>2. /\ diff.deleted[k] # None => HashValue(diff.deleted[k]) # None
          /\ diff.updated[k] # None => HashValue(diff.updated[k]) # None
          /\ EmptyBytes # None
      <3>1. diff.deleted \in Store /\ diff.updated \in Store
        BY <1>2 DEF Diff
      <3> QED
        BY <3>1, SentinelAssumption DEF Store, MaybeValue, HashedValues
    <2> QED
      BY <2>0, <2>1, <2>2
  <1>4. k \notin Deleted(cache)
    BY <1>1, <1>3, SentinelAssumption DEF Deleted, Cache, Entry
  <1>5. k \notin Updated(cache)
    BY <1>1, <1>3 DEF Updated, Created
  <1> QED
    BY <1>1, <1>3, <1>4, <1>5 DEF CommitState

\* An update that mentions nothing changes nothing.
LEMMA EmptyDataLemma ==
    ASSUME NEW root \in Root, NEW data, IsEmptyData(data)
    PROVE  SmtCommit(root, data) = root
  BY DEF SmtCommit, IsEmptyData, Root

\* A revert undoes the commit it belongs to, key by key, except for the
\* keys that were overwritten before they were deleted.
LEMMA RevertCommitLemma ==
    ASSUME NEW base \in Store, NEW cache \in Cache, CacheFits(cache, base),
           NEW k \in Keys \ Overwritten(cache)
    PROVE  RevertState(CommitState(base, cache), CommitDiff(cache))[k] = base[k]
  <1> DEFINE diff == CommitDiff(cache)
  <1>1. /\ RevertState(CommitState(base, cache), diff)[k] =
              IF k \in diff.created THEN None
              ELSE IF diff.deleted[k] # None THEN diff.deleted[k]
              ELSE IF diff.updated[k] # None THEN diff.updated[k]
              ELSE CommitState(base, cache)[k]
        /\ diff.created = Created(cache)
        /\ diff.updated[k] = IF k \in Updated(cache) THEN cache[k].init ELSE None
        /\ diff.deleted[k] = IF k \in Deleted(cache) THEN cache[k].value ELSE None
    BY DEF RevertState, CommitDiff
  <1>2. CASE cache[k] = None
    BY <1>1, <1>2 DEF CommitState, Created, Updated, Deleted
  <1>3. CASE cache[k] # None
    <2>1. cache[k] \in Entry /\ EntryFits(cache[k], base[k])
      BY <1>3 DEF Cache, CacheFits
    <2>2. cache[k].value \in Values /\ cache[k].value # None
      BY <2>1, SentinelAssumption DEF Entry
    <2>3. CASE k \in Created(cache)
      BY <1>1, <1>3, <2>1, <2>3 DEF Created, EntryFits
    <2>4. CASE k \in Deleted(cache)
      <3>1. cache[k].value = cache[k].init /\ k \notin Created(cache)
        BY <2>4 DEF Overwritten, Deleted
      <3> QED
        BY <1>1, <1>3, <2>1, <2>2, <2>4, <3>1 DEF EntryFits
    <2>5. CASE k \in Updated(cache)
      <3>1. k \notin Created(cache) /\ k \notin Deleted(cache) /\ cache[k].init # None
        BY <1>3, <2>5 DEF Updated, Created
      <3> QED
        BY <1>1, <1>3, <2>1, <2>5, <3>1 DEF EntryFits
    <2>6. CASE k \notin Created(cache) \union Deleted(cache) \union Updated(cache)
      BY <1>1, <2>6 DEF CommitState
    <2> QED
      BY <2>3, <2>4, <2>5, <2>6
  <1> QED
    BY <1>2, <1>3

============================================================================
