-------------------------- MODULE ReadWriterProofs --------------------------
(***************************************************************************)
(* Proofs about ReadWriter, for every set of keys, values, promises and    *)
(* range options and every bound.  The inductive invariant is the type     *)
(* invariant with CachesFit: it says which caches the handlers can build,  *)
(* and everything a commit or a revert promises follows from it.           *)
(*                                                                         *)
(* The second half is about Codec and DiffCodec, for every size of a       *)
(* varint's digits and every length of keys, values and lists that a       *)
(* varint can hold: the diff of every commit survives being written and    *)
(* read.  Reading is said to undo writing wherever the bytes stand in the  *)
(* data (Stands), so that what is true of a varint is true of a field, and *)
(* what is true of a field is true of a list, by induction over its items. *)
(* A list ends where no field of its number follows (NotField).            *)
(***************************************************************************)
EXTENDS DiffCodec, StateWriterProofs, NaturalSets

IInv == TypeOK /\ CachesFit

----------------------------------------------------------------------------
(* The range operation.                                                    *)

\* The scan of range caches rows of the snapshot and changes no answer.
LEMMA AfterRangeLemma ==
    ASSUME base \in Store, cache \in Cache, CacheFits(cache, base), NEW opt
    PROVE  /\ AfterRange(opt) \in Cache
           /\ CacheFits(AfterRange(opt), base)
           /\ View(AfterRange(opt), base) = View(cache, base)
  <1> DEFINE after == AfterRange(opt)
  <1>1. ASSUME NEW k \in Keys
        PROVE  /\ after[k] \in Entry \union {None}
               /\ EntryFits(after[k], base[k])
               /\ Lookup(after, base, k) = Lookup(cache, base, k)
    <2> DEFINE mid == Load(cache, base, k)
    <2>1. /\ mid \in Cache
          /\ CacheFits(mid, base)
          /\ View(mid, base) = View(cache, base)
      BY LoadLemma
    <2>2. /\ mid[k] \in Entry \union {None}
          /\ EntryFits(mid[k], base[k])
          /\ Lookup(mid, base, k) = Lookup(cache, base, k)
      BY <2>1 DEF Cache, CacheFits, View
    <2>3. /\ cache[k] \in Entry \union {None}
          /\ EntryFits(cache[k], base[k])
      BY DEF Cache, CacheFits
    <2>4. after[k] = mid[k] \/ after[k] = cache[k]
      BY DEF AfterRange
    <2> HIDE DEF after, mid
    <2> QED
      BY <2>2, <2>3, <2>4 DEF Lookup, IsCached
  <1>2. after = [k \in Keys |-> after[k]]
    BY DEF AfterRange
  <1>3. after \in Cache /\ CacheFits(after, base)
    BY <1>1, <1>2 DEF Cache, CacheFits
  <1>4. View(after, base) = View(cache, base)
    BY <1>1 DEF View
  <1> QED
    BY <1>3, <1>4

\* Every row of an answer is live in the cache that range leaves behind.
LEMMA RangeRowsLemma ==
    ASSUME base \in Store, cache \in Cache, CacheFits(cache, base), NEW opt
    PROVE  /\ RangeRows(opt) \in Store
           /\ \A k \in Keys : RangeRows(opt)[k] # None
                                => RangeRows(opt)[k] = Lookup(AfterRange(opt), base, k)
  <1> DEFINE after == AfterRange(opt)
  <1> DEFINE rows == LiveCached(cache, InBounds(opt)) \union LiveCached(after, Scanned(opt))
  <1> DEFINE kept == Splice(rows, opt)
  <1>1. after \in Cache
    BY AfterRangeLemma
  <1>2. RangeRows(opt) = [k \in Keys |-> IF k \in kept THEN after[k].value ELSE None]
    BY DEF RangeRows
  <1>3. kept \subseteq rows
    BY DEF Splice, FirstOf
  <1>4. ASSUME NEW k \in rows
        PROVE  after[k] # None /\ ~after[k].deleted
    <2>1. CASE k \in LiveCached(after, Scanned(opt))
      BY <2>1 DEF LiveCached, IsCached
    <2>2. CASE k \in LiveCached(cache, InBounds(opt))
      <3>1. IsCached(cache, k) /\ ~cache[k].deleted /\ k \in Keys
        BY <2>2 DEF LiveCached, InBounds
      <3>2. after[k] = cache[k]
        BY <3>1 DEF AfterRange, Load
      <3> QED
        BY <3>1, <3>2 DEF IsCached
    <2> QED
      BY <2>1, <2>2
  <1>5. ASSUME NEW k \in Keys, k \in kept
        PROVE  after[k].value \in Values /\ after[k].value = Lookup(after, base, k)
    <2>1. after[k] \in Entry /\ after[k] # None /\ ~after[k].deleted
      BY <1>1, <1>3, <1>4, <1>5 DEF Cache
    <2> HIDE DEF after, kept
    <2> QED
      BY <2>1 DEF Lookup, IsCached, Entry
  <1>6. ASSUME NEW k \in Keys
        PROVE  /\ RangeRows(opt)[k] \in MaybeValue
               /\ RangeRows(opt)[k] # None => RangeRows(opt)[k] = Lookup(after, base, k)
    <2> HIDE DEF after, kept
    <2>1. RangeRows(opt)[k] = IF k \in kept THEN after[k].value ELSE None
      BY <1>2
    <2> QED
      BY <1>5, <2>1 DEF MaybeValue
  <1>7. RangeRows(opt) = [k \in Keys |-> RangeRows(opt)[k]]
    BY <1>2
  <1>8. RangeRows(opt) \in Store
    BY <1>6, <1>7 DEF Store
  <1> QED
    BY <1>6, <1>8

----------------------------------------------------------------------------
(* The inductive invariant.                                                *)

\* A new read-writer has an empty cache, which fits any snapshot.
LEMMA InitIInv == Init => IInv
  <1> SUFFICES ASSUME Init PROVE IInv
    OBVIOUS
  <1> USE DEF Init
  <1>1. EmptyCache \in Cache /\ CacheFits(EmptyCache, base)
    BY EmptyCacheLemma
  <1>2. NoBackup \in [SnapshotIds -> Cache \union {None}]
    BY DEF NoBackup
  <1>3. 0 \in 0 .. MaxSnapshots
    BY ReadWriterAssumption
  <1>4. ret \in Result
    BY DEF Result
  <1>a. queue \in Seq(Message \union {CloseMessage}) /\ replies \in Seq(Message)
    OBVIOUS
  <1>b. promise \in [Promises -> {"idle", "pending"}]
    OBVIOUS
  <1>c. poisoned \in BOOLEAN /\ thread \in {"running", "exited"} /\ base \in Store
    OBVIOUS
  <1>5. TypeOK
    BY <1>1, <1>2, <1>3, <1>4, <1>a, <1>b, <1>c DEF TypeOK
  <1>6. CachesFit
    BY <1>1 DEF CachesFit, NoBackup
  <1> QED
    BY <1>5, <1>6 DEF IInv

\* A reply at the head of the event loop names a promise and a call.
LEMMA ReplyLemma ==
    ASSUME TypeOK, replies # <<>>
    PROVE  /\ Head(replies) \in Message
           /\ Tail(replies) \in Seq(Message)
           /\ promise' = [promise EXCEPT ![Head(replies).id] = "idle"]
                => promise' \in [Promises -> {"idle", "pending"}]
           /\ Head(replies).call.op = "set"
                => Head(replies).call.key \in Keys /\ Head(replies).call.val \in Values
           /\ Head(replies).call.op \in {"get", "del"} => Head(replies).call.key \in Keys
           /\ Head(replies).call.op = "range" => Head(replies).call.opt \in RangeOptions
  <1>1. Head(replies) \in Message /\ Tail(replies) \in Seq(Message)
    BY DEF TypeOK
  <1>2. Head(replies).call \in Call /\ Head(replies).id \in Promises
    BY <1>1 DEF Message
  <1>3. promise' = [promise EXCEPT ![Head(replies).id] = "idle"]
          => promise' \in [Promises -> {"idle", "pending"}]
    BY DEF TypeOK
  <1> QED
    BY <1>1, <1>2, <1>3 DEF Call

\* Every call, reply and synchronous operation keeps types and caches.
LEMMA NextIInv == IInv /\ [Next]_vars => IInv'
  <1> SUFFICES ASSUME IInv, [Next]_vars PROVE IInv'
    OBVIOUS
  <1>0. TypeOK /\ CachesFit
    BY DEF IInv
  <1>a. base \in Store /\ cache \in Cache /\ CacheFits(cache, base)
    BY <1>0 DEF TypeOK, CachesFit
  <1>1. ASSUME NEW p \in Promises, NEW call \in Call, Issue(p, call) PROVE IInv'
    <2>1. [id |-> p, call |-> call] \in Message
      BY DEF Message
    <2>2. queue' \in Seq(Message \union {CloseMessage})
      <3>1. queue \in Seq(Message \union {CloseMessage})
        BY <1>0 DEF TypeOK
      <3>2. queue' = Append(queue, [id |-> p, call |-> call]) \/ queue' = queue
        BY <1>1 DEF Issue
      <3> QED
        BY <2>1, <3>1, <3>2
    <2>3. promise' \in [Promises -> {"idle", "pending"}]
      BY <1>0, <1>1 DEF Issue, TypeOK
    <2>4. ret' \in Result
      BY <1>0, <1>1 DEF Issue, TypeOK, Result
    <2>5. TypeOK'
      BY <1>0, <1>1, <2>2, <2>3, <2>4 DEF Issue, writerVars, TypeOK
    <2>6. CachesFit'
      BY <1>0, <1>1 DEF Issue, writerVars, CachesFit
    <2> QED
      BY <2>5, <2>6 DEF IInv
  <1>2. ASSUME Serve PROVE IInv'
    <2> DEFINE wire == Message \union {CloseMessage}
    <2>a. queue \in Seq(wire) /\ queue # <<>> /\ replies \in Seq(Message)
      BY <1>0, <1>2 DEF Serve, TypeOK
    <2>b. Head(queue) \in wire /\ Tail(queue) \in Seq(wire) /\ <<>> \in Seq(wire)
      <3> HIDE DEF wire
      <3> QED
        BY <2>a
    <2>c. queue' \in Seq(wire)
      BY <1>2, <2>b DEF Serve
    <2>d. replies' \in Seq(Message)
      <3>1. CASE Head(queue) = CloseMessage
        BY <1>2, <2>a, <3>1 DEF Serve
      <3>2. CASE Head(queue) # CloseMessage
        <4>1. Head(queue) \in Message
          BY <2>b, <3>2
        <4>2. replies' = Append(replies, Head(queue))
          BY <1>2, <3>2 DEF Serve
        <4> QED
          BY <2>a, <4>1, <4>2
      <3> QED
        BY <3>1, <3>2
    <2>1. /\ queue' \in Seq(Message \union {CloseMessage})
          /\ replies' \in Seq(Message)
          /\ thread' \in {"running", "exited"}
      BY <1>0, <1>2, <2>c, <2>d DEF Serve, TypeOK
    <2>2. TypeOK'
      BY <1>0, <1>2, <2>1 DEF Serve, writerVars, TypeOK
    <2>3. CachesFit'
      BY <1>0, <1>2 DEF Serve, writerVars, CachesFit
    <2> QED
      BY <2>2, <2>3 DEF IInv
  <1>3. ASSUME UpsertKey PROVE IInv'
    <2> DEFINE call == Head(replies).call
    <2>1. /\ call.key \in Keys /\ call.val \in Values
          /\ Tail(replies) \in Seq(Message)
          /\ promise' \in [Promises -> {"idle", "pending"}]
      BY <1>0, <1>3, ReplyLemma DEF UpsertKey, Reply, Settle
    <2>2. cache' \in Cache /\ CacheFits(cache', base)
      BY <1>a, <1>3, <2>1, UpsertLemma DEF UpsertKey
    <2>3. ret' \in Result
      BY <1>3 DEF UpsertKey, Result
    <2>4. TypeOK'
      BY <1>0, <1>3, <2>1, <2>2, <2>3 DEF UpsertKey, Reply, threadVars, TypeOK
    <2>5. CachesFit'
      BY <1>0, <1>3, <2>2 DEF UpsertKey, Reply, CachesFit
    <2> QED
      BY <2>4, <2>5 DEF IInv
  <1>4. ASSUME GetKeyWithWriter PROVE IInv'
    <2> DEFINE call == Head(replies).call
    <2>1. /\ call.key \in Keys
          /\ Tail(replies) \in Seq(Message)
          /\ promise' \in [Promises -> {"idle", "pending"}]
      BY <1>0, <1>4, ReplyLemma DEF GetKeyWithWriter, Reply, Settle
    <2>2. cache' \in Cache /\ CacheFits(cache', base)
      BY <1>a, <1>4, <2>1, LoadLemma DEF GetKeyWithWriter
    <2>3. Lookup(cache, base, call.key) \in MaybeValue
      BY <1>a, <2>1 DEF Lookup, IsCached, Cache, Entry, Store, MaybeValue
    <2>4. ret' \in Result
      BY <1>4, <2>1, <2>3 DEF GetKeyWithWriter, Result
    <2>5. TypeOK'
      BY <1>0, <1>4, <2>1, <2>2, <2>4 DEF GetKeyWithWriter, Reply, threadVars, TypeOK
    <2>6. CachesFit'
      BY <1>0, <1>4, <2>2 DEF GetKeyWithWriter, Reply, CachesFit
    <2> QED
      BY <2>5, <2>6 DEF IInv
  <1>5. ASSUME DeleteKey PROVE IInv'
    <2> DEFINE call == Head(replies).call
    <2>1. /\ call.key \in Keys
          /\ Tail(replies) \in Seq(Message)
          /\ promise' \in [Promises -> {"idle", "pending"}]
      BY <1>0, <1>5, ReplyLemma DEF DeleteKey, Reply, Settle
    <2>2. cache' \in Cache /\ CacheFits(cache', base)
      BY <1>a, <1>5, <2>1, EraseLemma DEF DeleteKey
    <2>3. ret' \in Result
      BY <1>5 DEF DeleteKey, Result
    <2>4. TypeOK'
      BY <1>0, <1>5, <2>1, <2>2, <2>3 DEF DeleteKey, Reply, threadVars, TypeOK
    <2>5. CachesFit'
      BY <1>0, <1>5, <2>2 DEF DeleteKey, Reply, CachesFit
    <2> QED
      BY <2>4, <2>5 DEF IInv
  <1>6. ASSUME RangeWithWriter PROVE IInv'
    <2> DEFINE opt == Head(replies).call.opt
    <2>1. /\ opt \in RangeOptions
          /\ Tail(replies) \in Seq(Message)
      BY <1>0, <1>6, ReplyLemma DEF RangeWithWriter, Reply
    <2>2. promise' \in [Promises -> {"idle", "pending"}]
      BY <1>0, <1>6, ReplyLemma DEF RangeWithWriter, Reply, Settle, TypeOK
    <2>3. cache' \in Cache /\ CacheFits(cache', base)
      BY <1>a, <1>6, AfterRangeLemma DEF RangeWithWriter
    <2>4. ret' \in Result
      <3>1. RangeRows(opt) \in Store
        BY <1>a, RangeRowsLemma
      <3> QED
        BY <1>6, <2>1, <3>1 DEF RangeWithWriter, Result
    <2>5. poisoned' \in BOOLEAN
      BY <1>0, <1>6 DEF RangeWithWriter, TypeOK
    <2>6. TypeOK'
      BY <1>0, <1>6, <2>1, <2>2, <2>3, <2>4, <2>5 DEF RangeWithWriter, Reply, threadVars, TypeOK
    <2>7. CachesFit'
      BY <1>0, <1>6, <2>3 DEF RangeWithWriter, Reply, CachesFit
    <2> QED
      BY <2>6, <2>7 DEF IInv
  <1>7. ASSUME PanickedReply PROVE IInv'
    <2>1. Tail(replies) \in Seq(Message) /\ ret' \in Result
      BY <1>0, <1>7, ReplyLemma DEF PanickedReply, Result
    <2>2. TypeOK'
      BY <1>0, <1>7, <2>1 DEF PanickedReply, writerVars, threadVars, TypeOK
    <2>3. CachesFit'
      BY <1>0, <1>7 DEF PanickedReply, writerVars, CachesFit
    <2> QED
      BY <2>2, <2>3 DEF IInv
  <1>8. ASSUME Snapshot PROVE IInv'
    <2>1. counter \in SnapshotIds /\ counter' \in 0 .. MaxSnapshots
      BY <1>0, <1>8, ReadWriterAssumption DEF Snapshot, SnapshotIds, TypeOK
    <2>2. backup' \in [SnapshotIds -> Cache \union {None}]
      BY <1>0, <1>8, <2>1 DEF Snapshot, TypeOK
    <2>3. ret' \in Result
      BY <1>8 DEF Snapshot, Result
    <2>4. TypeOK'
      BY <1>0, <1>8, <2>1, <2>2, <2>3 DEF Snapshot, threadVars, TypeOK
    <2>5. CachesFit'
      BY <1>0, <1>8, <2>1 DEF Snapshot, CachesFit, TypeOK
    <2> QED
      BY <2>4, <2>5 DEF IInv
  <1>9. ASSUME NEW i \in SnapshotIds, RestoreSnapshot(i) PROVE IInv'
    <2>1. NoBackup \in [SnapshotIds -> Cache \union {None}]
      BY DEF NoBackup
    <2>2. cache' \in Cache /\ backup' \in [SnapshotIds -> Cache \union {None}]
      BY <1>0, <1>9, <2>1 DEF RestoreSnapshot, TypeOK
    <2>3. ret' \in Result
      BY <1>9 DEF RestoreSnapshot, Result
    <2>4. TypeOK'
      BY <1>0, <1>9, <2>2, <2>3 DEF RestoreSnapshot, threadVars, TypeOK
    <2>5. CachesFit'
      BY <1>0, <1>9 DEF RestoreSnapshot, CachesFit, NoBackup
    <2> QED
      BY <2>4, <2>5 DEF IInv
  <1>10. ASSUME Close PROVE IInv'
    <2>1. NoBackup \in [SnapshotIds -> Cache \union {None}]
      BY DEF NoBackup
    <2>2. EmptyCache \in Cache /\ CacheFits(EmptyCache, base)
      BY <1>a, EmptyCacheLemma
    <2>3. cache' \in Cache /\ backup' \in [SnapshotIds -> Cache \union {None}]
      BY <1>0, <1>10, <2>1, <2>2 DEF Close, writerVars, TypeOK
    <2>4. ret' \in Result
      BY <1>10 DEF Close, Result
    <2>5. queue' \in Seq(Message \union {CloseMessage})
      BY <1>0, <1>10 DEF Close, threadVars, TypeOK
    <2>6. TypeOK'
      BY <1>0, <1>10, <2>3, <2>4, <2>5 DEF Close, writerVars, threadVars, TypeOK
    <2>7. CachesFit'
      BY <1>0, <1>10, <2>2 DEF Close, writerVars, CachesFit, NoBackup
    <2> QED
      BY <2>6, <2>7 DEF IInv
  <1>11. CASE UNCHANGED vars
    BY <1>0, <1>11 DEF vars, IInv, TypeOK, CachesFit
  <1> QED
    BY <1>1, <1>2, <1>3, <1>4, <1>5, <1>6, <1>7, <1>8, <1>9, <1>10, <1>11 DEF Next

\* Every reachable state is well typed and every cache fits the snapshot.
THEOREM Invariance == Spec => []IInv
  BY InitIInv, NextIInv, PTL DEF Spec

----------------------------------------------------------------------------
(* What follows from the invariant.                                        *)

\* The state of a read-writer keeps its type whatever the order of calls,
\* replies and synchronous operations.
THEOREM TypeCorrect == Spec => []TypeOK
  <1>1. IInv => TypeOK
    BY DEF IInv
  <1> QED
    BY <1>1, Invariance, PTL

\* The caches StateWriter can hold or restore fit the snapshot.
THEOREM CachesAlwaysFit == Spec => []CachesFit
  <1>1. IInv => CachesFit
    BY DEF IInv
  <1> QED
    BY <1>1, Invariance, PTL

\* A commit writes what the caller saw.
THEOREM CommitIsView == Spec => []CommitWritesView
  <1>1. IInv => CommitWritesView
    BY CommitViewLemma DEF IInv, TypeOK, CachesFit, CommitWritesView
  <1> QED
    BY <1>1, Invariance, PTL

\* The root of a commit is the root of what the caller saw.
THEOREM CommitRootIsView == Spec => []CommitHashesView
  <1>1. IInv => CommitHashesView
    BY CommitViewLemma, CommitHashLemma DEF IInv, TypeOK, CachesFit, CommitHashesView
  <1> QED
    BY <1>1, Invariance, PTL

\* A revert gives back the snapshot, except for keys that were overwritten
\* and then deleted.
THEOREM RevertRestores == Spec => []RevertUndoesCommit
  <1>1. IInv => RevertUndoesCommit
    BY RevertCommitLemma DEF IInv, TypeOK, CachesFit, RevertUndoesCommit
  <1> QED
    BY <1>1, Invariance, PTL

\* The root after a revert is the root of the reverted STATE.
THEOREM RevertRootIsState == Spec => []RevertHashesState
  <1>1. IInv => RevertHashesState
    BY CommitTypes, RevertHashLemma DEF IInv, TypeOK, CachesFit, RevertHashesState
  <1> QED
    BY <1>1, Invariance, PTL

----------------------------------------------------------------------------
(* Range answers.                                                          *)

\* A step either leaves the last answer and the cache alone, or is a range
\* whose rows were taken from the cache it left, or answers something else.
LEMMA NextRows == IInv /\ RangeRowsAreLive /\ [Next]_vars => RangeRowsAreLive'
  <1> SUFFICES ASSUME IInv, RangeRowsAreLive, [Next]_vars PROVE RangeRowsAreLive'
    OBVIOUS
  <1>1. CASE ret' = ret /\ cache' = cache /\ base' = base
    BY <1>1 DEF RangeRowsAreLive, Lookup, IsCached
  <1>2. CASE ret'.op # "range"
    BY <1>2 DEF RangeRowsAreLive
  <1>3. ASSUME RangeWithWriter, ret'.op = "range" PROVE RangeRowsAreLive'
    <2> DEFINE opt == Head(replies).call.opt
    <2>1. /\ cache' = AfterRange(opt)
          /\ base' = base
          /\ ret' = [op |-> "range", opt |-> opt, rows |-> RangeRows(opt)]
      BY <1>3 DEF RangeWithWriter, Reply
    <2>2. \A k \in Keys : RangeRows(opt)[k] # None
                            => RangeRows(opt)[k] = Lookup(AfterRange(opt), base, k)
      BY RangeRowsLemma DEF IInv, TypeOK, CachesFit
    <2>3. ret'.rows = RangeRows(opt)
      BY <2>1
    <2>4. \A k \in Keys : Lookup(cache, base, k)' = Lookup(AfterRange(opt), base, k)
      BY <2>1 DEF Lookup, IsCached
    <2> QED
      BY <2>2, <2>3, <2>4 DEF RangeRowsAreLive
  <1>4. ASSUME NEW p \in Promises, NEW call \in Call, Issue(p, call) PROVE RangeRowsAreLive'
    BY <1>1, <1>2, <1>4 DEF Issue, writerVars
  <1>5. ASSUME NEW i \in SnapshotIds, RestoreSnapshot(i) PROVE RangeRowsAreLive'
    BY <1>2, <1>5 DEF RestoreSnapshot
  <1>6. CASE Serve
    BY <1>1, <1>6 DEF Serve, writerVars
  <1>7. CASE UpsertKey \/ GetKeyWithWriter \/ DeleteKey
    BY <1>2, <1>7 DEF UpsertKey, GetKeyWithWriter, DeleteKey
  <1>8. CASE PanickedReply \/ Snapshot \/ Close
    BY <1>2, <1>8 DEF PanickedReply, Snapshot, Close
  <1>9. CASE UNCHANGED vars
    BY <1>1, <1>9 DEF vars
  <1> QED
    BY <1>2, <1>3, <1>4, <1>5, <1>6, <1>7, <1>8, <1>9 DEF Next

\* range never shows a row that get would deny or answer differently.
THEOREM RangeRowsLive == Spec => []RangeRowsAreLive
  <1>1. Init => RangeRowsAreLive
    BY DEF Init, RangeRowsAreLive
  <1> QED
    BY <1>1, NextRows, Invariance, PTL DEF Spec

----------------------------------------------------------------------------
(* The limit of range.                                                     *)

\* The members of S that the iteration comes to before k.
Earlier(S, k, reverse) == {j \in S : IF reverse THEN j > k ELSE j < k}

\* Counting the rows before a key: more rows to count, or a later key, never
\* give fewer.
LEMMA EarlierCounts ==
    ASSUME NEW a \in Nat, NEW b \in Nat, NEW S \in SUBSET (a .. b), NEW T \in SUBSET S,
           NEW k \in a .. b, NEW j \in a .. b, NEW reverse \in BOOLEAN,
           IF reverse THEN k <= j ELSE j <= k
    PROVE  /\ Cardinality(Earlier(T, j, reverse)) \in Nat
           /\ Cardinality(Earlier(S, k, reverse)) \in Nat
           /\ Cardinality(Earlier(T, j, reverse)) <= Cardinality(Earlier(S, k, reverse))
  <1>0. a \in Int /\ b \in Int /\ \A i \in a .. b : i \in Int
    OBVIOUS
  <1>1. /\ Earlier(S, k, reverse) \in SUBSET (a .. b)
        /\ Earlier(T, j, reverse) \in SUBSET Earlier(S, k, reverse)
    <2>1. Earlier(S, k, reverse) \in SUBSET (a .. b)
      BY DEF Earlier
    <2>2. ASSUME NEW i \in Earlier(T, j, reverse)
          PROVE  i \in Earlier(S, k, reverse)
      <3>1. i \in S /\ i \in a .. b /\ (IF reverse THEN i > j ELSE i < j)
        BY DEF Earlier
      <3>2. IF reverse THEN i > k ELSE i < k
        BY <1>0, <3>1
      <3> QED
        BY <3>1, <3>2 DEF Earlier
    <2> QED
      BY <2>1, <2>2
  <1>2. /\ IsFiniteSet(Earlier(S, k, reverse))
        /\ Cardinality(Earlier(S, k, reverse)) \in Nat
    <2> DEFINE E == Earlier(S, k, reverse)
    <2>1. E \in SUBSET (a .. b)
      BY <1>1
    <2> HIDE DEF E
    <2>2. IsFiniteSet(E) /\ Cardinality(E) \in Nat
      BY <1>0, <2>1, BoundedIsFinite
    <2> QED
      BY <2>2 DEF E
  <1>3. IsFiniteSet(Earlier(T, j, reverse))
    BY <1>1, <1>2, FS_Subset
  <1> QED
    BY <1>1, <1>2, <1>3, FS_Subset, FS_CardinalityType

\* A set of keys has a member that the iteration comes to first.
LEMMA FirstExists ==
    ASSUME NEW a \in Nat, NEW b \in Nat, NEW S \in SUBSET (a .. b), S # {},
           NEW reverse \in BOOLEAN
    PROVE  \E k \in S : Earlier(S, k, reverse) = {}
  <1>1. CASE reverse
    <2>1. S \in SUBSET Int /\ b \in Int /\ \A k \in S : k <= b
      OBVIOUS
    <2>2. PICK k \in S : \A j \in S : j <= k
      BY <2>1, GreatestInteger
    <2>3. \A j \in S : ~(j > k)
      BY <2>1, <2>2
    <2> QED
      BY <1>1, <2>3 DEF Earlier
  <1>2. CASE ~reverse
    <2>1. S \in SUBSET Nat
      OBVIOUS
    <2>2. PICK k \in S : \A j \in S : k <= j
      BY <2>1, LeastNatural
    <2>3. \A j \in S : ~(j < k)
      BY <2>1, <2>2
    <2> QED
      BY <1>2, <2>3 DEF Earlier
  <1> QED
    BY <1>1, <1>2

\* Cutting one list before it is merged with another changes nothing when
\* the result is cut again: the merge of the cached rows with the first n
\* rows of the snapshot has the same first n rows as the merge with all.
LEMMA MergeFirst ==
    ASSUME NEW a \in Nat, NEW b \in Nat, NEW A \in SUBSET (a .. b), NEW F \in SUBSET (a .. b),
           NEW n \in Nat, NEW reverse \in BOOLEAN
    PROVE  FirstOf(A \union FirstOf(F, n, reverse), n, reverse) = FirstOf(A \union F, n, reverse)
  <1> DEFINE cut == FirstOf(F, n, reverse)
             T == A \union cut
             S == A \union F
  <1>1. /\ \A k \in a .. b : k \in cut <=> k \in F /\ Cardinality(Earlier(F, k, reverse)) < n
        /\ cut \in SUBSET F
    BY DEF FirstOf, Earlier
  <1>2. /\ FirstOf(T, n, reverse) = {k \in T : Cardinality(Earlier(T, k, reverse)) < n}
        /\ FirstOf(S, n, reverse) = {k \in S : Cardinality(Earlier(S, k, reverse)) < n}
    BY DEF FirstOf, Earlier
  <1> HIDE DEF cut
  <1>3. T \in SUBSET S /\ S \in SUBSET (a .. b)
    BY <1>1
  <1>4. ASSUME NEW k \in S, Cardinality(Earlier(S, k, reverse)) < n
        PROVE  k \in T /\ Cardinality(Earlier(T, k, reverse)) < n
    <2>1. k \in F => Cardinality(Earlier(F, k, reverse)) < n
      <3>1. F \in SUBSET S /\ k \in a .. b /\ k <= k
        BY <1>3
      <3> HIDE DEF S
      <3>2. /\ Cardinality(Earlier(F, k, reverse)) \in Nat
            /\ Cardinality(Earlier(S, k, reverse)) \in Nat
            /\ Cardinality(Earlier(F, k, reverse)) <= Cardinality(Earlier(S, k, reverse))
        BY <1>3, <3>1, EarlierCounts
      <3> QED
        BY <1>4, <3>2
    <2>2. k \in T
      BY <1>1, <1>3, <2>1
    <2>3. Cardinality(Earlier(T, k, reverse)) < n
      <3>1. k \in a .. b /\ k <= k
        BY <1>3
      <3> HIDE DEF S, T
      <3>2. /\ Cardinality(Earlier(T, k, reverse)) \in Nat
            /\ Cardinality(Earlier(S, k, reverse)) \in Nat
            /\ Cardinality(Earlier(T, k, reverse)) <= Cardinality(Earlier(S, k, reverse))
        BY <1>3, <3>1, EarlierCounts
      <3> QED
        BY <1>4, <3>2
    <2> QED
      BY <2>2, <2>3
  <1>5. ASSUME NEW k \in T, Cardinality(Earlier(T, k, reverse)) < n
        PROVE  Cardinality(Earlier(S, k, reverse)) < n
    <2> DEFINE lost == Earlier(S, k, reverse) \ T
    <2>1. CASE lost = {}
      <3>1. Earlier(S, k, reverse) = Earlier(T, k, reverse)
        BY <1>3, <2>1 DEF Earlier
      <3> QED
        BY <1>5, <3>1
    <2>2. CASE lost # {}
      \* The first row that the cut lost has n rows of F before it, which
      \* all were kept: they are n members of T before k.
      <3>1. lost \in SUBSET (a .. b) /\ lost \in SUBSET (F \ cut)
        BY <1>3 DEF Earlier
      <3>2. F \ cut # {} /\ F \ cut \in SUBSET (a .. b)
        BY <2>2, <3>1
      <3>3. PICK j \in F \ cut : Earlier(F \ cut, j, reverse) = {}
        BY <3>2, FirstExists
      <3>4. PICK i \in lost : TRUE
        BY <2>2
      <3>5. i \in F \ cut /\ i \in a .. b /\ j \in a .. b /\ k \in a .. b
        BY <1>3, <3>1, <3>3, <3>4
      <3>6. IF reverse THEN k < i ELSE i < k
        BY <3>4, <3>5 DEF Earlier
      <3>7. IF reverse THEN i <= j ELSE j <= i
        BY <3>3, <3>5 DEF Earlier
      <3>8. IF reverse THEN k <= j ELSE j <= k
        BY <3>5, <3>6, <3>7
      <3>9. Earlier(F, j, reverse) = Earlier(cut, j, reverse)
        BY <1>1, <3>3 DEF Earlier
      <3>10. cut \in SUBSET T /\ T \in SUBSET (a .. b)
        BY <1>3
      <3> HIDE DEF S, T, lost
      <3>11. /\ Cardinality(Earlier(cut, j, reverse)) \in Nat
             /\ Cardinality(Earlier(T, k, reverse)) \in Nat
             /\ Cardinality(Earlier(cut, j, reverse)) <= Cardinality(Earlier(T, k, reverse))
        BY <3>5, <3>8, <3>10, EarlierCounts
      <3>12. ~(Cardinality(Earlier(cut, j, reverse)) < n)
        BY <1>1, <3>3, <3>5, <3>9
      <3> QED
        BY <1>5, <3>11, <3>12
    <2> QED
      BY <2>1, <2>2
  <1>6. FirstOf(T, n, reverse) = FirstOf(S, n, reverse)
    BY <1>2, <1>3, <1>4, <1>5
  <1> QED
    BY <1>6 DEF cut

\* The loads of range show nothing new and hide nothing.
LEMMA AfterRangeShows ==
    ASSUME base \in Store, cache \in Cache, CacheFits(cache, base), NEW opt
    PROVE  /\ \A k \in Keys : Lookup(AfterRange(opt), base, k) = Lookup(cache, base, k)
           /\ \A k \in Keys : base[k] # None =>
                 (IsCached(AfterRange(opt), k) /\ AfterRange(opt)[k].deleted
                     <=> IsCached(cache, k) /\ cache[k].deleted)
  <1> DEFINE after == AfterRange(opt)
  <1>1. \A k \in Keys : View(after, base)[k] = View(cache, base)[k]
    BY AfterRangeLemma
  <1>2. \A k \in Keys : Lookup(after, base, k) = Lookup(cache, base, k)
    BY <1>1 DEF View
  <1>3. ASSUME NEW k \in Keys, base[k] # None
        PROVE  IsCached(after, k) /\ after[k].deleted <=> IsCached(cache, k) /\ cache[k].deleted
    <2>1. \/ after[k] = cache[k]
          \/ cache[k] = None /\ after[k] = ExistingEntry(base[k])
      BY DEF AfterRange, Load, CacheExisting, IsCached, Cache
    <2>2. CASE after[k] = cache[k]
      BY <2>2 DEF IsCached
    <2>3. CASE cache[k] = None /\ after[k] = ExistingEntry(base[k])
      <3>1. ~after[k].deleted
        BY <2>3 DEF ExistingEntry
      <3> QED
        BY <2>3, <3>1 DEF IsCached
    <2> QED
      BY <2>1, <2>2, <2>3
  <1> QED
    BY <1>2, <1>3

\* When nothing of the snapshot is hidden or nothing is cut, the cached rows
\* and the rows of the snapshot that are merged are those of the view, up to
\* the limit.
LEMMA MergedRows ==
    ASSUME base \in Store, cache \in Cache, CacheFits(cache, base),
           NEW opt \in RangeOptions, opt.gte # Undefined, opt.lte # Undefined,
           opt.limit = Undefined \/ (opt.limit > 0 /\ HiddenRows(opt) = {})
    PROVE  LET live == {k \in InBounds(opt) : Lookup(cache, base, k) # None}
           IN  Splice(LiveCached(cache, InBounds(opt)) \union LiveCached(AfterRange(opt), Scanned(opt)), opt)
                   = IF opt.limit = Undefined THEN live ELSE FirstOf(live, opt.limit, opt.reverse)
  <1> DEFINE live == {k \in InBounds(opt) : Lookup(cache, base, k) # None}
             found == {k \in InBounds(opt) : base[k] # None}
             A == LiveCached(cache, InBounds(opt))
             after == AfterRange(opt)
  <1>1. /\ opt.gte \in Nat /\ opt.lte \in Nat /\ opt.reverse \in BOOLEAN
        /\ opt.limit \in Int \union {Undefined} /\ Undefined \notin Int
        /\ Keys \subseteq Nat
    BY ReadWriterAssumption DEF Bounds, Limits
  <1>2. InBounds(opt) \subseteq Keys /\ InBounds(opt) \in SUBSET (opt.gte .. opt.lte)
    <2>1. ASSUME NEW k \in InBounds(opt)
          PROVE  k \in Keys /\ k \in opt.gte .. opt.lte
      <3>1. k \in Keys /\ k \in Nat /\ opt.gte <= k /\ k <= opt.lte
        BY <1>1 DEF InBounds
      <3> QED
        BY <1>1, <3>1
    <2> QED
      BY <2>1
  <1>3. \A k \in Keys : cache[k] # None => cache[k].value # None
    BY SentinelAssumption DEF Cache, Entry
  <1>4. A \in SUBSET live
    BY <1>2, <1>3 DEF LiveCached, Lookup, IsCached
  <1>5. \A k \in live : k \in A \/ (k \in found /\ ~IsCached(cache, k))
    BY DEF LiveCached, Lookup, IsCached
  <1>6. Scanned(opt) \in SUBSET found
    BY DEF Scanned, FirstOf
  <1>7. \A k \in Keys : k \in Scanned(opt) => (k \in LiveCached(after, Scanned(opt)) <=> k \in live)
    <2> SUFFICES ASSUME NEW k \in Keys, k \in Scanned(opt)
                 PROVE  k \in LiveCached(after, Scanned(opt)) <=> k \in live
      OBVIOUS
    <2>1. k \in InBounds(opt) /\ base[k] # None
      BY <1>6
    <2>2. IsCached(after, k) /\ after[k].deleted <=> IsCached(cache, k) /\ cache[k].deleted
      BY <2>1, AfterRangeShows
    <2>3. IsCached(after, k)
      <3>1. after[k] = Load(cache, base, k)[k]
        BY DEF AfterRange
      <3>2. Load(cache, base, k)[k] # None
        <4>1. ExistingEntry(base[k]) \in Entry
          BY <2>1 DEF ExistingEntry, Entry, Store, MaybeValue
        <4>2. ExistingEntry(base[k]) # None
          BY <4>1, SentinelAssumption
        <4>3. CASE IsCached(cache, k)
          BY <4>3 DEF Load, IsCached
        <4>4. CASE ~IsCached(cache, k)
          <5>1. Load(cache, base, k) = CacheExisting(cache, k, base[k])
            BY <2>1, <4>4 DEF Load
          <5> QED
            BY <4>2, <5>1 DEF CacheExisting, Cache
        <4> QED
          BY <4>3, <4>4
      <3> QED
        BY <3>1, <3>2 DEF IsCached
    <2>4. k \in live <=> ~(IsCached(cache, k) /\ cache[k].deleted)
      BY <1>3, <2>1 DEF Lookup, IsCached
    <2> HIDE DEF live, after
    <2> QED
      BY <2>2, <2>3, <2>4 DEF LiveCached
  <1>8. CASE opt.limit = Undefined
    <2>1. Scanned(opt) = found
      BY <1>8 DEF Scanned, RustLimit
    <2>2. A \union LiveCached(after, Scanned(opt)) = live
      <3>1. LiveCached(after, Scanned(opt)) \in SUBSET Scanned(opt)
        BY DEF LiveCached
      <3>2. found \in SUBSET Keys /\ live \in SUBSET Keys
        BY <1>2
      <3> HIDE DEF live, found, A, after
      <3> QED
        BY <1>4, <1>5, <1>7, <2>1, <3>1, <3>2
    <2> QED
      BY <1>8, <2>2 DEF Splice
  <1>9. CASE opt.limit > 0 /\ HiddenRows(opt) = {} /\ opt.limit # Undefined
    <2>1. opt.limit \in Nat /\ opt.limit # -1 /\ opt.limit # 0
      BY <1>1, <1>9
    <2>2. Scanned(opt) = FirstOf(found, opt.limit, opt.reverse)
      BY <1>9, <2>1 DEF Scanned, RustLimit
    <2>3. found \in SUBSET live
      <3>1. \A k \in found : ~(IsCached(cache, k) /\ cache[k].deleted)
        BY <1>9 DEF HiddenRows
      <3> QED
        BY <1>2, <1>3, <3>1 DEF Lookup, IsCached
    <2>4. LiveCached(after, Scanned(opt)) = Scanned(opt)
      <3>1. LiveCached(after, Scanned(opt)) \in SUBSET Scanned(opt)
        BY DEF LiveCached
      <3>2. found \in SUBSET Keys
        BY <1>2
      <3> HIDE DEF live, found, A, after
      <3> QED
        BY <1>6, <1>7, <2>3, <3>1, <3>2
    <2>5. A \union found = live
      <3> HIDE DEF live, found, A, after
      <3> QED
        BY <1>4, <1>5, <2>3
    <2>6. FirstOf(A \union FirstOf(found, opt.limit, opt.reverse), opt.limit, opt.reverse)
              = FirstOf(A \union found, opt.limit, opt.reverse)
      <3>1. A \in SUBSET (opt.gte .. opt.lte) /\ found \in SUBSET (opt.gte .. opt.lte)
        BY <1>2 DEF LiveCached
      <3>2. \A a \in Nat, b \in Nat : \A X \in SUBSET (a .. b), Y \in SUBSET (a .. b) :
               \A n \in Nat, r \in BOOLEAN :
                  FirstOf(X \union FirstOf(Y, n, r), n, r) = FirstOf(X \union Y, n, r)
        BY MergeFirst, Zenon
      <3> HIDE DEF live, found, A, after
      <3>3. \A X \in SUBSET (opt.gte .. opt.lte), Y \in SUBSET (opt.gte .. opt.lte) :
               \A n \in Nat, r \in BOOLEAN :
                  FirstOf(X \union FirstOf(Y, n, r), n, r) = FirstOf(X \union Y, n, r)
        BY <1>1, <3>2, Zenon
      <3>4. \A n \in Nat, r \in BOOLEAN :
               FirstOf(A \union FirstOf(found, n, r), n, r) = FirstOf(A \union found, n, r)
        BY <3>1, <3>3, Zenon
      <3> QED
        BY <1>1, <2>1, <3>4, Zenon
    <2>7. \A S : Splice(S, opt) = FirstOf(S, opt.limit, opt.reverse)
      BY <1>9, <2>1 DEF Splice
    <2> HIDE DEF live, found, A, after
    <2>8. Splice(A \union LiveCached(after, Scanned(opt)), opt) = FirstOf(live, opt.limit, opt.reverse)
      BY <2>2, <2>4, <2>5, <2>6, <2>7
    <2> QED
      BY <1>9, <2>8 DEF live, A, after
  <1> QED
    BY <1>8, <1>9

\* range answers the view between its bounds, cut to its limit.
LEMMA RangeAnswer ==
    ASSUME base \in Store, cache \in Cache, CacheFits(cache, base),
           NEW opt \in RangeOptions, opt.gte # Undefined, opt.lte # Undefined,
           opt.limit = Undefined \/ (opt.limit > 0 /\ HiddenRows(opt) = {})
    PROVE  RangeRows(opt) = ExpectedRows(opt)
  <1> DEFINE live == {k \in InBounds(opt) : Lookup(cache, base, k) # None}
             after == AfterRange(opt)
             kept == Splice(LiveCached(cache, InBounds(opt)) \union LiveCached(after, Scanned(opt)), opt)
  <1>1. RangeRows(opt) = [k \in Keys |-> IF k \in kept THEN after[k].value ELSE None]
    BY DEF RangeRows
  <1>2. kept = IF opt.limit = Undefined THEN live ELSE FirstOf(live, opt.limit, opt.reverse)
    BY MergedRows
  <1>3. ExpectedRows(opt) = [k \in Keys |-> IF k \in kept THEN Lookup(cache, base, k) ELSE None]
    BY <1>2 DEF ExpectedRows
  <1>4. kept \in SUBSET live
    BY <1>2 DEF FirstOf
  <1>5. \A k \in Keys : RangeRows(opt)[k] # None => RangeRows(opt)[k] = Lookup(cache, base, k)
    BY RangeRowsLemma, AfterRangeShows
  <1>6. ASSUME NEW k \in Keys, k \in kept
        PROVE  after[k].value = Lookup(cache, base, k)
    <2>1. Lookup(after, base, k) # None /\ Lookup(after, base, k) = Lookup(cache, base, k)
      BY <1>4, <1>6, AfterRangeShows
    <2>2. IsCached(after, k)
      <3>1. k \in LiveCached(cache, InBounds(opt)) \/ k \in LiveCached(after, Scanned(opt))
        BY <1>6 DEF Splice, FirstOf
      <3>2. CASE k \in LiveCached(cache, InBounds(opt))
        <4>1. IsCached(cache, k)
          BY <3>2 DEF LiveCached
        <4> QED
          BY <4>1 DEF AfterRange, Load, IsCached
      <3>3. CASE k \in LiveCached(after, Scanned(opt))
        BY <3>3 DEF LiveCached
      <3> QED
        BY <3>1, <3>2, <3>3
    <2> HIDE DEF after
    <2> QED
      BY <2>1, <2>2 DEF Lookup
  <1> HIDE DEF live, after, kept
  <1> QED
    BY <1>1, <1>3, <1>6

\* A step leaves the last answer, the cache and the snapshot alone, or is a
\* range and answers the view of the cache it leaves, or answers something
\* else.
LEMMA NextMatches == IInv /\ RangeMatchesView /\ [Next]_vars => RangeMatchesView'
  <1> SUFFICES ASSUME IInv, RangeMatchesView, [Next]_vars PROVE RangeMatchesView'
    OBVIOUS
  <1>1. CASE ret' = ret /\ cache' = cache /\ base' = base
    BY <1>1 DEF RangeMatchesView, ExpectedRows, HiddenRows
  <1>2. CASE ret'.op # "range"
    BY <1>2 DEF RangeMatchesView
  <1>3. ASSUME RangeWithWriter, ret'.op = "range" PROVE RangeMatchesView'
    <2>0. PICK opt : opt = Head(replies).call.opt
      OBVIOUS
    <2>1. /\ cache' = AfterRange(opt)
          /\ base' = base
          /\ ret' = [op |-> "range", opt |-> opt, rows |-> RangeRows(opt)]
          /\ opt.gte # Undefined /\ opt.lte # Undefined
      BY <1>3, <2>0 DEF RangeWithWriter, Reply
    <2>2. opt \in RangeOptions
      <3>1. Head(replies) \in Message /\ Head(replies).call.op = "range"
        BY <1>3, ReplyLemma DEF IInv, RangeWithWriter, Reply
      <3>2. Head(replies).call \in Call
        BY <3>1 DEF Message
      <3> QED
        BY <2>0, <3>1, <3>2 DEF Call
    <2>3. base \in Store /\ cache \in Cache /\ CacheFits(cache, base)
      BY DEF IInv, TypeOK, CachesFit
    <2>4. HiddenRows(opt)' = HiddenRows(opt)
      <3>1. \A k \in InBounds(opt) : k \in Keys
        BY DEF InBounds
      <3> QED
        BY <2>1, <2>3, <3>1, AfterRangeShows DEF HiddenRows
    <2>5. ExpectedRows(opt)' = ExpectedRows(opt)
      <3>1. \A k \in Keys : Lookup(cache, base, k)' = Lookup(cache, base, k)
        BY <2>1, <2>3, AfterRangeShows
      <3>2. {k \in InBounds(opt) : Lookup(cache, base, k)' # None}
                = {k \in InBounds(opt) : Lookup(cache, base, k) # None}
        BY <3>1 DEF InBounds
      <3> QED
        BY <3>1, <3>2 DEF ExpectedRows
    <2>6. ret'.opt = opt /\ ret'.rows = RangeRows(opt)
      BY <2>1
    <2>7. opt.limit = Undefined \/ (opt.limit > 0 /\ HiddenRows(opt) = {})
              => RangeRows(opt) = ExpectedRows(opt)
      BY <2>1, <2>2, <2>3, RangeAnswer
    <2>8. RangeMatchesView' = (opt.limit = Undefined \/ (opt.limit > 0 /\ HiddenRows(opt)' = {})
                                 => RangeRows(opt) = ExpectedRows(opt)')
      BY <2>1, <2>6 DEF RangeMatchesView
    <2> QED
      BY <2>4, <2>5, <2>7, <2>8
  <1>4. ASSUME NEW p \in Promises, NEW call \in Call, Issue(p, call) PROVE RangeMatchesView'
    BY <1>1, <1>2, <1>4 DEF Issue, writerVars
  <1>5. ASSUME NEW i \in SnapshotIds, RestoreSnapshot(i) PROVE RangeMatchesView'
    BY <1>2, <1>5 DEF RestoreSnapshot
  <1>6. CASE Serve
    BY <1>1, <1>6 DEF Serve, writerVars
  <1>7. CASE UpsertKey \/ GetKeyWithWriter \/ DeleteKey
    BY <1>2, <1>7 DEF UpsertKey, GetKeyWithWriter, DeleteKey
  <1>8. CASE PanickedReply \/ Snapshot \/ Close
    BY <1>2, <1>8 DEF PanickedReply, Snapshot, Close
  <1>9. CASE UNCHANGED vars
    BY <1>1, <1>9 DEF vars
  <1> QED
    BY <1>2, <1>3, <1>4, <1>5, <1>6, <1>7, <1>8, <1>9 DEF Next

\* range answers the caller's view between its bounds, in either direction
\* and up to its limit, unless the limit counts rows the writer deleted.
THEOREM RangeIsView == Spec => []RangeMatchesView
  <1>1. Init => RangeMatchesView
    BY DEF Init, RangeMatchesView
  <1> QED
    BY <1>1, NextMatches, Invariance, PTL DEF Spec

----------------------------------------------------------------------------
(* The read-writer implements ScratchMap.                                  *)

SavedViews == [i \in SnapshotIds |-> IF backup[i] = None THEN None ELSE View(backup[i], base)]

Answer == IF ret.op = "get" THEN <<ret.key, ret.val>> ELSE <<>>

\* The initial states of a read-writer are initial states of the map.
LEMMA InitRefined == Init => Scratch!ScratchInit
  <1> SUFFICES ASSUME Init PROVE Scratch!ScratchInit
    OBVIOUS
  <1>1. base \in Store /\ cache = EmptyCache /\ backup = NoBackup /\ counter = 0
    BY DEF Init
  <1>2. View(cache, base) = base
    BY <1>1, EmptyCacheLemma
  <1>3. SavedViews = [i \in 0 .. MaxSnapshots |-> None]
    BY <1>1 DEF SavedViews, NoBackup, SnapshotIds
  <1>4. Answer = <<>>
    BY DEF Init, Answer
  <1> QED
    BY <1>1, <1>2, <1>3, <1>4 DEF Scratch!ScratchInit, Scratch!Maps, Scratch!Nothing,
                                  Store, MaybeValue, SavedViews, Answer

\* Steps that keep the snapshot, the view and the checkpoints and give no
\* answer are quiet steps of the map.
LEMMA QuietStep ==
    ASSUME base' = base, View(cache, base)' = View(cache, base),
           SavedViews' = SavedViews, counter' = counter, Answer' = <<>>
    PROVE  Scratch!ScratchNext
  BY DEF Scratch!ScratchNext, Scratch!Quiet, SavedViews, Answer

\* Every step of a read-writer is a step of the map or leaves it alone.
LEMMA NextRefined == IInv /\ [Next]_vars => [Scratch!ScratchNext]_Scratch!scratchVars
  <1> SUFFICES ASSUME IInv, [Next]_vars PROVE [Scratch!ScratchNext]_Scratch!scratchVars
    OBVIOUS
  <1>0. TypeOK /\ CachesFit
    BY DEF IInv
  <1>a. base \in Store /\ cache \in Cache /\ CacheFits(cache, base)
    BY <1>0 DEF TypeOK, CachesFit
  <1>b. backup' = backup /\ base' = base => SavedViews' = SavedViews
    BY DEF SavedViews, View, Lookup, IsCached
  <1>c. cache' = cache /\ base' = base => View(cache, base)' = View(cache, base)
    BY DEF View, Lookup, IsCached
  <1>d. base' = base => View(cache, base)' = View(cache', base)
    BY DEF View, Lookup, IsCached
  <1>e. backup' = NoBackup => SavedViews' = Scratch!Nothing
    BY DEF SavedViews, NoBackup, SnapshotIds, Scratch!Nothing
  <1>1. ASSUME UNCHANGED <<base, cache, backup, counter, ret>>
        PROVE  [Scratch!ScratchNext]_Scratch!scratchVars
    <2>1. Answer' = Answer
      BY <1>1 DEF Answer
    <2> QED
      BY <1>1, <1>b, <1>c, <2>1 DEF Scratch!scratchVars, SavedViews, Answer
  <1>2. ASSUME UNCHANGED <<base, cache, backup, counter>>, ret'.op # "get"
        PROVE  Scratch!ScratchNext
    <2>1. Answer' = <<>>
      BY <1>2 DEF Answer
    <2> QED
      BY <1>2, <1>b, <1>c, <2>1, QuietStep
  <1>3. ASSUME NEW p \in Promises, NEW call \in Call, Issue(p, call)
        PROVE  [Scratch!ScratchNext]_Scratch!scratchVars
    BY <1>1, <1>2, <1>3 DEF Issue, writerVars
  <1>4. CASE Serve
    BY <1>1, <1>4 DEF Serve, writerVars
  <1>5. CASE UpsertKey
    <2> DEFINE call == Head(replies).call
    <2>1. call.key \in Keys /\ call.val \in Values
      BY <1>0, <1>5, ReplyLemma DEF UpsertKey, Reply
    <2>2. View(cache', base) = [View(cache, base) EXCEPT ![call.key] = call.val]
      BY <1>a, <1>5, <2>1, UpsertLemma DEF UpsertKey
    <2>3. base' = base /\ backup' = backup /\ counter' = counter /\ Answer' = <<>>
      BY <1>5 DEF UpsertKey, Reply, Answer
    <2>4. Scratch!Put(call.key, call.val)
      BY <1>b, <1>d, <2>2, <2>3 DEF Scratch!Put, SavedViews, Answer
    <2> QED
      BY <2>1, <2>4 DEF Scratch!ScratchNext
  <1>6. CASE GetKeyWithWriter
    <2> DEFINE call == Head(replies).call
    <2>1. call.key \in Keys
      BY <1>0, <1>6, ReplyLemma DEF GetKeyWithWriter, Reply
    <2>2. View(cache', base) = View(cache, base)
      BY <1>a, <1>6, <2>1, LoadLemma DEF GetKeyWithWriter
    <2>3. base' = base /\ backup' = backup /\ counter' = counter
      BY <1>6 DEF GetKeyWithWriter, Reply
    <2>4. Answer' = <<call.key, View(cache, base)[call.key]>>
      BY <1>a, <1>6, <2>1, ViewTypes DEF GetKeyWithWriter, Answer
    <2>5. Scratch!Find(call.key)
      BY <1>b, <1>d, <2>2, <2>3, <2>4 DEF Scratch!Find, SavedViews, Answer
    <2> QED
      BY <2>1, <2>5 DEF Scratch!ScratchNext
  <1>7. CASE DeleteKey
    <2> DEFINE call == Head(replies).call
    <2>1. call.key \in Keys
      BY <1>0, <1>7, ReplyLemma DEF DeleteKey, Reply
    <2>2. View(cache', base) = [View(cache, base) EXCEPT ![call.key] = None]
      BY <1>a, <1>7, <2>1, EraseLemma DEF DeleteKey
    <2>3. base' = base /\ backup' = backup /\ counter' = counter /\ Answer' = <<>>
      BY <1>7 DEF DeleteKey, Reply, Answer
    <2>4. Scratch!Remove(call.key)
      BY <1>b, <1>d, <2>2, <2>3 DEF Scratch!Remove, Scratch!Put, SavedViews, Answer
    <2> QED
      BY <2>1, <2>4 DEF Scratch!ScratchNext
  <1>8. CASE RangeWithWriter
    <2> DEFINE opt == Head(replies).call.opt
    <2>1. base' = base /\ backup' = backup /\ counter' = counter /\ Answer' = <<>>
      BY <1>8 DEF RangeWithWriter, Reply, Answer
    <2>2. View(AfterRange(opt), base) = View(cache, base)
      BY <1>a, AfterRangeLemma
    <2>3. cache' = cache \/ cache' = AfterRange(opt)
      BY <1>8 DEF RangeWithWriter
    <2>4. View(cache, base)' = View(cache, base)
      BY <1>d, <2>1, <2>2, <2>3
    <2> QED
      BY <1>b, <2>1, <2>4, QuietStep
  <1>9. CASE PanickedReply
    BY <1>2, <1>9 DEF PanickedReply, writerVars
  <1>10. CASE Snapshot
    <2>1. counter \in SnapshotIds /\ counter < MaxSnapshots /\ counter' = counter + 1
      BY <1>0, <1>10, ReadWriterAssumption DEF Snapshot, SnapshotIds, TypeOK
    <2>2. base' = base /\ cache' = cache /\ Answer' = <<>>
      BY <1>10 DEF Snapshot, Answer
    <2>3. backup' = [backup EXCEPT ![counter] = cache] /\ cache # None
      <3>1. None \notin Cache
        BY SentinelAssumption
      <3> QED
        BY <1>a, <1>10, <3>1 DEF Snapshot
    <2>4. SavedViews' = [SavedViews EXCEPT ![counter] = View(cache, base)]
      BY <1>0, <2>1, <2>2, <2>3 DEF SavedViews, TypeOK, View, Lookup, IsCached
    <2>5. Scratch!Checkpoint
      BY <1>c, <2>1, <2>2, <2>4 DEF Scratch!Checkpoint, SavedViews, Answer
    <2> QED
      BY <2>5 DEF Scratch!ScratchNext
  <1>11. ASSUME NEW i \in SnapshotIds, RestoreSnapshot(i)
         PROVE  [Scratch!ScratchNext]_Scratch!scratchVars
    <2>1. CASE backup[i] = None
      BY <1>2, <1>11, <2>1 DEF RestoreSnapshot
    <2>2. CASE backup[i] # None
      <3>1. /\ cache' = backup[i] /\ backup' = NoBackup
            /\ base' = base /\ counter' = counter /\ Answer' = <<>>
        BY <1>11, <2>2 DEF RestoreSnapshot, Answer
      <3>2. backup[i] \in Cache
        BY <1>0, <2>2 DEF TypeOK
      <3>3. SavedViews[i] = View(backup[i], base) /\ SavedViews[i] # None
        BY <1>a, <2>2, <3>2, ViewTypes DEF SavedViews
      <3>4. View(cache, base)' = SavedViews[i]
        BY <1>d, <3>1, <3>3
      <3>5. Scratch!Rollback(i)
        BY <1>e, <3>1, <3>3, <3>4 DEF Scratch!Rollback, SavedViews, Answer
      <3> QED
        BY <3>5 DEF Scratch!ScratchNext, SnapshotIds
    <2> QED
      BY <2>1, <2>2
  <1>12. CASE Close
    <2>1. CASE thread = "exited" \/ poisoned
      BY <1>2, <1>12, <2>1 DEF Close, writerVars
    <2>2. CASE ~(thread = "exited" \/ poisoned)
      <3>1. /\ cache' = EmptyCache /\ backup' = NoBackup
            /\ base' = base /\ counter' = counter /\ Answer' = <<>>
        BY <1>12, <2>2 DEF Close, Answer
      <3>2. View(cache, base)' = base
        BY <1>a, <1>d, <3>1, EmptyCacheLemma
      <3>3. Scratch!Reset
        BY <1>e, <3>1, <3>2 DEF Scratch!Reset, SavedViews, Answer
      <3> QED
        BY <3>3 DEF Scratch!ScratchNext
    <2> QED
      BY <2>1, <2>2
  <1>13. CASE UNCHANGED vars
    BY <1>1, <1>13 DEF vars
  <1> QED
    BY <1>3, <1>4, <1>5, <1>6, <1>7, <1>8, <1>9, <1>10, <1>11, <1>12, <1>13 DEF Next

\* A read-writer is a private map with checkpoints, however its calls, its
\* replies and its synchronous operations interleave.
THEOREM Refinement == Spec => ScratchRefined
  BY InitRefined, NextRefined, Invariance, PTL DEF Spec, ScratchRefined, Scratch!ScratchSpec

----------------------------------------------------------------------------
(* Varints.                                                                *)

\* The place values are the powers of Group.
LEMMA PlaceValues ==
    /\ Place[0] = 1
    /\ \A n \in 1 .. MaxGroups : Place[n] = Group * Place[n - 1]
    /\ \A n \in 0 .. MaxGroups : Place[n] \in Nat /\ Place[n] > 0
<1> USE CodecAssumption
<1> DEFINE step == [x \in Nat \X Nat |-> Group * x[2]]
<1>1. PICK f : Recurs(f, Nat, 1, step, MaxGroups)
  <2>1. step \in [Nat \X Nat -> Nat]
      OBVIOUS
  <2> HIDE DEF step
  <2> QED BY <2>1, Recursion
<1>2. f = [n \in 0 .. MaxGroups |-> IF n = 0 THEN 1 ELSE Group * f[n - 1]]
  <2>1. ASSUME NEW n \in 0 .. MaxGroups, n # 0
        PROVE  f[n] = Group * f[n - 1]
    <3>1. n \in 1 .. MaxGroups /\ <<n, f[n - 1]>> \in Nat \X Nat
        BY <1>1, <2>1 DEF Recurs
    <3> QED BY <1>1, <3>1 DEF Recurs
  <2> QED BY <1>1, <2>1 DEF Recurs
<1>3. Place = [n \in 0 .. MaxGroups |-> IF n = 0 THEN 1 ELSE Group * Place[n - 1]]
    BY <1>2 DEF Place
<1>4. Place[0] = 1 /\ \A n \in 1 .. MaxGroups : Place[n] = Group * Place[n - 1]
    BY <1>3
<1> DEFINE S == {n \in Nat : n <= MaxGroups => Place[n] \in Nat /\ Place[n] > 0}
<1>5. 0 \in S
    BY <1>4
<1>6. ASSUME NEW n \in Nat, n \in S
      PROVE  n + 1 \in S
  <2>1. CASE n + 1 <= MaxGroups
    <3>1. Place[n + 1] = Group * Place[n] /\ Place[n] \in Nat /\ Place[n] > 0
        BY <1>4, <1>6, <2>1
    <3>2. Group * Place[n] \in Nat /\ Group * Place[n] > 0
        BY <3>1
    <3> QED BY <3>1, <3>2
  <2> QED BY <2>1
<1>7. Nat \subseteq S
  <2> HIDE DEF S
  <2> QED BY <1>5, <1>6, SetInduction
<1> QED BY <1>4, <1>7

\* The remainder of a division is the only one below the divisor.
LEMMA Remainder ==
    ASSUME NEW m \in Nat, m > 0, NEW t \in Nat, NEW r \in Nat, r < m
    PROVE  (t * m + r) % m = r /\ (t * m + r) \div m = t
OBVIOUS

\* One digit more.
LEMMA DigitStep ==
    ASSUME NEW v \in Nat, NEW p \in Nat, p > 0
    PROVE  v % (Group * p) = (v % p) + ((v \div p) % Group) * p
<1> USE CodecAssumption
<1> DEFINE q == v \div p
           r == v % p
           d == q % Group
           t == q \div Group
<1>1. q \in Nat /\ r \in 0 .. p - 1 /\ v = p * q + r
    OBVIOUS
<1>2. t \in Nat /\ d \in 0 .. Group - 1 /\ q = Group * t + d
    BY <1>1
<1> HIDE DEF q, r, d, t
<1>4. d * p + r \in Nat /\ d * p + r < Group * p
    BY <1>1, <1>2
<1>5. Group * p \in Nat /\ Group * p > 0
    BY <1>4
<1>6. t * (Group * p) + (d * p + r) = v
    BY <1>1, <1>2
<1>7. v % (Group * p) = d * p + r
    BY <1>2, <1>4, <1>5, <1>6, Remainder
<1> QED BY <1>7 DEF r, d, q

\* A value that can be held has a size.
LEMMA SizeOfVarint ==
    ASSUME NEW v \in Nat, v < Readable
    PROVE  /\ VarintSize(v) \in 1 .. MaxGroups
           /\ v < Place[VarintSize(v)]
           /\ VarintSize(v) > 1 => v >= Place[VarintSize(v) - 1]
<1> USE CodecAssumption
<1> DEFINE S == {n \in 1 .. MaxGroups : v < Place[n]}
<1>1. MaxGroups \in S
  <2> DEFINE p == Place[MaxGroups - 1]
  <2>1. p \in Nat /\ Place[MaxGroups] = Group * p
      BY PlaceValues
  <2>2. LastMax + 1 \in Nat /\ LastMax + 1 <= Group
      OBVIOUS
  <2>3. (LastMax + 1) * p <= Group * p
      BY <2>1, <2>2
  <2>4. Group * p \in Nat /\ (LastMax + 1) * p \in Nat
      BY <2>1, <2>2
  <2> QED BY <2>1, <2>3, <2>4 DEF Readable
<1>2. PICK n \in S : \A m \in S : n <= m
  <2>1. S \in SUBSET Nat /\ S # {}
      BY <1>1
  <2> HIDE DEF S
  <2> QED BY <2>1, LeastNatural
<1>3. n > 1 => v >= Place[n - 1]
  <2> SUFFICES ASSUME n > 1
               PROVE  v >= Place[n - 1]
      OBVIOUS
  <2>1. n - 1 \in 1 .. MaxGroups /\ n - 1 \notin S
      BY <1>2
  <2>2. Place[n - 1] \in Nat
      BY <2>1, PlaceValues
  <2> QED BY <2>1, <2>2
<1>4. \E k \in 1 .. MaxGroups : v < Place[k] /\ (k > 1 => v >= Place[k - 1])
    BY <1>2, <1>3
<1> QED BY <1>4 DEF VarintSize

\* The bytes of a varint: the digits of the value, the flag on all but the
\* last.
LEMMA VarintBytes ==
    ASSUME NEW v \in Nat, v < Readable
    PROVE  /\ WriteVarint(v) \in Seq(Bytes)
           /\ Len(WriteVarint(v)) = VarintSize(v)
           /\ \A i \in 1 .. VarintSize(v) :
                 WriteVarint(v)[i] % Group = (v \div Place[i - 1]) % Group
           /\ \A i \in 1 .. VarintSize(v) - 1 : WriteVarint(v)[i] >= Group
           /\ WriteVarint(v)[VarintSize(v)] < Group
           /\ VarintSize(v) = MaxGroups => WriteVarint(v)[MaxGroups] <= LastMax
<1> USE CodecAssumption
<1> DEFINE size == VarintSize(v)
           digit(i) == (v \div Place[i - 1]) % Group
           w == [i \in 1 .. size |-> digit(i) + (IF i < size THEN Group ELSE 0)]
<1>1. w = WriteVarint(v)
    BY DEF WriteVarint
<1>2. size \in 1 .. MaxGroups
    BY SizeOfVarint
<1> HIDE DEF size
<1>3. ASSUME NEW i \in 1 .. size
      PROVE  digit(i) \in 0 .. Group - 1
  <2>1. Place[i - 1] \in Nat /\ Place[i - 1] > 0
      BY <1>2, PlaceValues
  <2>2. v \div Place[i - 1] \in Nat
      BY <2>1
  <2> QED BY <2>2
<1>4. size = MaxGroups => digit(size) <= LastMax
  <2> SUFFICES ASSUME size = MaxGroups
               PROVE  digit(MaxGroups) <= LastMax
      OBVIOUS
  <2> DEFINE p == Place[MaxGroups - 1]
  <2>1. p \in Nat /\ p > 0
      BY PlaceValues
  <2>2. v < (LastMax + 1) * p
      BY DEF Readable
  <2> HIDE DEF p
  <2> DEFINE q == v \div p
  <2>3. q \in Nat /\ p * q <= v
      BY <2>1
  <2> HIDE DEF q
  <2>4. p * q < p * (LastMax + 1)
      BY <2>1, <2>2, <2>3
  <2>5. q < LastMax + 1
    <3>1. q >= LastMax + 1 => p * q >= p * (LastMax + 1)
        BY <2>1, <2>3
    <3> QED BY <2>1, <2>3, <2>4, <3>1
  <2>6. q % Group = q
      BY <2>3, <2>5
  <2>7. digit(MaxGroups) = q % Group
      BY DEF q, p
  <2> HIDE DEF digit
  <2> QED BY <2>3, <2>5, <2>6, <2>7
<1> HIDE DEF digit
<1>5. \A i \in 1 .. size : w[i] \in Bytes
    BY <1>2, <1>3 DEF Bytes
<1>6. w \in Seq(Bytes) /\ Len(w) = size
    BY <1>2, <1>5
<1>7. \A i \in 1 .. size : w[i] % Group = digit(i)
    BY <1>3
<1>8. \A i \in 1 .. size - 1 : w[i] >= Group
    BY <1>2, <1>3
<1>9. w[size] = digit(size) /\ w[size] < Group
    BY <1>2, <1>3
<1>10. size = MaxGroups => w[MaxGroups] <= LastMax
    BY <1>4, <1>9
<1> HIDE DEF w
<1> QED BY <1>1, <1>6, <1>7, <1>8, <1>9, <1>10 DEF digit, size

\* The digits of a value are the value, as far as they go.
LEMMA DigitsOfValue ==
    ASSUME NEW data, NEW index \in Nat, NEW n \in 0 .. MaxGroups, NEW v \in Nat,
           \A i \in 1 .. n : data[index + i] % Group = (v \div Place[i - 1]) % Group
    PROVE  Digits(data, index, n) = v % Place[n]
<1> USE CodecAssumption
<1> DEFINE f == [i \in 0 .. n |-> v % Place[i]]
           body(g) == [i \in 0 .. n |->
                          IF i = 0 THEN 0
                          ELSE g[i - 1] + (data[index + i] % Group) * Place[i - 1]]
           value == CHOOSE g : g = body(g)
<1>1. f[0] = 0
    BY PlaceValues
<1>2. ASSUME NEW i \in 1 .. n
      PROVE  f[i] = f[i - 1] + (data[index + i] % Group) * Place[i - 1]
  <2>1. Place[i] = Group * Place[i - 1] /\ Place[i - 1] \in Nat /\ Place[i - 1] > 0
      BY PlaceValues
  <2>2. v % Place[i] = (v % Place[i - 1]) + ((v \div Place[i - 1]) % Group) * Place[i - 1]
      BY <2>1, DigitStep
  <2> QED BY <2>2
<1>3. f = body(f)
  <2>1. \A i \in 0 .. n : i = 0 \/ i \in 1 .. n
      OBVIOUS
  <2> QED BY <1>1, <1>2, <2>1
<1>4. value[0] = 0 /\ \A i \in 1 .. n :
          value[i] = value[i - 1] + (data[index + i] % Group) * Place[i - 1]
  <2>1. value = body(value)
      BY <1>3
  <2> HIDE DEF value
  <2>2. \A i \in 0 .. n : value[i] = body(value)[i]
      BY <2>1
  <2> QED BY <2>2
<1>5. Digits(data, index, n) = value[n]
    BY DEF Digits
<1>6. f[n] = v % Place[n]
    OBVIOUS
<1> HIDE DEF f, value
<1> DEFINE S == {i \in Nat : i <= n => value[i] = f[i]}
<1>7. 0 \in S
    BY <1>1, <1>4
<1>8. ASSUME NEW i \in Nat, i \in S
      PROVE  i + 1 \in S
  <2>1. CASE i + 1 <= n
    <3>1. i + 1 \in 1 .. n /\ (i + 1) - 1 = i /\ value[i] = f[i]
        BY <1>8, <2>1
    <3> QED BY <1>2, <1>4, <3>1
  <2> QED BY <2>1
<1>9. Nat \subseteq S
  <2> HIDE DEF S
  <2> QED BY <1>7, <1>8, SetInduction
<1>10. value[n] = f[n]
    BY <1>9
<1> QED BY <1>5, <1>6, <1>10

\* s stands in data behind the first index bytes.
Stands(data, index, s) ==
    /\ index + Len(s) <= Len(data)
    /\ \A i \in 1 .. Len(s) : data[index + i] = s[i]

\* read_varint undoes write_varint, wherever the varint stands in the data.
THEOREM VarintReadBack ==
    ASSUME NEW data \in Seq(Bytes), NEW index \in Nat, NEW v \in Nat, v < Readable,
           Stands(data, index, WriteVarint(v))
    PROVE  ReadVarint(data, index) = Answered("ok", v, index + Len(WriteVarint(v)))
<1> USE CodecAssumption
<1> DEFINE size == VarintSize(v)
           w == WriteVarint(v)
           ends == {n \in 1 .. MaxGroups : index + n <= Len(data) /\ data[index + n] < Group}
                       \union {MaxGroups + 1}
<1>1. size \in 1 .. MaxGroups /\ v < Place[size]
    BY SizeOfVarint
<1>2. /\ w \in Seq(Bytes)
      /\ Len(w) = size
      /\ \A i \in 1 .. size : w[i] % Group = (v \div Place[i - 1]) % Group
      /\ \A i \in 1 .. size - 1 : w[i] >= Group
      /\ w[size] < Group
      /\ size = MaxGroups => w[MaxGroups] <= LastMax
    BY VarintBytes
<1>3. index + size <= Len(data) /\ \A i \in 1 .. size : data[index + i] = w[i]
    BY <1>2 DEF Stands
<1>4. \A i \in 1 .. size : w[i] \in Nat
    BY <1>2 DEF Bytes
<1> HIDE DEF size, w
<1>5. Lists!Min(ends) = size
  <2>1. size \in ends
      BY <1>1, <1>2, <1>3
  <2>2. ASSUME NEW n \in ends
        PROVE  size <= n
    <3>1. CASE n \in 1 .. size - 1
      <4>1. data[index + n] = w[n] /\ w[n] \in Nat /\ w[n] >= Group
          BY <1>1, <1>2, <1>3, <1>4, <3>1
      <4> QED BY <1>1, <1>3, <3>1, <4>1
    <3> QED BY <1>1, <3>1
  <2>3. ends \subseteq Nat
      OBVIOUS
  <2> HIDE DEF ends
  <2>4. \E n \in ends : \A m \in ends : n <= m
      BY <2>1, <2>2
  <2> DEFINE least == CHOOSE n \in ends : \A m \in ends : n <= m
  <2>5. least \in ends /\ \A m \in ends : least <= m
      BY <2>4
  <2>6. Lists!Min(ends) = least
      BY DEF Lists!Min
  <2> HIDE DEF least
  <2>7. size \in Nat /\ least \in Nat /\ size <= least /\ least <= size
      BY <2>1, <2>2, <2>3, <2>5
  <2> QED BY <2>6, <2>7
<1>6. Digits(data, index, size) = v
  <2>1. \A i \in 1 .. size : data[index + i] % Group = (v \div Place[i - 1]) % Group
      BY <1>2, <1>3
  <2>2. Digits(data, index, size) = v % Place[size]
      BY <1>1, <2>1, DigitsOfValue
  <2>3. Place[size] \in Nat /\ Place[size] > 0
      BY <1>1, PlaceValues
  <2>4. v % Place[size] = v
      BY <1>1, <2>3
  <2> QED BY <2>2, <2>4
<1>7. ~(size > MaxGroups \/ (size = MaxGroups /\ data[index + size] > LastMax))
    BY <1>1, <1>2, <1>3, <1>4
<1> HIDE DEF ends
<1>8. ReadVarint(data, index)
          = IF size > MaxGroups \/ (size = MaxGroups /\ data[index + size] > LastMax)
            THEN Answered("error", 0, index)
            ELSE Answered("ok", Digits(data, index, size), index + size)
    BY <1>5 DEF ReadVarint, ends
<1> QED BY <1>2, <1>6, <1>7, <1>8 DEF w

----------------------------------------------------------------------------
(* Fields.                                                                 *)

\* What stands in data stands there part by part.
LEMMA StandsBoth ==
    ASSUME NEW data \in Seq(Bytes), NEW index \in Nat,
           NEW s \in Seq(Bytes), NEW t \in Seq(Bytes), Stands(data, index, s \o t)
    PROVE  Stands(data, index, s) /\ Stands(data, index + Len(s), t)
<1>1. /\ Len(s) \in Nat /\ Len(t) \in Nat /\ Len(data) \in Nat
      /\ Len(s \o t) = Len(s) + Len(t)
      /\ \A i \in 1 .. Len(s) : (s \o t)[i] = s[i]
      /\ \A i \in 1 .. Len(t) : (s \o t)[Len(s) + i] = t[i]
    OBVIOUS
<1> DEFINE u == s \o t
<1>2. /\ index + Len(u) <= Len(data)
      /\ \A i \in 1 .. Len(u) : data[index + i] = u[i]
    BY DEF Stands
<1> HIDE DEF u
<1>3. Stands(data, index, s)
  <2>1. \A i \in 1 .. Len(s) : i \in 1 .. Len(u)
      BY <1>1 DEF u
  <2> QED BY <1>1, <1>2, <2>1 DEF Stands, u
<1>4. Stands(data, index + Len(s), t)
  <2>1. ASSUME NEW i \in 1 .. Len(t)
        PROVE  data[index + Len(s) + i] = t[i]
    <3>1. Len(s) + i \in 1 .. Len(u) /\ index + (Len(s) + i) = index + Len(s) + i
        BY <1>1 DEF u
    <3>2. u[Len(s) + i] = t[i]
        BY <1>1 DEF u
    <3> QED BY <1>2, <3>1, <3>2
  <2> QED BY <1>1, <1>2, <2>1 DEF Stands, u
<1> QED BY <1>3, <1>4

\* A field whose key and length a varint can hold.
Fits(field, value) ==
    /\ field \in Nat
    /\ field * 8 + 2 < Readable
    /\ value \in Seq(Bytes)
    /\ Len(value) < Readable

\* A field is its key, its length and its bytes.
LEMMA FieldBytes ==
    ASSUME NEW field, NEW value, Fits(field, value)
    PROVE  /\ WriteKey(field) \in Seq(Bytes)
           /\ WriteVarint(Len(value)) \in Seq(Bytes)
           /\ WriteBytes(field, value) \in Seq(Bytes)
           /\ Len(WriteBytes(field, value))
                 = Len(WriteKey(field)) + Len(WriteVarint(Len(value))) + Len(value)
           /\ Len(WriteKey(field)) > 0
<1>1. field * 8 + 2 \in Nat /\ Len(value) \in Nat /\ value \in Seq(Bytes)
    BY DEF Fits
<1>2. WriteKey(field) \in Seq(Bytes) /\ Len(WriteKey(field)) = VarintSize(field * 8 + 2)
    BY <1>1, VarintBytes DEF Fits, WriteKey
<1>3. WriteVarint(Len(value)) \in Seq(Bytes)
    BY <1>1, VarintBytes DEF Fits
<1>4. VarintSize(field * 8 + 2) \in 1 .. MaxGroups
    BY <1>1, SizeOfVarint DEF Fits
<1>5. Len(WriteKey(field)) > 0
    BY <1>2, <1>4, CodecAssumption
<1> DEFINE key == WriteKey(field)
           len == WriteVarint(Len(value))
<1>6. WriteBytes(field, value) = key \o len \o value
    BY DEF WriteBytes
<1> HIDE DEF key, len
<1>7. \A s, t, u \in Seq(Bytes) :
          s \o t \o u \in Seq(Bytes) /\ Len(s \o t \o u) = Len(s) + Len(t) + Len(u)
    OBVIOUS
<1>8. key \in Seq(Bytes) /\ len \in Seq(Bytes)
    BY <1>2, <1>3 DEF key, len
<1>9. WriteBytes(field, value) \in Seq(Bytes)
          /\ Len(WriteBytes(field, value)) = Len(key) + Len(len) + Len(value)
    BY <1>1, <1>6, <1>7, <1>8
<1> QED BY <1>2, <1>3, <1>5, <1>9 DEF key, len

\* A field is read back, wherever it stands.
LEMMA FieldReadBack ==
    ASSUME NEW data \in Seq(Bytes), NEW index \in Nat, NEW field, NEW value,
           Fits(field, value), Stands(data, index, WriteBytes(field, value))
    PROVE  ReadItem(data, index, field)
               = Answered("ok", value, index + Len(WriteBytes(field, value)))
<1> DEFINE key == WriteKey(field)
           len == WriteVarint(Len(value))
           afterKey == index + Len(key)
           afterLen == afterKey + Len(len)
<1>1. /\ field \in Nat /\ field * 8 + 2 \in Nat /\ field * 8 + 2 < Readable
      /\ value \in Seq(Bytes) /\ Len(value) \in Nat /\ Len(value) < Readable
    BY DEF Fits
<1>2. /\ key \in Seq(Bytes) /\ len \in Seq(Bytes)
      /\ Len(key) \in Nat /\ Len(key) > 0 /\ Len(len) \in Nat
      /\ Len(WriteBytes(field, value)) = Len(key) + Len(len) + Len(value)
    BY FieldBytes
<1>3. Stands(data, index, key) /\ Stands(data, afterKey, len) /\ Stands(data, afterLen, value)
  <2> HIDE DEF key, len
  <2>1. WriteBytes(field, value) = (key \o len) \o value
      BY DEF WriteBytes, key, len
  <2>2. key \o len \in Seq(Bytes) /\ Len(key \o len) = Len(key) + Len(len)
      BY <1>2
  <2>3. Stands(data, index, key \o len) /\ Stands(data, index + Len(key \o len), value)
      BY <1>1, <2>1, <2>2, StandsBoth
  <2>4. Stands(data, index, key) /\ Stands(data, index + Len(key), len)
      BY <1>2, <2>3, StandsBoth
  <2>5. index + Len(key \o len) = afterLen
      BY <1>2, <2>2
  <2> QED BY <2>3, <2>4, <2>5
<1>4. ReadVarint(data, index) = Answered("ok", field * 8 + 2, afterKey)
    BY <1>1, <1>3, VarintReadBack DEF WriteKey
<1>5. Check(data, index, field) = Answered("ok", 0, afterKey)
  <2>1. index < Len(data)
    <3>1. index + Len(key) <= Len(data)
        BY <1>3 DEF Stands
    <3> HIDE DEF key
    <3> QED BY <1>2, <3>1
  <2>2. (field * 8 + 2) % 8 = 2 /\ (field * 8 + 2) \div 8 = field
      BY <1>1
  <2> HIDE DEF afterKey
  <2>3. Field(Answered("ok", field * 8 + 2, afterKey), index, field) = Answered("ok", 0, afterKey)
      BY <2>2 DEF Field, Answered
  <2> QED BY <1>4, <2>1, <2>3 DEF Check
<1>6. afterKey \in Nat /\ afterLen \in Nat
  <2> HIDE DEF key, len
  <2> QED BY <1>2
<1>7. ReadVarint(data, afterKey) = Answered("ok", Len(value), afterLen)
  <2> HIDE DEF afterKey
  <2> QED BY <1>1, <1>3, <1>6, VarintReadBack
<1>8. afterLen + Len(value) <= Len(data) /\ \A i \in 1 .. Len(value) : data[afterLen + i] = value[i]
    BY <1>3 DEF Stands
<1> HIDE DEF afterKey, afterLen
<1>9. SubSeq(data, afterLen + 1, afterLen + Len(value)) = value
    BY <1>1, <1>6, <1>8
<1>10. ReadOnlyBytes(data, afterKey) = Answered("ok", value, afterLen + Len(value))
  <2>1. ~(Len(value) > Len(data)) /\ ~(afterLen + Len(value) > Len(data))
      BY <1>1, <1>6, <1>8
  <2> DEFINE size == ReadVarint(data, afterKey)
  <2>2. size.status = "ok" /\ size.value = Len(value) /\ size.index = afterLen
      BY <1>7 DEF Answered
  <2>3. ReadOnlyBytes(data, afterKey)
            = IF size.status # "ok" \/ size.value > Len(data) THEN Answered("error", <<>>, afterKey)
              ELSE IF size.index + size.value > Len(data) THEN Answered("panic", <<>>, afterKey)
              ELSE Answered("ok", SubSeq(data, size.index + 1, size.index + size.value),
                            size.index + size.value)
      BY DEF ReadOnlyBytes
  <2> HIDE DEF size
  <2> QED BY <1>9, <2>1, <2>2, <2>3
<1>11. afterLen + Len(value) = index + Len(WriteBytes(field, value))
  <2> HIDE DEF key, len
  <2> QED BY <1>1, <1>2 DEF afterKey, afterLen
<1> QED BY <1>5, <1>10, <1>11 DEF ReadItem, Answered

\* Behind the first index bytes comes no field of this number: the data end
\* there, or with another field.
NotField(data, index, field) ==
    \/ index = Len(data)
    \/ \E other, value :
          other # field /\ Fits(other, value) /\ Stands(data, index, WriteBytes(other, value))

\* Where no such field comes none is read, and nothing is consumed.
LEMMA AbsentField ==
    ASSUME NEW data \in Seq(Bytes), NEW index \in Nat, NEW field \in Nat,
           NotField(data, index, field)
    PROVE  ReadItem(data, index, field) = Answered("absent", <<>>, index)
<1>1. Check(data, index, field) = Answered("absent", 0, index)
  <2>1. CASE index = Len(data)
      BY <2>1 DEF Check
  <2>2. CASE index # Len(data)
    <3>1. PICK other, value : other # field /\ Fits(other, value)
                                /\ Stands(data, index, WriteBytes(other, value))
        BY <2>2 DEF NotField
    <3> DEFINE key == WriteKey(other)
               rest == WriteVarint(Len(value)) \o value
    <3>2. /\ other \in Nat /\ other * 8 + 2 \in Nat /\ other * 8 + 2 < Readable
          /\ value \in Seq(Bytes)
        BY <3>1 DEF Fits
    <3>3. key \in Seq(Bytes) /\ WriteVarint(Len(value)) \in Seq(Bytes) /\ Len(key) > 0
        BY <3>1, FieldBytes
    <3>4. Stands(data, index, key)
      <4> HIDE DEF key
      <4>1. WriteBytes(other, value) = key \o rest /\ rest \in Seq(Bytes)
          BY <3>2, <3>3 DEF WriteBytes, key
      <4> HIDE DEF rest
      <4> QED BY <3>1, <3>3, <4>1, StandsBoth
    <3>5. ReadVarint(data, index) = Answered("ok", other * 8 + 2, index + Len(key))
        BY <3>2, <3>4, VarintReadBack DEF WriteKey
    <3>6. index < Len(data)
      <4>1. index + Len(key) <= Len(data)
          BY <3>4 DEF Stands
      <4> HIDE DEF key
      <4> QED BY <3>3, <4>1
    <3>7. (other * 8 + 2) % 8 = 2 /\ (other * 8 + 2) \div 8 = other
        BY <3>2
    <3> HIDE DEF key
    <3>8. Field(Answered("ok", other * 8 + 2, index + Len(key)), index, field)
              = Answered("absent", 0, index)
        BY <3>1, <3>7 DEF Field, Answered
    <3> QED BY <3>5, <3>6, <3>8 DEF Check
  <2> QED BY <2>1, <2>2
<1> QED BY <1>1 DEF ReadItem, Answered

----------------------------------------------------------------------------
(* Lists of fields.                                                        *)

\* Digits of bytes make a number.
LEMMA DigitsType ==
    ASSUME NEW data \in Seq(Bytes), NEW index \in Nat, NEW n \in 0 .. MaxGroups,
           index + n <= Len(data)
    PROVE  Digits(data, index, n) \in Nat
<1> USE CodecAssumption
<1> DEFINE add(i) == (data[index + i] % Group) * Place[i - 1]
           step == [x \in Nat \X Nat |-> x[2] + (IF x[1] \in 1 .. n THEN add(x[1]) ELSE 0)]
           body(g) == [i \in 0 .. n |-> IF i = 0 THEN 0 ELSE g[i - 1] + add(i)]
           value == CHOOSE g : g = body(g)
<1>1. ASSUME NEW i \in 1 .. n
      PROVE  add(i) \in Nat
  <2>1. data[index + i] \in Nat
      BY DEF Bytes
  <2>2. data[index + i] % Group \in Nat
      BY <2>1
  <2>3. Place[i - 1] \in Nat
      BY PlaceValues
  <2> HIDE CodecAssumption
  <2> QED BY <2>2, <2>3
<1> HIDE DEF add
<1>2. PICK f : Recurs(f, Nat, 0, step, n)
  <2>1. step \in [Nat \X Nat -> Nat]
    <3>1. \A x \in Nat \X Nat : x[2] + (IF x[1] \in 1 .. n THEN add(x[1]) ELSE 0) \in Nat
        BY <1>1
    <3> QED BY <3>1
  <2>2. n \in Nat /\ 0 \in Nat
      OBVIOUS
  <2> HIDE DEF step
  <2> QED BY <2>1, <2>2, Recursion
<1>3. f \in [0 .. n -> Nat] /\ f[0] = 0
    BY <1>2 DEF Recurs
<1>4. ASSUME NEW i \in 1 .. n
      PROVE  f[i] = f[i - 1] + add(i)
  <2>1. <<i, f[i - 1]>> \in Nat \X Nat
      BY <1>3
  <2>2. f[i] = step[<<i, f[i - 1]>>]
      BY <1>2 DEF Recurs
  <2> QED BY <2>1, <2>2
<1>5. f = body(f)
  <2>1. \A i \in 0 .. n : i = 0 \/ i \in 1 .. n
      OBVIOUS
  <2> QED BY <1>3, <1>4, <2>1
<1>6. value[0] = 0 /\ \A i \in 1 .. n : value[i] = value[i - 1] + add(i)
  <2>1. value = body(value)
      BY <1>5
  <2> HIDE DEF value
  <2>2. \A i \in 0 .. n : value[i] = body(value)[i]
      BY <2>1
  <2> QED BY <2>2
<1>7. Digits(data, index, n) = value[n]
    BY DEF Digits, add
<1> HIDE DEF value
<1> DEFINE S == {i \in Nat : i <= n => value[i] \in Nat}
<1>8. 0 \in S
    BY <1>6
<1>9. ASSUME NEW i \in Nat, i \in S
      PROVE  i + 1 \in S
  <2>1. CASE i + 1 <= n
    <3>1. i + 1 \in 1 .. n /\ (i + 1) - 1 = i /\ value[i] \in Nat
        BY <1>9, <2>1
    <3>2. value[i + 1] = value[i] + add(i + 1) /\ add(i + 1) \in Nat
        BY <1>1, <1>6, <3>1
    <3> QED BY <3>1, <3>2
  <2> QED BY <2>1
<1>10. Nat \subseteq S
  <2> HIDE DEF S
  <2> QED BY <1>8, <1>9, SetInduction
<1> QED BY <1>7, <1>10

\* A varint that is read has at least one byte, all of them among the data.
LEMMA VarintAdvances ==
    ASSUME NEW data \in Seq(Bytes), NEW index \in Nat,
           ReadVarint(data, index).status = "ok"
    PROVE  /\ ReadVarint(data, index).value \in Nat
           /\ ReadVarint(data, index).index \in index + 1 .. Len(data)
<1> USE CodecAssumption
<1> DEFINE ends == {n \in 1 .. MaxGroups : index + n <= Len(data) /\ data[index + n] < Group}
                       \union {MaxGroups + 1}
           size == Lists!Min(ends)
<1>1. size \in ends
  <2>1. ends \in SUBSET Nat /\ MaxGroups + 1 \in ends
      OBVIOUS
  <2> HIDE DEF ends
  <2>2. \E n \in ends : \A m \in ends : n <= m
      BY <2>1, LeastNatural
  <2> QED BY <2>2 DEF Lists!Min
<1>2. ReadVarint(data, index)
          = IF size > MaxGroups \/ (size = MaxGroups /\ data[index + size] > LastMax)
            THEN Answered("error", 0, index)
            ELSE Answered("ok", Digits(data, index, size), index + size)
    BY DEF ReadVarint
<1> HIDE DEF size
<1>3. ReadVarint(data, index) = Answered("ok", Digits(data, index, size), index + size)
          /\ ~(size > MaxGroups)
    BY <1>2 DEF Answered
<1>4. size \in 1 .. MaxGroups /\ index + size <= Len(data)
    BY <1>1, <1>3
<1>5. Digits(data, index, size) \in Nat
    BY <1>4, DigitsType
<1> QED BY <1>3, <1>4, <1>5 DEF Answered

\* So has an item.
LEMMA ItemAdvances ==
    ASSUME NEW data \in Seq(Bytes), NEW index \in Nat, NEW field,
           ReadItem(data, index, field).status = "ok"
    PROVE  ReadItem(data, index, field).index \in index + 1 .. Len(data)
<1> DEFINE next == Check(data, index, field)
           key == ReadVarint(data, index)
           size == ReadVarint(data, next.index)
           bytes == ReadOnlyBytes(data, next.index)
<1>1. next.status = "ok" /\ ReadItem(data, index, field) = bytes
    BY DEF ReadItem, Answered
<1>2. next.index \in index + 1 .. Len(data)
  <2>1. next = Field(key, index, field)
      BY <1>1 DEF Check, Answered
  <2>2. key.status = "ok" /\ next.index = key.index
      BY <1>1, <2>1 DEF Field, Answered
  <2> QED BY <2>2, VarintAdvances
<1> HIDE DEF next
<1>3. bytes = IF size.status # "ok" \/ size.value > Len(data) THEN Answered("error", <<>>, next.index)
              ELSE IF size.index + size.value > Len(data) THEN Answered("panic", <<>>, next.index)
              ELSE Answered("ok", SubSeq(data, size.index + 1, size.index + size.value),
                            size.index + size.value)
    BY DEF ReadOnlyBytes
<1>4. /\ size.status = "ok"
      /\ ~(size.index + size.value > Len(data))
      /\ bytes.index = size.index + size.value
    BY <1>1, <1>3 DEF Answered
<1>5. size.value \in Nat /\ size.index \in next.index + 1 .. Len(data)
    BY <1>2, <1>4, VarintAdvances
<1> HIDE DEF size, bytes
<1> QED BY <1>1, <1>2, <1>4, <1>5

\* A list is read item by item: each begins where the one before it ended.
LEMMA SliceByItem ==
    ASSUME NEW data \in Seq(Bytes), NEW index \in 0 .. Len(data), NEW field
    PROVE  LET item == ReadItem(data, index, field)
           IN  ReadBytesSlice(data, index, field)
                   = IF item.status = "ok"
                     THEN [ReadBytesSlice(data, item.index, field)
                              EXCEPT !.value = <<item.value>> \o @]
                     ELSE OrEmpty(item)
<1> DEFINE n == Len(data)
           item(i) == ReadItem(data, i, field)
           at(g, i) == IF item(i).status = "ok"
                       THEN [g[item(i).index] EXCEPT !.value = <<item(i).value>> \o @]
                       ELSE OrEmpty(item(i))
           slice == CHOOSE g : g = [i \in 0 .. n |-> at(g, i)]
           Partial(g, k) == g = [i \in n - k .. n |-> at(g, i)]
           S == {k \in Nat : k <= n => \E g : Partial(g, k)}
<1>1. n \in Nat
    OBVIOUS
<1>2. \A i \in 0 .. n : item(i).status = "ok" => item(i).index \in i + 1 .. n
    BY ItemAdvances
<1> HIDE DEF n, item
<1>3. 0 \in S
  <2> DEFINE g == [i \in n - 0 .. n |-> OrEmpty(item(n))]
  <2>1. \A i \in n - 0 .. n : i = n /\ item(i).status # "ok"
      BY <1>1, <1>2
  <2>2. Partial(g, 0)
      BY <2>1
  <2> QED BY <2>2
<1>4. ASSUME NEW k \in Nat, k \in S
      PROVE  k + 1 \in S
  <2> SUFFICES ASSUME k + 1 <= n
               PROVE  \E h : Partial(h, k + 1)
      OBVIOUS
  <2>1. PICK g : Partial(g, k)
      BY <1>1, <1>4
  <2> DEFINE m == n - (k + 1)
             h == [i \in m .. n |-> IF i = m THEN at(g, m) ELSE g[i]]
  <2>2. m \in 0 .. n /\ \A i \in m .. n : i \in 0 .. n /\ (i = m \/ i \in n - k .. n)
      BY <1>1
  <2>3. \A i \in n - k .. n : h[i] = g[i]
      BY <1>1
  <2>4. \A i \in m .. n : item(i).status = "ok" => h[item(i).index] = g[item(i).index]
    <3>1. \A i \in m .. n : i + 1 .. n \subseteq n - k .. n
        BY <1>1
    <3> HIDE DEF m, h
    <3> QED BY <1>2, <2>2, <2>3, <3>1
  <2>5. ASSUME NEW i \in m .. n
        PROVE  h[i] = at(h, i)
    <3>1. at(h, i) = at(g, i)
      <4> HIDE DEF h, m
      <4> QED BY <2>4
    <3>2. CASE i = m
        BY <3>1, <3>2
    <3>3. CASE i # m
      <4>1. i \in n - k .. n
          BY <2>2, <3>3
      <4>2. g[i] = at(g, i)
        <5> HIDE DEF at
        <5> QED BY <2>1, <4>1
      <4> QED BY <2>3, <3>1, <4>1, <4>2
    <3> QED BY <3>2, <3>3
  <2>6. h = [i \in m .. n |-> h[i]]
      OBVIOUS
  <2> HIDE DEF h
  <2>7. Partial(h, k + 1)
    <3> HIDE DEF at
    <3> QED BY <2>5, <2>6
  <2> QED BY <2>7
<1>5. n \in S
  <2> HIDE DEF S
  <2> QED BY <1>1, <1>3, <1>4, SetInduction
<1>6. \E g : g = [i \in 0 .. n |-> at(g, i)]
  <2>1. n - n .. n = 0 .. n
      BY <1>1
  <2>2. PICK g : Partial(g, n)
      BY <1>1, <1>5
  <2> QED BY <2>1, <2>2
<1>7. slice = [i \in 0 .. n |-> at(slice, i)]
  <2> HIDE DEF at
  <2> QED BY <1>6
<1>8. \A i \in 0 .. n : slice[i] = at(slice, i)
  <2> HIDE DEF at, slice
  <2> QED BY <1>7
<1>9. \A i : ReadBytesSlice(data, i, field) = slice[i]
    BY DEF ReadBytesSlice, n, item
<1> HIDE DEF slice
<1>10. index \in 0 .. n
    BY DEF n
<1>11. ReadBytesSlice(data, index, field)
           = IF item(index).status = "ok"
             THEN [slice[item(index).index] EXCEPT !.value = <<item(index).value>> \o @]
             ELSE OrEmpty(item(index))
    BY <1>8, <1>9, <1>10
<1> QED BY <1>9, <1>11 DEF item

\* flat[i] is the first i sequences, one after another.
Joins(flat, seqs) ==
    /\ flat \in [0 .. Len(seqs) -> Seq(Bytes)]
    /\ flat[0] = <<>>
    /\ \A i \in 1 .. Len(seqs) : flat[i] = flat[i - 1] \o seqs[i]

\* What FlattenSeq builds, step by step.
LEMMA Flattening ==
    ASSUME NEW seqs \in Seq(Seq(Bytes))
    PROVE  \E flat : Joins(flat, seqs) /\ flat[Len(seqs)] = Lists!FlattenSeq(seqs)
<1> DEFINE n == Len(seqs)
           A == Seq(Bytes)
           step == [x \in Nat \X A |-> IF x[1] \in 1 .. n THEN x[2] \o seqs[x[1]] ELSE x[2]]
           body(g) == [i \in 1 .. n |-> IF i = 1 THEN seqs[i] ELSE g[i - 1] \o seqs[i]]
           flatten == CHOOSE g : g = body(g)
<1>1. n \in Nat /\ <<>> \in A /\ \A i \in 1 .. n : seqs[i] \in A
    OBVIOUS
<1>2. PICK f : Recurs(f, A, <<>>, step, n)
  <2>1. \A x \in Nat \X A :
            (IF x[1] \in 1 .. n THEN x[2] \o seqs[x[1]] ELSE x[2]) \in A
    <3>1. ASSUME NEW i \in Nat, NEW s \in A
          PROVE  (IF i \in 1 .. n THEN s \o seqs[i] ELSE s) \in A
        BY <1>1
    <3> QED BY <3>1
  <2>2. step \in [Nat \X A -> A]
    <3> HIDE DEF A
    <3> QED BY <2>1
  <2> HIDE DEF step, n, A
  <2> QED BY <1>1, <2>2, Recursion
<1>3. f \in [0 .. n -> A] /\ f[0] = <<>>
    BY <1>2 DEF Recurs
<1>4. ASSUME NEW i \in 1 .. n
      PROVE  f[i] = f[i - 1] \o seqs[i]
  <2>1. <<i, f[i - 1]>> \in Nat \X A
    <3>1. i \in Nat /\ i - 1 \in 0 .. n
        BY <1>1
    <3> HIDE DEF A, n
    <3> QED BY <1>3, <3>1
  <2>2. f[i] = step[<<i, f[i - 1]>>]
      BY <1>2 DEF Recurs
  <2> HIDE DEF A
  <2> QED BY <2>1, <2>2
<1>5. Joins(f, seqs)
    BY <1>3, <1>4 DEF Joins
<1>6. CASE n = 0
  <2>1. Lists!FlattenSeq(seqs) = <<>>
      BY <1>6 DEF Lists!FlattenSeq
  <2> QED BY <1>3, <1>5, <1>6, <2>1
<1>7. CASE n > 0
  <2> DEFINE g == [i \in 1 .. n |-> f[i]]
  <2>1. n > 0 => f[1] = seqs[1]
    <3>1. ASSUME NEW s \in A
          PROVE  <<>> \o s = s
        OBVIOUS
    <3>2. 1 \in 1 .. n /\ 1 - 1 = 0
        BY <1>1, <1>7
    <3>3. f[1] = f[0] \o seqs[1] /\ seqs[1] \in A
        BY <1>1, <1>4, <3>2
    <3> HIDE DEF A
    <3> QED BY <1>3, <3>1, <3>3
  <2>2. g = body(g)
    <3>1. ASSUME NEW i \in 1 .. n
          PROVE  g[i] = IF i = 1 THEN seqs[i] ELSE g[i - 1] \o seqs[i]
      <4>1. CASE i = 1
          BY <1>7, <2>1, <4>1
      <4>2. CASE i # 1
        <5>1. i - 1 \in 1 .. n
            BY <1>1, <4>2
        <5>2. g[i] = f[i] /\ g[i - 1] = f[i - 1]
            BY <5>1
        <5> HIDE DEF g
        <5> QED BY <1>4, <4>2, <5>2
      <4> QED BY <4>1, <4>2
    <3> QED BY <3>1
  <2>3. flatten = body(flatten)
      BY <2>2
  <2>4. n > 0 => flatten[1] = seqs[1]
    <3> HIDE DEF flatten
    <3> QED BY <2>3
  <2>5. ASSUME NEW i \in 2 .. n
        PROVE  flatten[i] = flatten[i - 1] \o seqs[i]
    <3>1. i \in 1 .. n /\ i # 1
        BY <1>1
    <3> HIDE DEF flatten
    <3>2. flatten[i] = body(flatten)[i]
        BY <2>3
    <3> QED BY <3>1, <3>2
  <2>6. Lists!FlattenSeq(seqs) = flatten[n]
      BY <1>7 DEF Lists!FlattenSeq
  <2> HIDE DEF flatten, g
  <2> DEFINE S == {i \in Nat : i >= 1 /\ i <= n => flatten[i] = f[i]}
  <2>7. 0 \in S
      OBVIOUS
  <2>8. ASSUME NEW i \in Nat, i \in S
        PROVE  i + 1 \in S
    <3>1. CASE i = 0
        BY <2>1, <2>4, <3>1
    <3>2. CASE i > 0 /\ i + 1 <= n
      <4>1. i + 1 \in 2 .. n /\ i + 1 \in 1 .. n /\ (i + 1) - 1 = i /\ flatten[i] = f[i]
          BY <2>8, <3>2
      <4>2. flatten[i + 1] = f[i + 1]
          BY <1>4, <2>5, <4>1
      <4> QED BY <4>2
    <3> QED BY <3>1, <3>2
  <2>9. Nat \subseteq S
    <3> HIDE DEF S
    <3> QED BY <2>7, <2>8, SetInduction
  <2>10. flatten[n] = f[n]
      BY <1>1, <1>7, <2>9
  <2> QED BY <1>5, <2>6, <2>10
<1> QED BY <1>1, <1>6, <1>7

\* The sequences stand in data one after another.
PartsStand(data, index, flat, seqs) ==
    \A i \in 1 .. Len(seqs) :
        /\ Stands(data, index + Len(flat[i - 1]), seqs[i])
        /\ index + Len(flat[i]) = index + Len(flat[i - 1]) + Len(seqs[i])

\* What stands in data as a whole stands there sequence by sequence.
LEMMA SliceStands ==
    ASSUME NEW data \in Seq(Bytes), NEW index \in Nat,
           NEW seqs \in Seq(Seq(Bytes)), NEW flat, Joins(flat, seqs),
           Stands(data, index, flat[Len(seqs)])
    PROVE  PartsStand(data, index, flat, seqs)
<1> DEFINE n == Len(seqs)
           S == {k \in Nat : k <= n => Stands(data, index, flat[n - k])}
<1>1. n \in Nat /\ \A i \in 1 .. n : seqs[i] \in Seq(Bytes)
    OBVIOUS
<1>2. \A i \in 0 .. n : flat[i] \in Seq(Bytes)
    BY DEF Joins
<1>3. ASSUME NEW i \in 1 .. n, Stands(data, index, flat[i])
      PROVE  /\ Stands(data, index, flat[i - 1])
             /\ Stands(data, index + Len(flat[i - 1]), seqs[i])
  <2>1. flat[i] = flat[i - 1] \o seqs[i]
      BY DEF Joins
  <2>2. i - 1 \in 0 .. n
      BY <1>1
  <2> HIDE DEF n
  <2>3. flat[i - 1] \in Seq(Bytes) /\ seqs[i] \in Seq(Bytes)
      BY <1>1, <1>2, <2>2
  <2> QED BY <1>3, <2>1, <2>3, StandsBoth
<1> HIDE DEF n
<1>4. 0 \in S
    BY <1>1 DEF n
<1>5. ASSUME NEW k \in Nat, k \in S
      PROVE  k + 1 \in S
  <2>1. CASE k + 1 <= n
    <3>1. n - k \in 1 .. n /\ (n - k) - 1 = n - (k + 1) /\ Stands(data, index, flat[n - k])
        BY <1>1, <1>5, <2>1
    <3>2. Stands(data, index, flat[(n - k) - 1])
        BY <1>3, <3>1
    <3> QED BY <3>1, <3>2
  <2> QED BY <2>1
<1>6. Nat \subseteq S
  <2> HIDE DEF S
  <2> QED BY <1>4, <1>5, SetInduction
<1>7. ASSUME NEW i \in 1 .. n
      PROVE  Stands(data, index, flat[i])
  <2>1. n - i \in Nat /\ n - i <= n /\ n - (n - i) = i
      BY <1>1
  <2>2. n - i \in S
      BY <1>6, <2>1
  <2> QED BY <2>1, <2>2
<1>8. ASSUME NEW i \in 1 .. n
      PROVE  index + Len(flat[i]) = index + Len(flat[i - 1]) + Len(seqs[i])
  <2>1. flat[i] = flat[i - 1] \o seqs[i]
      BY DEF Joins, n
  <2>2. i - 1 \in 0 .. n
      BY <1>1
  <2>3. flat[i - 1] \in Seq(Bytes) /\ seqs[i] \in Seq(Bytes)
      BY <1>1, <1>2, <2>2
  <2>4. Len(flat[i]) = Len(flat[i - 1]) + Len(seqs[i])
      BY <2>1, <2>3
  <2> DEFINE a == Len(flat[i - 1])
             b == Len(seqs[i])
  <2>5. a \in Nat /\ b \in Nat
      BY <2>3
  <2> HIDE DEF a, b
  <2>6. index + (a + b) = index + a + b
      BY <2>5
  <2> QED BY <2>4, <2>6 DEF a, b
<1> QED BY <1>3, <1>7, <1>8 DEF PartsStand, n

\* The end of a sequence from one place on, and from the next.
LEMMA SubSeqHead ==
    ASSUME NEW T, NEW s \in Seq(T), NEW i \in 1 .. Len(s)
    PROVE  <<s[i]>> \o SubSeq(s, i + 1, Len(s)) = SubSeq(s, i, Len(s))
OBVIOUS

\* The fields of a list, and the list as bytes.
LEMMA SliceBytes ==
    ASSUME NEW field, NEW values, Len(values) \in Nat, DOMAIN values = 1 .. Len(values),
           \A i \in DOMAIN values : Fits(field, values[i])
    PROVE  /\ [i \in DOMAIN values |-> WriteBytes(field, values[i])] \in Seq(Seq(Bytes))
           /\ WriteBytesSlice(field, values) \in Seq(Bytes)
<1> DEFINE n == Len(values)
           seqs == [i \in DOMAIN values |-> WriteBytes(field, values[i])]
<1>1. \A i \in 1 .. n : seqs[i] \in Seq(Bytes)
    BY FieldBytes
<1>2. seqs = [i \in 1 .. n |-> seqs[i]]
    OBVIOUS
<1>3. WriteBytesSlice(field, values) = Lists!FlattenSeq(seqs)
    BY DEF WriteBytesSlice
<1> HIDE DEF seqs
<1>4. seqs \in Seq(Seq(Bytes)) /\ Len(seqs) = n
    BY <1>1, <1>2
<1>5. PICK flat : Joins(flat, seqs) /\ flat[Len(seqs)] = Lists!FlattenSeq(seqs)
    BY <1>4, Flattening
<1>6. flat[n] \in Seq(Bytes)
    BY <1>4, <1>5 DEF Joins
<1> QED BY <1>3, <1>4, <1>5, <1>6 DEF seqs

\* Another value in an answer.
LEMMA AnsweredValue ==
    ASSUME NEW status, NEW value, NEW index, NEW x
    PROVE  /\ Answered(status, value, index).value = value
           /\ [Answered(status, value, index) EXCEPT !.value = x] = Answered(status, x, index)
BY DEF Answered

\* A list is read back, wherever it stands, when no field of its number
\* follows it.
LEMMA SliceReadBack ==
    ASSUME NEW data \in Seq(Bytes), NEW index \in Nat, NEW field \in Nat,
           NEW values \in Seq(Seq(Bytes)),
           \A i \in DOMAIN values : Fits(field, values[i]),
           Stands(data, index, WriteBytesSlice(field, values)),
           NotField(data, index + Len(WriteBytesSlice(field, values)), field)
    PROVE  ReadBytesSlice(data, index, field)
               = Answered("ok", values, index + Len(WriteBytesSlice(field, values)))
<1> DEFINE n == Len(values)
           seqs == [i \in DOMAIN values |-> WriteBytes(field, values[i])]
<1>1. n \in Nat /\ DOMAIN values = 1 .. n /\ \A i \in 1 .. n : values[i] \in Seq(Bytes)
    OBVIOUS
<1>2. seqs \in Seq(Seq(Bytes)) /\ Len(seqs) = n /\ WriteBytesSlice(field, values) = Lists!FlattenSeq(seqs)
  <2>1. seqs \in Seq(Seq(Bytes))
      BY <1>1, SliceBytes
  <2>2. DOMAIN seqs = 1 .. n
      BY <1>1
  <2>3. Len(seqs) = n
    <3> HIDE DEF seqs
    <3> QED BY <1>1, <2>1, <2>2
  <2> QED BY <2>1, <2>3 DEF WriteBytesSlice
<1>3. \A i \in 1 .. n : seqs[i] = WriteBytes(field, values[i]) /\ Fits(field, values[i])
    BY <1>1
<1> HIDE DEF n, seqs
<1>4. PICK flat : Joins(flat, seqs) /\ flat[n] = WriteBytesSlice(field, values)
    BY <1>2, Flattening
<1> DEFINE pos(i) == index + Len(flat[i])
<1>5. \A i \in 1 .. n : Stands(data, pos(i - 1), seqs[i]) /\ pos(i) = pos(i - 1) + Len(seqs[i])
  <2>1. Stands(data, index, flat[Len(seqs)])
      BY <1>2, <1>4
  <2>2. PartsStand(data, index, flat, seqs)
    <3>1. seqs \in Seq(Seq(Bytes)) /\ Joins(flat, seqs)
        BY <1>2, <1>4
    <3> QED BY <2>1, <3>1, SliceStands
  <2> QED BY <1>2, <2>2 DEF PartsStand
<1>6. \A i \in 0 .. n : flat[i] \in Seq(Bytes) /\ pos(i) \in Nat
  <2>1. \A i \in 0 .. n : flat[i] \in Seq(Bytes)
      BY <1>2, <1>4 DEF Joins
  <2>2. \A s \in Seq(Bytes) : index + Len(s) \in Nat
      OBVIOUS
  <2> QED BY <2>1, <2>2
<1>7. pos(0) = index
    BY <1>4 DEF Joins
<1>8. pos(n) <= Len(data) /\ NotField(data, pos(n), field)
    BY <1>4 DEF Stands
<1> HIDE DEF pos
<1>9. \A i \in 0 .. n : pos(i) \in 0 .. Len(data)
  <2>1. ASSUME NEW i \in 1 .. n
        PROVE  pos(i - 1) <= Len(data)
    <3>1. pos(i - 1) + Len(seqs[i]) <= Len(data)
        BY <1>5 DEF Stands
    <3>2. seqs[i] \in Seq(Bytes) /\ i - 1 \in 0 .. n
        BY <1>1, <1>2
    <3>3. Len(seqs[i]) \in Nat /\ pos(i - 1) \in Nat /\ Len(data) \in Nat
        BY <1>6, <3>2
    <3> QED BY <3>1, <3>3
  <2>2. ASSUME NEW i \in 0 .. n
        PROVE  pos(i) <= Len(data)
    <3>1. CASE i = n
        BY <1>8, <3>1
    <3>2. CASE i # n
      <4>1. i + 1 \in 1 .. n /\ (i + 1) - 1 = i
          BY <1>1, <3>2
      <4> QED BY <2>1, <4>1
    <3> QED BY <3>1, <3>2
  <2> QED BY <1>6, <2>2
<1> DEFINE tail(i) == SubSeq(values, i + 1, n)
           Reads(i) == ReadBytesSlice(data, pos(i), field) = Answered("ok", tail(i), pos(n))
           S == {k \in Nat : k <= n => Reads(n - k)}
<1>10. Reads(n)
  <2>1. ReadItem(data, pos(n), field) = Answered("absent", <<>>, pos(n))
      BY <1>1, <1>6, <1>8, AbsentField
  <2>2. tail(n) = <<>>
      BY <1>1 DEF n
  <2>3. OrEmpty(Answered("absent", <<>>, pos(n))) = Answered("ok", <<>>, pos(n))
      BY DEF OrEmpty, Answered
  <2>4. pos(n) \in 0 .. Len(data)
      BY <1>1, <1>9
  <2>5. ReadItem(data, pos(n), field).status # "ok"
      BY <2>1 DEF Answered
  <2>6. ReadBytesSlice(data, pos(n), field) = OrEmpty(ReadItem(data, pos(n), field))
      BY <2>4, <2>5, SliceByItem
  <2> QED BY <2>1, <2>2, <2>3, <2>6
<1>11. ASSUME NEW i \in 1 .. n, Reads(i)
       PROVE  Reads(i - 1)
  <2>1. i - 1 \in 0 .. n /\ pos(i - 1) \in Nat /\ pos(i - 1) \in 0 .. Len(data)
      BY <1>1, <1>6, <1>9
  <2>2. ReadItem(data, pos(i - 1), field) = Answered("ok", values[i], pos(i))
    <3>1. /\ Fits(field, values[i])
          /\ Stands(data, pos(i - 1), WriteBytes(field, values[i]))
          /\ pos(i) = pos(i - 1) + Len(WriteBytes(field, values[i]))
        BY <1>3, <1>5
    <3> QED BY <2>1, <3>1, FieldReadBack
  <2>3. ReadBytesSlice(data, pos(i - 1), field)
            = [ReadBytesSlice(data, pos(i), field) EXCEPT !.value = <<values[i]>> \o @]
    <3> DEFINE item == ReadItem(data, pos(i - 1), field)
    <3>1. item.status = "ok" /\ item.value = values[i] /\ item.index = pos(i)
        BY <2>2 DEF Answered
    <3>2. ReadBytesSlice(data, pos(i - 1), field)
              = IF item.status = "ok"
                THEN [ReadBytesSlice(data, item.index, field) EXCEPT !.value = <<item.value>> \o @]
                ELSE OrEmpty(item)
        BY <2>1, SliceByItem
    <3> HIDE DEF item
    <3> QED BY <3>1, <3>2
  <2>4. <<values[i]>> \o tail(i) = tail(i - 1)
    <3>1. <<values[i]>> \o SubSeq(values, i + 1, Len(values)) = SubSeq(values, i, Len(values))
        BY SubSeqHead DEF n
    <3> QED BY <1>1, <3>1 DEF n
  <2> HIDE DEF tail
  <2> DEFINE rest == ReadBytesSlice(data, pos(i), field)
  <2>5. rest.value = tail(i)
      BY <1>11, AnsweredValue
  <2>6. ReadBytesSlice(data, pos(i - 1), field) = [rest EXCEPT !.value = tail(i - 1)]
      BY <2>3, <2>4, <2>5
  <2>7. [Answered("ok", tail(i), pos(n)) EXCEPT !.value = tail(i - 1)]
            = Answered("ok", tail(i - 1), pos(n))
      BY AnsweredValue
  <2> QED BY <1>11, <2>6, <2>7
<1> HIDE DEF Reads
<1>12. 0 \in S
    BY <1>1, <1>10
<1>13. ASSUME NEW k \in Nat, k \in S
       PROVE  k + 1 \in S
  <2>1. CASE k + 1 <= n
    <3>1. n - k \in 1 .. n /\ (n - k) - 1 = n - (k + 1) /\ Reads(n - k)
        BY <1>1, <1>13, <2>1
    <3>2. Reads((n - k) - 1)
        BY <1>11, <3>1
    <3> QED BY <3>1, <3>2
  <2> QED BY <2>1
<1>14. n \in S
  <2> HIDE DEF S
  <2> QED BY <1>1, <1>12, <1>13, SetInduction
<1>15. Reads(0)
    BY <1>1, <1>14
<1>16. tail(0) = values
    BY <1>1 DEF n
<1> QED BY <1>4, <1>7, <1>15, <1>16 DEF Reads, pos

\* The first field of a list stands where the list stands; an empty list
\* takes no bytes.
LEMMA SliceNotField ==
    ASSUME NEW data \in Seq(Bytes), NEW index \in Nat, NEW field \in Nat, NEW other,
           NEW values \in Seq(Seq(Bytes)),
           \A i \in DOMAIN values : Fits(other, values[i]),
           other # field,
           Stands(data, index, WriteBytesSlice(other, values)),
           NotField(data, index + Len(WriteBytesSlice(other, values)), field)
    PROVE  NotField(data, index, field)
<1> DEFINE n == Len(values)
           seqs == [i \in DOMAIN values |-> WriteBytes(other, values[i])]
<1>1. n \in Nat /\ DOMAIN values = 1 .. n
    OBVIOUS
<1>2. seqs \in Seq(Seq(Bytes)) /\ Len(seqs) = n /\ WriteBytesSlice(other, values) = Lists!FlattenSeq(seqs)
  <2>1. seqs \in Seq(Seq(Bytes))
      BY <1>1, SliceBytes
  <2>2. DOMAIN seqs = 1 .. n
      BY <1>1
  <2>3. Len(seqs) = n
    <3> HIDE DEF seqs
    <3> QED BY <1>1, <2>1, <2>2
  <2> QED BY <2>1, <2>3 DEF WriteBytesSlice
<1>3. \A i \in 1 .. n : seqs[i] = WriteBytes(other, values[i]) /\ Fits(other, values[i])
    BY <1>1
<1> HIDE DEF n, seqs
<1>4. PICK flat : Joins(flat, seqs) /\ flat[n] = WriteBytesSlice(other, values)
    BY <1>2, Flattening
<1>5. flat[0] = <<>>
    BY <1>4 DEF Joins
<1>6. CASE n = 0
  <2>1. index + Len(flat[n]) = index
      BY <1>5, <1>6
  <2> QED BY <1>4, <2>1
<1>7. CASE n > 0
  <2>1. 1 \in 1 .. n /\ 1 - 1 = 0 /\ index + Len(flat[0]) = index
      BY <1>1, <1>5, <1>7
  <2>2. Stands(data, index + Len(flat[1 - 1]), seqs[1])
    <3>1. Stands(data, index, flat[Len(seqs)])
        BY <1>2, <1>4
    <3>2. PartsStand(data, index, flat, seqs)
        BY <1>2, <1>4, <3>1, SliceStands
    <3> QED BY <1>2, <2>1, <3>2 DEF PartsStand
  <2>3. Stands(data, index, WriteBytes(other, values[1])) /\ Fits(other, values[1])
      BY <1>3, <2>1, <2>2
  <2> QED BY <2>3 DEF NotField
<1> QED BY <1>1, <1>6, <1>7

----------------------------------------------------------------------------
(* Diffs.                                                                  *)

Pair == [key : Seq(Bytes), value : Seq(Bytes)]

PairFits(pair) == Fits(1, pair.key) /\ Fits(2, pair.value)

\* A pair is decoded to what was encoded.
LEMMA PairReadBack ==
    ASSUME NEW pair \in Pair, PairFits(pair)
    PROVE  EncodePair(pair) \in Seq(Bytes) /\ DecodePair(EncodePair(pair)) = pair
<1> DEFINE k == WriteBytes(1, pair.key)
           v == WriteBytes(2, pair.value)
           data == EncodePair(pair)
<1>1. k \in Seq(Bytes) /\ v \in Seq(Bytes)
    BY FieldBytes DEF PairFits
<1>2. data \in Seq(Bytes) /\ data = k \o v /\ Len(data) = Len(k) + Len(v)
  <2> HIDE DEF k, v
  <2>1. k \o v \in Seq(Bytes) /\ Len(k \o v) = Len(k) + Len(v)
      BY <1>1
  <2>2. data = k \o v
      BY DEF EncodePair, k, v
  <2> HIDE DEF data
  <2> QED BY <2>1, <2>2
<1> HIDE DEF data
<1>3. Stands(data, 0, k) /\ Stands(data, Len(k), v)
  <2> HIDE DEF k, v
  <2>1. Stands(data, 0, k \o v)
      BY <1>2 DEF Stands
  <2>2. Stands(data, 0, k) /\ Stands(data, 0 + Len(k), v)
      BY <1>1, <1>2, <2>1, StandsBoth
  <2>3. 0 + Len(k) = Len(k)
      BY <1>1
  <2> QED BY <2>2, <2>3
<1>r. ASSUME NEW index \in Nat, NEW field, NEW value,
             Fits(field, value), Stands(data, index, WriteBytes(field, value))
      PROVE  ReadItem(data, index, field)
                 = Answered("ok", value, index + Len(WriteBytes(field, value)))
  <2>1. data \in Seq(Bytes)
      BY <1>2
  <2> QED BY <1>r, <2>1, FieldReadBack
<1>4. ReadItem(data, 0, 1) = Answered("ok", pair.key, 0 + Len(k))
  <2>1. 0 \in Nat /\ Fits(1, pair.key) /\ Stands(data, 0, WriteBytes(1, pair.key))
      BY <1>3 DEF PairFits
  <2>2. ReadItem(data, 0, 1) = Answered("ok", pair.key, 0 + Len(WriteBytes(1, pair.key)))
      BY <1>r, <2>1, Zenon
  <2> QED BY <2>2
<1>5. ReadItem(data, Len(k), 2) = Answered("ok", pair.value, Len(k) + Len(v))
  <2>1. Len(k) \in Nat
      BY <1>1
  <2>2. Fits(2, pair.value) /\ Stands(data, Len(k), WriteBytes(2, pair.value))
      BY <1>3 DEF PairFits
  <2> HIDE DEF k
  <2>3. ReadItem(data, Len(k), 2)
            = Answered("ok", pair.value, Len(k) + Len(WriteBytes(2, pair.value)))
      BY <1>r, <2>1, <2>2, Zenon
  <2> QED BY <2>3
<1>6. Len(k) \in Nat /\ 0 + Len(k) = Len(k)
  <2> HIDE DEF k
  <2> QED BY <1>1
<1> HIDE DEF k, v
<1>7. ReadBytes(data, 0, 1) = Answered("ok", pair.key, Len(k))
    BY <1>4, <1>6 DEF ReadBytes, OrEmpty, Answered
<1>8. ReadBytes(data, Len(k), 2) = Answered("ok", pair.value, Len(k) + Len(v))
    BY <1>5 DEF ReadBytes, OrEmpty, Answered
<1> DEFINE key == ReadBytes(data, 0, 1)
           value == ReadBytes(data, key.index, 2)
<1>9. key.status = "ok" /\ key.value = pair.key /\ key.index = Len(k)
    BY <1>7 DEF Answered
<1>10. value.status = "ok" /\ value.value = pair.value
  <2> HIDE DEF key
  <2> QED BY <1>8, <1>9 DEF Answered
<1>11. DecodePair(data) = IF key.status = "ok" /\ value.status = "ok"
                          THEN [key |-> key.value, value |-> value.value] ELSE "panic"
    BY DEF DecodePair
<1> HIDE DEF key, value
<1>12. DecodePair(data) = [key |-> pair.key, value |-> pair.value]
    BY <1>9, <1>10, <1>11
<1>13. pair = [key |-> pair.key, value |-> pair.value]
    BY DEF Pair
<1> QED BY <1>2, <1>12, <1>13 DEF data

\* A diff every part of which has a length that a varint can hold.
DiffFits(diff) ==
    /\ \A i \in DOMAIN diff.created : Fits(1, diff.created[i])
    /\ \A i \in DOMAIN diff.updated :
          PairFits(diff.updated[i]) /\ Fits(2, EncodePair(diff.updated[i]))
    /\ \A i \in DOMAIN diff.deleted :
          PairFits(diff.deleted[i]) /\ Fits(3, EncodePair(diff.deleted[i]))

\* A list of pairs is decoded to what was encoded.
LEMMA PairsReadBack ==
    ASSUME NEW pairs \in Seq(Pair), \A i \in DOMAIN pairs : PairFits(pairs[i])
    PROVE  /\ [i \in DOMAIN pairs |-> EncodePair(pairs[i])] \in Seq(Seq(Bytes))
           /\ DecodePairs([i \in DOMAIN pairs |-> EncodePair(pairs[i])]) = pairs
<1> DEFINE items == [i \in DOMAIN pairs |-> EncodePair(pairs[i])]
<1>1. DOMAIN pairs = 1 .. Len(pairs) /\ Len(pairs) \in Nat
          /\ \A i \in DOMAIN pairs : pairs[i] \in Pair
    OBVIOUS
<1>2. \A i \in DOMAIN pairs : items[i] \in Seq(Bytes) /\ DecodePair(items[i]) = pairs[i]
    BY <1>1, PairReadBack
<1>3. items \in Seq(Seq(Bytes))
  <2>1. items = [i \in 1 .. Len(pairs) |-> items[i]]
      BY <1>1
  <2> HIDE DEF items
  <2> QED BY <1>1, <1>2, <2>1
<1>4. DecodePairs(items) = [i \in DOMAIN pairs |-> DecodePair(items[i])]
    BY DEF DecodePairs
<1>5. pairs = [i \in DOMAIN pairs |-> pairs[i]]
    OBVIOUS
<1> HIDE DEF items
<1>6. DecodePairs(items) = pairs
    BY <1>2, <1>4, <1>5
<1> QED BY <1>3, <1>6 DEF items

\* Diff::decode undoes Diff::encode: for lists of any length, empty ones
\* included, and for empty keys and values.
THEOREM DiffReadBack ==
    ASSUME NEW created \in Seq(Seq(Bytes)), NEW updated \in Seq(Pair), NEW deleted \in Seq(Pair),
           NEW diff, diff = [created |-> created, updated |-> updated, deleted |-> deleted],
           DiffFits(diff)
    PROVE  DecodeDiff(EncodeDiff(diff)) = diff
<1> DEFINE U == [i \in DOMAIN updated |-> EncodePair(updated[i])]
           D == [i \in DOMAIN deleted |-> EncodePair(deleted[i])]
           first == WriteBytesSlice(1, created)
           second == WriteBytesSlice(2, U)
           third == WriteBytesSlice(3, D)
           data == EncodeDiff(diff)
           b == Len(first)
           c == Len(first) + Len(second)
<1>1. /\ U \in Seq(Seq(Bytes)) /\ D \in Seq(Seq(Bytes))
      /\ DecodePairs(U) = updated /\ DecodePairs(D) = deleted
    BY PairsReadBack DEF DiffFits
<1>2. /\ \A i \in DOMAIN created : Fits(1, created[i])
      /\ \A i \in DOMAIN U : Fits(2, U[i])
      /\ \A i \in DOMAIN D : Fits(3, D[i])
    BY DEF DiffFits
<1>3. data = (first \o second) \o third
    BY DEF EncodeDiff
<1> HIDE DEF U, D, data
<1>4. ASSUME NEW field, NEW values \in Seq(Seq(Bytes)), \A i \in DOMAIN values : Fits(field, values[i])
      PROVE  WriteBytesSlice(field, values) \in Seq(Bytes)
  <2>1. Len(values) \in Nat /\ DOMAIN values = 1 .. Len(values)
      OBVIOUS
  <2> QED BY <1>4, <2>1, SliceBytes
<1>5. first \in Seq(Bytes) /\ second \in Seq(Bytes) /\ third \in Seq(Bytes)
    BY <1>1, <1>2, <1>4
<1> HIDE DEF first, second, third
<1>6. /\ first \o second \in Seq(Bytes)
      /\ Len(first \o second) = c
      /\ data \in Seq(Bytes)
      /\ Len(data) = c + Len(third)
      /\ b \in Nat /\ c \in Nat /\ 0 \in Nat
      /\ 0 + Len(first) = b /\ b + Len(second) = c
  <2>1. first \o second \in Seq(Bytes) /\ Len(first \o second) = c
      BY <1>5
  <2>2. (first \o second) \o third \in Seq(Bytes)
            /\ Len((first \o second) \o third) = Len(first \o second) + Len(third)
      BY <1>5, <2>1
  <2> QED BY <1>3, <1>5, <2>1, <2>2
<1>7. Stands(data, 0, first) /\ Stands(data, b, second) /\ Stands(data, c, third)
  <2>1. Stands(data, 0, (first \o second) \o third)
      BY <1>3, <1>6 DEF Stands
  <2>2. Stands(data, 0, first \o second) /\ Stands(data, 0 + Len(first \o second), third)
      BY <1>5, <1>6, <2>1, StandsBoth
  <2>3. Stands(data, 0, first) /\ Stands(data, 0 + Len(first), second)
      BY <1>5, <1>6, <2>2, StandsBoth
  <2> QED BY <1>6, <2>2, <2>3
<1> HIDE DEF b, c
<1>8. \A field \in Nat : NotField(data, c + Len(third), field)
    BY <1>6 DEF NotField
<1>9. \A field \in Nat : field # 3 => NotField(data, c, field)
    BY <1>1, <1>2, <1>6, <1>7, <1>8, SliceNotField DEF third
<1>10. \A field \in Nat : field # 2 /\ field # 3 => NotField(data, b, field)
    BY <1>1, <1>2, <1>6, <1>7, <1>9, SliceNotField DEF second
<1>11. ReadBytesSlice(data, 0, 1) = Answered("ok", created, b)
  <2>1. NotField(data, 0 + Len(first), 1)
      BY <1>6, <1>10
  <2>2. 1 \in Nat /\ 0 \in Nat /\ data \in Seq(Bytes)
      BY <1>6
  <2>3. ReadBytesSlice(data, 0, 1) = Answered("ok", created, 0 + Len(first))
      BY <1>2, <1>7, <2>1, <2>2, SliceReadBack, Zenon DEF first
  <2> QED BY <1>6, <2>3
<1>12. ReadBytesSlice(data, b, 2) = Answered("ok", U, c)
  <2>1. NotField(data, b + Len(second), 2)
      BY <1>6, <1>9
  <2>2. 2 \in Nat /\ b \in Nat /\ data \in Seq(Bytes)
      BY <1>6
  <2>3. ReadBytesSlice(data, b, 2) = Answered("ok", U, b + Len(second))
      BY <1>1, <1>2, <1>7, <2>1, <2>2, SliceReadBack, Zenon DEF second
  <2> QED BY <1>6, <2>3
<1>13. ReadBytesSlice(data, c, 3) = Answered("ok", D, c + Len(third))
  <2>1. NotField(data, c + Len(third), 3)
      BY <1>8
  <2>2. 3 \in Nat /\ c \in Nat /\ data \in Seq(Bytes)
      BY <1>6
  <2> QED BY <1>1, <1>2, <1>7, <2>1, <2>2, SliceReadBack, Zenon DEF third
<1> DEFINE one == ReadBytesSlice(data, 0, 1)
           two == ReadBytesSlice(data, one.index, 2)
           three == ReadBytesSlice(data, two.index, 3)
<1>14. DecodeDiff(data)
           = IF one.status = "ok" /\ two.status = "ok" /\ three.status = "ok"
             THEN [created |-> one.value, updated |-> DecodePairs(two.value),
                   deleted |-> DecodePairs(three.value)]
             ELSE "failed"
    BY DEF DecodeDiff
<1>15. one.status = "ok" /\ one.value = created /\ one.index = b
    BY <1>11 DEF Answered
<1> HIDE DEF one
<1>16. two.status = "ok" /\ two.value = U /\ two.index = c
    BY <1>12, <1>15 DEF Answered
<1> HIDE DEF two
<1>17. three.status = "ok" /\ three.value = D
    BY <1>13, <1>16 DEF Answered
<1> HIDE DEF three
<1>18. DecodeDiff(data) = [created |-> created, updated |-> updated, deleted |-> deleted]
    BY <1>1, <1>14, <1>15, <1>16, <1>17
<1> QED BY <1>18 DEF data

\* SetToSeq lists the members of a finite set.
LEMMA SetToSeqType ==
    ASSUME NEW S, IsFiniteSet(S)
    PROVE  Lists!SetToSeq(S) \in Seq(S)
<1>1. Cardinality(S) \in Nat /\ ExistsBijection(1 .. Cardinality(S), S)
    BY FS_CardinalityType
<1>2. \E f \in [1 .. Cardinality(S) -> S] : Lists!IsInjective(f)
    BY <1>1 DEF ExistsBijection, Bijection, Injection, IsInjective, Lists!IsInjective
<1>3. Lists!SetToSeq(S) \in [1 .. Cardinality(S) -> S]
  <2> DEFINE f == CHOOSE f \in [1 .. Cardinality(S) -> S] : Lists!IsInjective(f)
  <2>1. f \in [1 .. Cardinality(S) -> S]
      BY <1>2
  <2>2. Lists!Cardinality(S) = Cardinality(S)
      BY DEF Lists!Cardinality, Cardinality
  <2>3. Lists!SetToSeq(S) = f
      BY <2>2 DEF Lists!SetToSeq
  <2> QED BY <2>1, <2>3
<1> QED BY <1>1, <1>3

\* The lists of a diff fit.
LEMMA ListsFit ==
    ASSUME NEW diff \in Diff, NEW keyBytes \in [Keys -> Payloads], NEW valueBytes \in [Values -> Payloads]
    PROVE  DecodeDiff(EncodeDiff(ListsOf(diff, keyBytes, valueBytes)))
               = ListsOf(diff, keyBytes, valueBytes)
<1> USE DiffCodecAssumption
<1> DEFINE listed(map) ==
               LET keys == Lists!SetToSeq({k \in Keys : map[k] # None})
               IN  [i \in DOMAIN keys |-> [key |-> keyBytes[keys[i]], value |-> valueBytes[map[keys[i]]]]]
           all == Lists!SetToSeq(diff.created)
           created == [i \in DOMAIN all |-> keyBytes[all[i]]]
<1>1. ASSUME NEW p \in Payloads, NEW field \in 1 .. 3
      PROVE  Fits(field, p)
  <2>1. p \in Seq(Bytes) /\ Len(p) < Readable
      OBVIOUS
  <2>2. field \in Nat /\ field * 8 + 2 < Readable
      OBVIOUS
  <2> QED BY <2>1, <2>2 DEF Fits
<1>2. ASSUME NEW p \in Payloads, NEW q \in Payloads, NEW field \in 2 .. 3
      PROVE  LET pair == [key |-> p, value |-> q]
             IN  pair \in Pair /\ PairFits(pair) /\ Fits(field, EncodePair(pair))
  <2> DEFINE pair == [key |-> p, value |-> q]
  <2>1. pair \in Pair
      BY DEF Pair
  <2>2. PairFits(pair)
      BY <1>1 DEF PairFits
  <2>3. EncodePair(pair) \in Seq(Bytes)
    <3> HIDE DEF pair
    <3> QED BY <2>1, <2>2, PairReadBack
  <2>4. Len(EncodePair(pair)) < Readable
      OBVIOUS
  <2> HIDE DEF pair
  <2>5. Fits(field, EncodePair(pair))
      BY <2>3, <2>4 DEF Fits
  <2> QED BY <2>1, <2>2, <2>5 DEF pair
<1>3. created \in Seq(Seq(Bytes)) /\ \A i \in DOMAIN created : Fits(1, created[i])
  <2>1. all \in Seq(Keys)
    <3>1. diff.created \in SUBSET Keys
        BY DEF Diff
    <3>2. IsFiniteSet(diff.created)
        BY <3>1, FS_Subset
    <3>3. all \in Seq(diff.created)
        BY <3>2, SetToSeqType
    <3> HIDE DEF all
    <3> QED BY <3>1, <3>3
  <2> HIDE DEF all
  <2>2. \A i \in DOMAIN all : created[i] \in Payloads
      BY <2>1
  <2>3. created \in Seq(Payloads) /\ DOMAIN created = DOMAIN all
    <3>1. DOMAIN all = 1 .. Len(all) /\ Len(all) \in Nat
        BY <2>1
    <3>2. created = [i \in 1 .. Len(all) |-> created[i]]
        BY <3>1
    <3> HIDE DEF created
    <3> QED BY <2>2, <3>1, <3>2
  <2> HIDE DEF created
  <2>4. created \in Seq(Seq(Bytes))
      BY <2>3
  <2>5. \A i \in DOMAIN created : Fits(1, created[i])
      BY <1>1, <2>2, <2>3
  <2> QED BY <2>4, <2>5
<1>4. ASSUME NEW map \in Store, NEW field \in 2 .. 3
      PROVE  /\ listed(map) \in Seq(Pair)
             /\ \A i \in DOMAIN listed(map) :
                   PairFits(listed(map)[i]) /\ Fits(field, EncodePair(listed(map)[i]))
  <2> DEFINE present == {k \in Keys : map[k] # None}
             keys == Lists!SetToSeq(present)
             list == [i \in DOMAIN keys |-> [key |-> keyBytes[keys[i]], value |-> valueBytes[map[keys[i]]]]]
  <2>1. keys \in Seq(present)
    <3>1. present \in SUBSET Keys
        OBVIOUS
    <3> HIDE DEF present
    <3>2. IsFiniteSet(present)
        BY <3>1, FS_Subset
    <3> QED BY <3>2, SetToSeqType
  <2>2. \A k \in present : k \in Keys /\ map[k] \in Values
      BY DEF Store, MaybeValue
  <2> HIDE DEF present, keys
  <2>3. ASSUME NEW i \in DOMAIN keys
        PROVE  list[i] \in Pair /\ PairFits(list[i]) /\ Fits(field, EncodePair(list[i]))
    <3>1. keys[i] \in Keys /\ map[keys[i]] \in Values
        BY <2>1, <2>2
    <3>2. keyBytes[keys[i]] \in Payloads /\ valueBytes[map[keys[i]]] \in Payloads
        BY <3>1
    <3> QED BY <1>2, <3>2
  <2>4. /\ DOMAIN keys = 1 .. Len(keys) /\ Len(keys) \in Nat
        /\ list = [i \in 1 .. Len(keys) |-> list[i]]
        /\ DOMAIN list = DOMAIN keys
      BY <2>1
  <2> HIDE DEF list
  <2>5. list \in Seq(Pair) /\ DOMAIN list = DOMAIN keys
    <3>1. \A i \in 1 .. Len(keys) : list[i] \in Pair
        BY <2>3, <2>4
    <3> QED BY <2>4, <3>1
  <2>6. list = listed(map)
      BY DEF list, keys, present
  <2> HIDE DEF listed
  <2> QED BY <2>3, <2>5, <2>6
<1>5. diff.updated \in Store /\ diff.deleted \in Store
    BY DEF Diff
<1> DEFINE updated == listed(diff.updated)
           deleted == listed(diff.deleted)
           lists == ListsOf(diff, keyBytes, valueBytes)
<1>6. lists = [created |-> created, updated |-> updated, deleted |-> deleted]
    BY DEF ListsOf
<1> HIDE DEF listed, created, lists
<1>7. /\ updated \in Seq(Pair) /\ deleted \in Seq(Pair)
      /\ \A i \in DOMAIN updated : PairFits(updated[i]) /\ Fits(2, EncodePair(updated[i]))
      /\ \A i \in DOMAIN deleted : PairFits(deleted[i]) /\ Fits(3, EncodePair(deleted[i]))
    BY <1>4, <1>5
<1> HIDE DEF updated, deleted
<1>8. DiffFits(lists)
    BY <1>3, <1>6, <1>7 DEF DiffFits
<1> QED BY <1>3, <1>6, <1>7, <1>8, DiffReadBack DEF lists

\* A diff that a commit makes survives its encoding, for every cache that a
\* writer can have and whatever bytes keys and values are: lists of any
\* length, every boundary of a varint, lengths below 2^32.
THEOREM DiffsSurvive == Spec => []DiffSurvivesCodec
<1>1. TypeOK => DiffSurvivesCodec
  <2> SUFFICES ASSUME TypeOK,
                      NEW keyBytes \in Lists!Injection(Keys, Payloads),
                      NEW valueBytes \in [Values -> Payloads]
               PROVE  DecodeDiff(EncodeDiff(ListsOf(CommitDiff(cache), keyBytes, valueBytes)))
                          = ListsOf(CommitDiff(cache), keyBytes, valueBytes)
      BY DEF DiffSurvivesCodec
  <2>1. keyBytes \in [Keys -> Payloads]
      BY DEF Lists!Injection
  <2>2. CommitDiff(cache) \in Diff
      BY CommitTypes DEF TypeOK
  <2> QED BY <2>1, <2>2, ListsFit
<1> QED BY <1>1, TypeCorrect, PTL

=============================================================================
