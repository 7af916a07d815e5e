----------------------------- MODULE ReadWriter -----------------------------
(***************************************************************************)
(* A StateReadWriter over one RocksDB snapshot: the JS object              *)
(* (state_db.js), its snapshot thread (reader_base.rs), the handlers that  *)
(* run back on the JS thread (read_writer_db.rs) and the StateWriter they  *)
(* share with the synchronous snapshot(), restoreSnapshot() and close().   *)
(*                                                                         *)
(* get, set, del and range return promises.  A call is a message to the    *)
(* snapshot thread; the thread reads the snapshot and posts a reply to the *)
(* JS event loop; the reply changes the writer and settles the promise.    *)
(* The synchronous operations overtake the calls that are in flight.  The  *)
(* snapshot never changes, so a reply need not carry what was read.        *)
(***************************************************************************)
EXTENDS StateWriter, Integers, Sequences, FiniteSets

CONSTANTS
    Promises,       \* names for outstanding calls: bounds the calls in flight
    RangeOptions,   \* the option records range is called with
    MaxSnapshots,   \* bound on snapshot() calls (the code counts in u32)
    MaxQueue,       \* bound on messages waiting for the snapshot thread
    Undefined       \* JS undefined, an option that was left out

Limits == Int \union {Undefined}

Bounds == Keys \union {Undefined}

\* Keys are numbers in the order in which RocksDB compares their bytes.
ASSUME ReadWriterAssumption ==
    /\ Keys \subseteq Nat
    /\ Undefined \notin Int
    /\ RangeOptions \subseteq [gte : Bounds, lte : Bounds, limit : Limits, reverse : BOOLEAN]
    /\ MaxSnapshots \in Nat
    /\ MaxQueue \in Nat

VARIABLES
    base,           \* the snapshot the thread reads (STATE bucket only)
    cache,          \* StateWriter.cache
    backup,         \* StateWriter.backup: snapshot id -> cache or None
    counter,        \* StateWriter.counter
    poisoned,       \* a handler panicked while it held the writer's mutex
    thread,         \* "running" or "exited"
    queue,          \* messages to the snapshot thread, oldest first
    replies,        \* replies posted to the JS event loop, oldest first
    promise,        \* "idle" or "pending" per name
    ret             \* what the caller was told last

vars == <<base, cache, backup, counter, poisoned, thread, queue, replies, promise, ret>>

writerVars == <<cache, backup, counter, poisoned>>

threadVars == <<thread, queue>>

SnapshotIds == 0 .. MaxSnapshots

Call == [op : {"set"}, key : Keys, val : Values]
            \union [op : {"get", "del"}, key : Keys]
            \union [op : {"range"}, opt : RangeOptions]

CloseMessage == [op |-> "close"]

Message == [id : Promises, call : Call]

Result == [op : {"none", "ok", "invalid_usage", "throw", "panic", "settled", "snapshot"}]
            \union [op : {"get"}, key : Keys, val : MaybeValue]
            \union [op : {"range"}, opt : RangeOptions, rows : Store]

TypeOK ==
    /\ base \in Store
    /\ cache \in Cache
    /\ backup \in [SnapshotIds -> Cache \union {None}]
    /\ counter \in 0 .. MaxSnapshots
    /\ poisoned \in BOOLEAN
    /\ thread \in {"running", "exited"}
    /\ queue \in Seq(Message \union {CloseMessage})
    /\ replies \in Seq(Message)
    /\ promise \in [Promises -> {"idle", "pending"}]
    /\ ret \in Result

NoBackup == [i \in SnapshotIds |-> None]

Init ==
    /\ base \in Store
    /\ cache = EmptyCache
    /\ backup = NoBackup
    /\ counter = 0
    /\ poisoned = FALSE
    /\ thread = "running"
    /\ queue = <<>>
    /\ replies = <<>>
    /\ promise = [p \in Promises |-> "idle"]
    /\ ret = [op |-> "none"]

----------------------------------------------------------------------------
(* The range operation.                                                    *)

InBounds(opt) == {k \in Keys : opt.gte <= k /\ k <= opt.lte}

\* The first n members of S in the direction of the iteration.
FirstOf(S, n, reverse) ==
    {k \in S : Cardinality({j \in S : IF reverse THEN j > k ELSE j < k}) < n}

\* getOptionsWithDefault: an omitted limit is -1, "no limit".
RustLimit(opt) == IF opt.limit = Undefined THEN -1 ELSE opt.limit

\* Mutant: one row too few is scanned.
ScannedShort(opt) ==
    LET found == {k \in InBounds(opt) : base[k] # None}
    IN  IF RustLimit(opt) = -1 THEN found ELSE FirstOf(found, RustLimit(opt) - 1, opt.reverse)

\* The rows the iteration yields before is_key_out_of_range stops it.  The
\* counter counts rows of the snapshot, the ones deleted in the writer too.
Scanned(opt) ==
    LET found == {k \in InBounds(opt) : base[k] # None}
    IN  IF RustLimit(opt) = -1 THEN found ELSE FirstOf(found, RustLimit(opt), opt.reverse)

\* JS: sort, then "if (options.limit) result.splice(options.limit)".
Splice(S, opt) ==
    IF opt.limit \in {Undefined, 0}
    THEN S
    ELSE FirstOf(S, IF opt.limit > 0 THEN opt.limit ELSE Cardinality(S) + opt.limit, opt.reverse)

\* The cache after the loop: a scanned row that was not cached is cached now.
AfterRange(opt) == [k \in Keys |-> IF k \in Scanned(opt) THEN Load(cache, base, k)[k] ELSE cache[k]]

RangeRows(opt) ==
    LET after == AfterRange(opt)
        rows == LiveCached(cache, InBounds(opt)) \union LiveCached(after, Scanned(opt))
        kept == Splice(rows, opt)
    IN  [k \in Keys |-> IF k \in kept THEN after[k].value ELSE None]

----------------------------------------------------------------------------
(* Calls and the snapshot thread.                                          *)

\* The JS method: send the message, or throw when the receiver is gone.
Issue(p, call) ==
    /\ promise[p] = "idle"
    /\ IF thread = "exited"
       THEN /\ ret' = [op |-> "throw"]
            /\ UNCHANGED <<queue, promise>>
       ELSE /\ Len(queue) < MaxQueue
            /\ queue' = Append(queue, [id |-> p, call |-> call])
            /\ promise' = [promise EXCEPT ![p] = "pending"]
            /\ UNCHANGED ret
    /\ UNCHANGED <<base, writerVars, thread, replies>>

\* The loop of the snapshot thread.  On Close it returns: the receiver is
\* dropped, and with it every message that was still queued.
Serve ==
    /\ thread = "running"
    /\ queue # <<>>
    /\ IF Head(queue) = CloseMessage
       THEN thread' = "exited" /\ queue' = <<>> /\ UNCHANGED replies
       ELSE /\ replies' = Append(replies, Head(queue))
            /\ queue' = Tail(queue)
            /\ UNCHANGED thread
    /\ UNCHANGED <<base, writerVars, promise, ret>>

\* The event loop runs the oldest reply: all handlers lock the writer first.
Reply(op) ==
    /\ replies # <<>>
    /\ Head(replies).call.op = op
    /\ ~poisoned
    /\ replies' = Tail(replies)
    /\ UNCHANGED <<base, backup, counter, threadVars>>

Settle == promise' = [promise EXCEPT ![Head(replies).id] = "idle"]

UpsertKey ==
    /\ Reply("set")
    /\ LET call == Head(replies).call
       IN  cache' = Upsert(cache, base, call.key, call.val)
    /\ ret' = [op |-> "settled"]
    /\ Settle
    /\ UNCHANGED poisoned

GetKeyWithWriter ==
    /\ Reply("get")
    /\ LET call == Head(replies).call
       IN  /\ cache' = Load(cache, base, call.key)
           /\ ret' = [op |-> "get", key |-> call.key, val |-> Lookup(cache, base, call.key)]
    /\ Settle
    /\ UNCHANGED poisoned

DeleteKey ==
    /\ Reply("del")
    /\ LET call == Head(replies).call
       IN  cache' = Erase(cache, base, call.key)
    /\ ret' = [op |-> "settled"]
    /\ Settle
    /\ UNCHANGED poisoned

\* get_range unwraps both bounds: without them it panics, the promise is
\* never settled and the mutex of the writer is poisoned.
RangeWithWriter ==
    /\ Reply("range")
    /\ LET opt == Head(replies).call.opt
       IN  IF Undefined \in {opt.gte, opt.lte}
           THEN /\ poisoned' = TRUE
                /\ ret' = [op |-> "panic"]
                /\ UNCHANGED <<cache, promise>>
           ELSE /\ cache' = AfterRange(opt)
                /\ ret' = [op |-> "range", opt |-> opt, rows |-> RangeRows(opt)]
                /\ Settle
                /\ UNCHANGED poisoned

\* lock().unwrap() on a poisoned mutex: the callback is never called.
PanickedReply ==
    /\ poisoned
    /\ replies # <<>>
    /\ replies' = Tail(replies)
    /\ ret' = [op |-> "panic"]
    /\ UNCHANGED <<base, writerVars, threadVars, promise>>

----------------------------------------------------------------------------
(* Synchronous operations on the JS thread.                                *)

Snapshot ==
    /\ ~poisoned
    /\ counter < MaxSnapshots
    /\ backup' = [backup EXCEPT ![counter] = cache]
    /\ counter' = counter + 1
    /\ ret' = [op |-> "snapshot"]
    /\ UNCHANGED <<base, cache, poisoned, threadVars, replies, promise>>

\* Mutant: the other snapshots survive.
RestoreKeepsOthers(i) ==
    /\ ~poisoned
    /\ IF backup[i] = None
       THEN /\ ret' = [op |-> "invalid_usage"]
            /\ UNCHANGED <<cache, backup>>
       ELSE /\ cache' = backup[i]
            /\ backup' = backup
            /\ ret' = [op |-> "ok"]
    /\ UNCHANGED <<base, counter, poisoned, threadVars, replies, promise>>

\* Restoring one snapshot forgets all of them; the counter goes on.
RestoreSnapshot(i) ==
    /\ ~poisoned
    /\ IF backup[i] = None
       THEN /\ ret' = [op |-> "invalid_usage"]
            /\ UNCHANGED <<cache, backup>>
       ELSE /\ cache' = backup[i]
            /\ backup' = NoBackup
            /\ ret' = [op |-> "ok"]
    /\ UNCHANGED <<base, counter, poisoned, threadVars, replies, promise>>

\* Mutant: Close overtakes the calls that are queued.
CloseOvertakes ==
    IF thread = "exited"
    THEN /\ ret' = [op |-> "throw"]
         /\ UNCHANGED <<base, writerVars, threadVars, replies, promise>>
    ELSE /\ Len(queue) < MaxQueue
         /\ queue' = <<CloseMessage>> \o queue
         /\ cache' = EmptyCache
         /\ backup' = NoBackup
         /\ ret' = [op |-> "ok"]
         /\ UNCHANGED <<base, counter, poisoned, thread, replies, promise>>

\* close(): the Close message first, then StateWriter::empty; when the
\* thread is gone the first throws and the second is not reached.
Close ==
    IF thread = "exited"
    THEN /\ ret' = [op |-> "throw"]
         /\ UNCHANGED <<base, writerVars, threadVars, replies, promise>>
    ELSE /\ Len(queue) < MaxQueue
         /\ queue' = Append(queue, CloseMessage)
         /\ IF poisoned
            THEN ret' = [op |-> "panic"] /\ UNCHANGED <<cache, backup>>
            ELSE /\ cache' = EmptyCache
                 /\ backup' = NoBackup
                 /\ ret' = [op |-> "ok"]
         /\ UNCHANGED <<base, counter, poisoned, thread, replies, promise>>

----------------------------------------------------------------------------

Deliver == UpsertKey \/ GetKeyWithWriter \/ DeleteKey \/ RangeWithWriter \/ PanickedReply

Next ==
    \/ \E p \in Promises, call \in Call : Issue(p, call)
    \/ Serve
    \/ UpsertKey
    \/ GetKeyWithWriter
    \/ DeleteKey
    \/ RangeWithWriter
    \/ PanickedReply
    \/ Snapshot
    \/ \E i \in SnapshotIds : RestoreSnapshot(i)
    \/ Close

Spec == Init /\ [][Next]_vars

\* The snapshot thread and the event loop run whenever they have work.
FairSpec == Spec /\ WF_vars(Serve) /\ WF_vars(Deliver)

----------------------------------------------------------------------------
(* Properties.                                                             *)

\* Every cache the handlers can build, and every saved copy of one, tells
\* the snapshot's value of its keys and holds one of five kinds of entry.
CachesFit ==
    /\ CacheFits(cache, base)
    /\ \A i \in SnapshotIds : backup[i] # None => CacheFits(backup[i], base)

\* A commit of this writer writes exactly what get would have answered: the
\* STATE batch (state_writer.rs commit) turns the snapshot into the view.
CommitWritesView == CommitState(base, cache) = View(cache, base)

\* The tree update (get_hashed_updated) and the STATE batch (commit) are
\* computed by two loops; the root they lead to is the root of the view.
CommitHashesView == SmtCommit(RootOf(base), GetHashedUpdated(cache)) = RootOf(View(cache, base))

\* Reverting the commit (diff.rs) gives every key its value of the snapshot
\* back, unless the writer overwrote the key before it deleted it.
RevertUndoesCommit ==
    \A k \in Keys \ Overwritten(cache) :
        RevertState(CommitState(base, cache), CommitDiff(cache))[k] = base[k]

\* revert_hashed_update and revert_commit, again two loops, agree: the root
\* after a revert is the root of the reverted STATE, whatever was lost.
RevertHashesState ==
    SmtCommit(RootOf(CommitState(base, cache)), RevertHashedUpdate(CommitDiff(cache)))
        = RootOf(RevertState(CommitState(base, cache), CommitDiff(cache)))

\* The diff keeps "deleted keys and corresponding original values"
\* (diff.rs:10), so that a revert restores the snapshot for every key.
DiffKeepsOriginals == RevertState(CommitState(base, cache), CommitDiff(cache)) = base

\* What range owes its caller: the view between the bounds, cut to the limit.
ExpectedRows(opt) ==
    LET live == {k \in InBounds(opt) : Lookup(cache, base, k) # None}
        kept == IF opt.limit = Undefined THEN live ELSE FirstOf(live, opt.limit, opt.reverse)
    IN  [k \in Keys |-> IF k \in kept THEN Lookup(cache, base, k) ELSE None]

HiddenRows(opt) == {k \in InBounds(opt) : base[k] # None /\ IsCached(cache, k) /\ cache[k].deleted}

\* range merges snapshot rows and cached rows into the right answer for a
\* positive or omitted limit, when no snapshot row of the range is deleted
\* in the writer or there is no limit.
RangeMatchesView ==
    ret.op = "range" =>
        LET opt == ret.opt
        IN  (opt.limit = Undefined \/ (opt.limit > 0 /\ HiddenRows(opt) = {}))
                => ret.rows = ExpectedRows(opt)

\* range never shows a row that get would deny or answer differently.
RangeRowsAreLive ==
    ret.op = "range" =>
        \A k \in Keys : ret.rows[k] # None => ret.rows[k] = Lookup(cache, base, k)

\* The read-writer is a private map with checkpoints: each handler is one
\* step of the map at the moment its reply runs.
Scratch == INSTANCE ScratchMap WITH
    origin <- base,
    view <- View(cache, base),
    saved <- [i \in SnapshotIds |-> IF backup[i] = None THEN None ELSE View(backup[i], base)],
    nextId <- counter,
    answer <- IF ret.op = "get" THEN <<ret.key, ret.val>> ELSE <<>>

ScratchRefined == Scratch!ScratchSpec

\* A call the thread will still see, or that waits for the event loop.
InFlight(p) ==
    \/ \E i \in DOMAIN replies : replies[i].id = p
    \/ \E i \in DOMAIN queue : /\ queue[i] # CloseMessage
                               /\ queue[i].id = p
                               /\ \A j \in 1 .. i - 1 : queue[j] # CloseMessage

\* A promise whose call is in flight is settled, even when close() is called
\* meanwhile, unless a handler panics.
InFlightSettles == \A p \in Promises : InFlight(p) ~> (promise[p] = "idle" \/ poisoned)

============================================================================
