------------------------------- MODULE StateDB -------------------------------
(***************************************************************************)
(* The state database (state/state_db.rs) with its RocksDB buckets, the    *)
(* read-writers opened on it, and the three kinds of thread that touch it: *)
(*   - the JS thread runs commit and revert from beginning to end, each as *)
(*     two separate writes: one batch for STATE, SMT and DIFF, then a put  *)
(*     of CURRENT_STATE;                                                   *)
(*   - every read-writer's thread takes its snapshot when it gets to run;  *)
(*   - the DB thread cleans diffs for finalize, scanning first and         *)
(*     deleting afterwards.                                                *)
(* The process can die between any two writes; RocksDB keeps what was      *)
(* written.                                                                *)
(*                                                                         *)
(* A handler of a read-writer is one step here: ReadWriter shows that its  *)
(* calls take effect one at a time, when their replies run.                *)
(***************************************************************************)
EXTENDS StateWriter, Integers, FiniteSets

CONSTANTS
    Writers,        \* read-writers (a reader is one that writes nothing)
    MaxVersion,     \* largest version: u32::MAX in the code
    MaxCrashes,     \* bound on crashes
    Disciplined,    \* TRUE: callers keep FreshCommit and FreshRevert
    OverflowChecks, \* TRUE: debug build, u32 underflow panics; FALSE: it wraps
    Unchecked       \* commit without checkRoot

Versions == 0 .. MaxVersion

\* BlockHeight - BlockHeight(1) in u32.
Predecessor(v) == (v - 1) % (MaxVersion + 1)

Outcome == {"none", "ok", "not_found", "invalid_root", "diff_not_found", "panic"}

CurrentState == [root : Root, version : Versions]

Window == [root : Root, version : Versions, of : Versions, kind : {"commit", "revert"},
           expected : Root \union {Unchecked}]

Torn == [undoable : BOOLEAN, of : Versions]

\* The sentinels are told apart from the data they stand beside.
ASSUME StateDBAssumption ==
    /\ MaxVersion \in Nat
    /\ MaxCrashes \in Nat
    /\ Disciplined \in BOOLEAN
    /\ OverflowChecks \in BOOLEAN
    /\ None \notin Diff \union Root \union CurrentState \union Window \union Torn
    /\ Unchecked \notin Root

VARIABLES
    state,          \* STATE bucket
    diffs,          \* DIFF bucket: version -> diff or None
    current,        \* CURRENT_STATE: root and version, or None
    tip,            \* root of the tree all of whose subtrees are in SMT, or None
    phase,          \* writer -> "none", "starting" or "open"
    snap,           \* writer -> snapshot its thread holds (or is to take)
    cache,          \* writer -> StateWriter.cache
    window,         \* the put of CURRENT_STATE that is still to come, or None
    cleaner,        \* a finalize request and what the DB thread has done of it
    crashes,        \* crashes so far
    ret,            \* how the last commit or revert ended
    past,           \* history: STATE before the commit of a version, or None
    torn            \* history: what was cut off between its two writes, or None

buckets == <<state, diffs, current, tip>>

sessions == <<phase, snap, cache>>

vars == <<buckets, sessions, window, cleaner, crashes, ret, past, torn>>

TypeOK ==
    /\ state \in Store
    /\ diffs \in [Versions -> Diff \union {None}]
    /\ current \in CurrentState \union {None}
    /\ tip \in Root \union {None}
    /\ phase \in [Writers -> {"none", "starting", "open"}]
    /\ snap \in [Writers -> Store]
    /\ cache \in [Writers -> Cache]
    /\ window \in Window \union {None}
    /\ cleaner \in [phase : {"idle", "ignored", "queued", "scanned"},
                    height : Versions, doomed : SUBSET Versions]
    /\ crashes \in 0 .. MaxCrashes
    /\ ret \in Outcome
    /\ past \in [Versions -> Store \union {None}]
    /\ torn \in Torn \union {None}

EmptyStore == [k \in Keys |-> None]

IdleCleaner == [phase |-> "idle", height |-> 0, doomed |-> {}]

Init ==
    /\ state = EmptyStore
    /\ diffs = [v \in Versions |-> None]
    /\ current = None
    /\ tip = EmptyRoot
    /\ phase = [w \in Writers |-> "none"]
    /\ snap = [w \in Writers |-> EmptyStore]
    /\ cache = [w \in Writers |-> EmptyCache]
    /\ window = None
    /\ cleaner = IdleCleaner
    /\ crashes = 0
    /\ ret = "none"
    /\ past = [v \in Versions |-> None]
    /\ torn = None

\* get_current_state: the empty root and version 0 when nothing was committed.
CurrentRoot == IF current = None THEN EmptyRoot ELSE current.root

Live == {v \in Versions : diffs[v] # None}

----------------------------------------------------------------------------
(* Read-writers.                                                           *)

\* newReadWriter() and newReader(): the thread is spawned, nothing is read
\* yet.  Until the thread has run, snap notes what STATE was at the call.
NewReadWriter(w) ==
    /\ phase[w] = "none"
    /\ window = None
    /\ phase' = [phase EXCEPT ![w] = "starting"]
    /\ snap' = [snap EXCEPT ![w] = state]
    /\ UNCHANGED <<buckets, cache, window, cleaner, crashes, ret, past, torn>>

\* The first thing the spawned thread does, whenever it is scheduled.
TakeSnapshot(w) ==
    /\ phase[w] = "starting"
    /\ phase' = [phase EXCEPT ![w] = "open"]
    /\ snap' = [snap EXCEPT ![w] = state]
    /\ UNCHANGED <<buckets, cache, window, cleaner, crashes, ret, past, torn>>

\* The handlers run on the JS thread, so never inside a commit or a revert.
Handler(w, next) ==
    /\ phase[w] = "open"
    /\ window = None
    /\ cache' = [cache EXCEPT ![w] = next]
    /\ UNCHANGED <<buckets, phase, snap, window, cleaner, crashes, ret, past, torn>>

Set(w, k, v) == Handler(w, Upsert(cache[w], snap[w], k, v))

Get(w, k) == Handler(w, Load(cache[w], snap[w], k))

Del(w, k) == Handler(w, Erase(cache[w], snap[w], k))

CloseWriter(w) ==
    /\ phase[w] = "open"
    /\ window = None
    /\ phase' = [phase EXCEPT ![w] = "none"]
    /\ cache' = [cache EXCEPT ![w] = EmptyCache]
    /\ snap' = [snap EXCEPT ![w] = EmptyStore]
    /\ UNCHANGED <<buckets, window, cleaner, crashes, ret, past, torn>>

----------------------------------------------------------------------------
(* The rules a disciplined caller keeps.  The code enforces none of them.  *)

Cleaning == cleaner.phase \in {"queued", "scanned"}

\* Commit only what was read from the contents it is applied to, under a
\* version above every one that can still be reverted and not below a height
\* being finalized, and delete no key that the same writer has overwritten.
FreshCommit(w, v) ==
    /\ snap[w] = state
    /\ \A u \in Live : u < v
    /\ Cleaning => cleaner.height <= v
    /\ Overwritten(cache[w]) = {}
    /\ torn = None

\* Revert the newest version, and none that is being finalized; after a
\* crash, revert the commit that was cut off before anything else, with the
\* root it was about to answer, not the one CURRENT_STATE still names.
FreshRevert(v, root) ==
    /\ \A u \in Live : u <= v
    /\ Cleaning => cleaner.height <= v
    /\ torn # None => torn = [undoable |-> TRUE, of |-> v] /\ root = RootOf(state)

----------------------------------------------------------------------------
(* Commit and revert.                                                      *)

\* Whether the subtrees an update has to read are there: the tree of tip is
\* complete, of an older tree any subtree may be gone.
TreeComplete(root) == root \in {tip, EmptyRoot}

\* Mutant: the batch of the tree is left out of the write.
TipNotWritten(root, data) == tip

\* smt.commit on the tree of "root" found what it needed and wrote a batch.
TipAfter(root, data) ==
    IF IsEmptyData(data) THEN tip
    ELSE IF TreeComplete(root) THEN SmtCommit(root, data)
    ELSE None

\* The tree may answer NotFound.
TreeMayFail(root, data) == ~IsEmptyData(data) /\ ~TreeComplete(root)

\* Mutant: checkRoot is ignored.
AcceptsAny(root, expected) == TRUE

\* The comparison with expectedRoot, made only with checkRoot.
Accepts(root, expected) == expected \in {Unchecked, root}

\* History: writing on top of a cut-off operation puts it beyond repair.
Spoiled == IF torn = None THEN None ELSE [torn EXCEPT !.undoable = FALSE]

\* commit up to the batch write; the callers pass the current root, as
\* js_commit asks for.
Commit(w, v, expected) ==
    LET data == GetHashedUpdated(cache[w])
        root == SmtCommit(CurrentRoot, data)
    IN  /\ Disciplined => FreshCommit(w, v)
        /\ phase[w] = "open"
        /\ window = None
        /\ Accepts(root, expected)
        /\ state' = CommitState(state, cache[w])
        /\ diffs' = [diffs EXCEPT ![v] = CommitDiff(cache[w])]
        /\ tip' = TipAfter(CurrentRoot, data)
        /\ window' = [root |-> root, version |-> v, of |-> v, kind |-> "commit",
                      expected |-> expected]
        /\ past' = [past EXCEPT ![v] = state]
        /\ ret' = "none"
        /\ torn' = Spoiled
        /\ UNCHANGED <<current, sessions, cleaner, crashes>>

\* commit with the readonly option, and any commit that fails: the tree
\* cannot be read, or its new root is not the expected one.
CommitNothing(w, expected) ==
    LET data == GetHashedUpdated(cache[w])
        root == SmtCommit(CurrentRoot, data)
    IN  /\ phase[w] = "open"
        /\ window = None
        /\ \/ TreeMayFail(CurrentRoot, data) /\ ret' = "not_found"
           \/ ~Accepts(root, expected) /\ ret' = "invalid_root"
           \/ Accepts(root, expected) /\ ret' = "ok"
        /\ UNCHANGED <<buckets, sessions, window, cleaner, crashes, past, torn>>

\* The second write of commit or revert, and the answer.
PutCurrentState ==
    /\ window # None
    /\ current' = [root |-> window.root, version |-> window.version]
    /\ window' = None
    /\ ret' = "ok"
    /\ UNCHANGED <<state, diffs, tip, sessions, cleaner, crashes, past, torn>>

\* The roots a caller of revert has: the one of CURRENT_STATE and, when a
\* write was cut off, the one that write was about to store.
RevertRoots == {CurrentRoot} \union (IF torn = None THEN {} ELSE {RootOf(state)})

\* revert up to the batch write, on the tree of the root it is given.  The
\* version of the new CURRENT_STATE is computed after it: in a debug build
\* version 0 panics here.
Revert(v, root) ==
    /\ window = None
    /\ Disciplined => FreshRevert(v, root)
    /\ diffs[v] # None
    /\ state' = RevertState(state, diffs[v])
    /\ diffs' = [diffs EXCEPT ![v] = None]
    /\ tip' = TipAfter(root, RevertHashedUpdate(diffs[v]))
    /\ past' = [past EXCEPT ![v] = None]
    /\ IF v = 0 /\ OverflowChecks
       THEN /\ ret' = "panic"
            /\ torn' = [undoable |-> FALSE, of |-> v]
            /\ UNCHANGED window
       ELSE /\ window' = [root |-> SmtCommit(root, RevertHashedUpdate(diffs[v])),
                          version |-> Predecessor(v), of |-> v, kind |-> "revert",
                          expected |-> Unchecked]
            /\ ret' = "none"
            /\ torn' = IF torn = [undoable |-> TRUE, of |-> v] THEN None ELSE Spoiled
    /\ UNCHANGED <<current, sessions, cleaner, crashes>>

\* revert without a diff, or with a tree that cannot be read.
RevertNothing(v, root) ==
    /\ window = None
    /\ \/ diffs[v] = None /\ ret' = "diff_not_found"
       \/ /\ diffs[v] # None
          /\ TreeMayFail(root, RevertHashedUpdate(diffs[v]))
          /\ ret' = "not_found"
    /\ UNCHANGED <<buckets, sessions, window, cleaner, crashes, past, torn>>

----------------------------------------------------------------------------
(* finalize.                                                               *)

\* clean_diff_until on the JS thread: for height 0 it returns at once and
\* the callback is dropped; otherwise the work is queued for the DB thread.
Finalize(h) ==
    /\ ~Cleaning
    /\ window = None
    /\ cleaner' = [phase |-> IF h = 0 THEN "ignored" ELSE "queued", height |-> h, doomed |-> {}]
    /\ UNCHANGED <<buckets, sessions, window, crashes, ret, past, torn>>

\* Mutant: the height itself is cleaned too.
DoomedInclusive(h) == {v \in Live : v <= h}

\* Mutant: the iteration runs forward from its start key.
DoomedForward(h) == {v \in Live : v >= h - 1}

\* The DIFF keys met going backwards from version h - 1.
Doomed(h) == {v \in Live : v <= h - 1}

CleanScan ==
    /\ cleaner.phase = "queued"
    /\ cleaner' = [cleaner EXCEPT !.phase = "scanned", !.doomed = Doomed(cleaner.height)]
    /\ UNCHANGED <<buckets, sessions, window, crashes, ret, past, torn>>

\* History: without its diff a cut-off commit is beyond repair.
DoomsTorn == torn # None /\ torn.of \in cleaner.doomed

\* Mutant: with nothing to delete the handler returns without the callback.
CleanWriteIfAny ==
    /\ cleaner.phase = "scanned"
    /\ cleaner.doomed # {}
    /\ diffs' = [v \in Versions |-> IF v \in cleaner.doomed THEN None ELSE diffs[v]]
    /\ past' = [v \in Versions |-> IF v \in cleaner.doomed THEN None ELSE past[v]]
    /\ cleaner' = IdleCleaner
    /\ torn' = IF DoomsTorn THEN Spoiled ELSE torn
    /\ UNCHANGED <<state, current, tip, sessions, window, crashes, ret>>

\* The batch of deletes, and the callback.
CleanWrite ==
    /\ cleaner.phase = "scanned"
    /\ diffs' = [v \in Versions |-> IF v \in cleaner.doomed THEN None ELSE diffs[v]]
    /\ past' = [v \in Versions |-> IF v \in cleaner.doomed THEN None ELSE past[v]]
    /\ cleaner' = IdleCleaner
    /\ torn' = IF DoomsTorn THEN Spoiled ELSE torn
    /\ UNCHANGED <<state, current, tip, sessions, window, crashes, ret>>

----------------------------------------------------------------------------

\* The process dies and the database is opened again.
Crash ==
    /\ crashes < MaxCrashes
    /\ crashes' = crashes + 1
    /\ torn' = IF window = None THEN torn
               ELSE [undoable |-> torn = None /\ window.kind = "commit", of |-> window.of]
    /\ window' = None
    /\ phase' = [w \in Writers |-> "none"]
    /\ snap' = [w \in Writers |-> EmptyStore]
    /\ cache' = [w \in Writers |-> EmptyCache]
    /\ cleaner' = IdleCleaner
    /\ ret' = "none"
    /\ UNCHANGED <<buckets, past>>

\* checkRoot with the root of what the caller believes it is committing.
Expectations(w) == {Unchecked, RootOf(View(cache[w], snap[w]))}

Next ==
    \/ \E w \in Writers : NewReadWriter(w)
    \/ \E w \in Writers : TakeSnapshot(w)
    \/ \E w \in Writers, k \in Keys, v \in Values : Set(w, k, v)
    \/ \E w \in Writers, k \in Keys : Get(w, k)
    \/ \E w \in Writers, k \in Keys : Del(w, k)
    \/ \E w \in Writers : CloseWriter(w)
    \/ \E w \in Writers, v \in Versions : \E e \in Expectations(w) : Commit(w, v, e)
    \/ \E w \in Writers : \E e \in Expectations(w) : CommitNothing(w, e)
    \/ PutCurrentState
    \/ \E v \in Versions : \E root \in RevertRoots : Revert(v, root)
    \/ \E v \in Versions : \E root \in RevertRoots : RevertNothing(v, root)
    \/ \E h \in Versions : Finalize(h)
    \/ CleanScan
    \/ CleanWrite
    \/ Crash

Spec == Init /\ [][Next]_vars

\* The DB thread and the JS thread finish what they have begun.
FairSpec == Spec /\ WF_vars(CleanScan) /\ WF_vars(CleanWrite) /\ WF_vars(PutCurrentState)

----------------------------------------------------------------------------
(* Properties.                                                             *)

\* The root the database answers with, or is about to store.
RootDue == IF window = None THEN CurrentRoot ELSE window.root

\* STATE and the tree never part: whatever is committed, reverted or
\* finalized in whatever order, with stale writers and reused versions, the
\* root is the root of STATE, as long as nothing was cut off in between.
RootMatchesState == torn = None => RootDue = RootOf(state)

\* "CURRENT_STATE maintains current version and the root hash of the
\* state_db" (consts.rs:24) whenever no commit or revert is under way.
CurrentStateMatches == window = None => CurrentRoot = RootOf(state)

\* A commit or revert with the current root never finds a subtree missing.
TreeAvailable == torn = None /\ crashes = 0 => ret # "not_found"

\* checkRoot guards against stale writers: a commit accepted with the root
\* of the caller's view leaves exactly the caller's view in STATE.
CheckedCommitIsExact ==
    window # None /\ window.expected # Unchecked /\ torn = None
        => RootOf(state) = window.expected

\* u is the version committed next after v, of those that can be reverted.
Follows(u, v) == v < u /\ \A x \in Live : x <= v \/ u <= x

\* Every diff leads from the contents after its commit (STATE for the newest
\* version, else what the next version started from) back to the contents
\* before it, for all versions that were not finalized.
DiffsLeadBack ==
    \A v \in Live :
        /\ (\A u \in Live : u <= v) => RevertState(state, diffs[v]) = past[v]
        /\ \A u \in Live : Follows(u, v) => RevertState(past[u], diffs[v]) = past[v]

\* A commit cut off by a crash can be undone, as long as nothing else was
\* written or its diff finalized: the diff is there, revert with the root
\* the commit was about to answer finds every subtree, and it leads to the
\* contents and the root that CURRENT_STATE still names.  The root of
\* CURRENT_STATE itself is no use: the batch has deleted subtrees of that
\* tree (smt.rs:1113), and revert may answer NotFound (RevertNothing).
TornCommitUndoable ==
    torn # None /\ torn.undoable =>
        /\ diffs[torn.of] # None
        /\ LET data == RevertHashedUpdate(diffs[torn.of])
           IN  /\ ~TreeMayFail(RootOf(state), data)
               /\ SmtCommit(RootOf(state), data) = CurrentRoot
        /\ RootOf(RevertState(state, diffs[torn.of])) = CurrentRoot

\* Callers that keep the rules see a store with a version history.
Versioned == INSTANCE VersionedStore WITH
    Contents <- Store, Absent <- None, now <- state, past <- past

VersionedRefined == Versioned!VersionedSpec

\* "State writer will snapshot the data and even if the change happen during
\* the lifetime of reader writer, it will not be affected"
\* (read_writer_db.rs:2): the snapshot a read-writer works on is STATE as it
\* was when newReadWriter() returned it.
SnapshotAtCreation ==
    [][\A w \in Writers : phase[w] = "starting" /\ phase'[w] = "open"
            => snap'[w] = snap[w]]_vars

\* finalize "should remove all diff except the height specified": when the
\* DB thread has answered, the diffs from that height on are all there and
\* no other, although commits and reverts ran between its scan and its write.
FinalizeExact ==
    [][cleaner.phase = "scanned" /\ CleanWrite
            => {v \in Versions : diffs'[v] # None} = {v \in Live : v >= cleaner.height}]_vars

\* A finalize request that reached the DB thread is carried out and answered,
\* unless the process dies: a crash ends the request with its caller.
FinalizeCarriedOut == cleaner.phase = "queued" ~> cleaner.phase = "idle"

============================================================================
