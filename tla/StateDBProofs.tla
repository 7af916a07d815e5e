---------------------------- MODULE StateDBProofs ----------------------------
(***************************************************************************)
(* Proofs about StateDB, for every set of keys, values and read-writers,   *)
(* every range of versions and any number of crashes.  The first part      *)
(* assumes nothing of the callers; the second assumes that they keep the   *)
(* rules FreshCommit and FreshRevert.                                      *)
(***************************************************************************)
EXTENDS StateDB, StateWriterProofs

----------------------------------------------------------------------------
(* Types.                                                                  *)

\* The roots a commit or a revert computes from the roots it starts from are roots.
LEMMA RootTypes ==
    ASSUME TypeOK
    PROVE  /\ CurrentRoot \in Root
           /\ \A root \in Root, data \in UpdateData :
                 /\ SmtCommit(root, data) \in Root
                 /\ TipAfter(root, data) \in Root \union {None}
  <1>1. CurrentRoot \in Root
    BY TreeTypes DEF CurrentRoot, TypeOK, CurrentState
  <1>2. \A root \in Root, data \in UpdateData : SmtCommit(root, data) \in Root
    BY TreeTypes
  <1>3. tip \in Root \union {None}
    BY DEF TypeOK
  <1> QED
    BY <1>1, <1>2, <1>3 DEF TipAfter

\* The subtraction of revert stays within u32.
LEMMA PredecessorType == \A v \in Versions : Predecessor(v) \in Versions
  BY StateDBAssumption DEF Versions, Predecessor

\* Init is well typed.
LEMMA InitTypes == Init => TypeOK
  <1> SUFFICES ASSUME Init PROVE TypeOK
    OBVIOUS
  <1> USE DEF Init
  <1>1. EmptyStore \in Store
    BY DEF EmptyStore, Store, MaybeValue
  <1>2. EmptyCache \in Cache /\ EmptyRoot \in Root
    BY <1>1, EmptyCacheLemma, TreeTypes
  <1>3. 0 \in Versions /\ crashes \in 0 .. MaxCrashes
    BY StateDBAssumption DEF Versions
  <1>4. cleaner \in [phase : {"idle", "ignored", "queued", "scanned"},
                     height : Versions, doomed : SUBSET Versions]
    BY <1>3 DEF IdleCleaner
  <1>5. ret \in Outcome
    BY DEF Outcome
  <1>6. /\ diffs \in [Versions -> Diff \union {None}]
        /\ past \in [Versions -> Store \union {None}]
        /\ snap \in [Writers -> Store]
        /\ cache \in [Writers -> Cache]
        /\ phase \in [Writers -> {"none", "starting", "open"}]
    BY <1>1, <1>2
  <1> QED
    BY <1>1, <1>2, <1>3, <1>4, <1>5, <1>6 DEF TypeOK

\* A handler of a read-writer changes its cache only.
LEMMA HandlerTypes ==
    ASSUME TypeOK, NEW w \in Writers, NEW next \in Cache, Handler(w, next)
    PROVE  TypeOK'
  <1>1. cache' \in [Writers -> Cache]
    BY DEF Handler, TypeOK
  <1> QED
    BY <1>1 DEF Handler, buckets, TypeOK

\* Every read-writer's cache fits its snapshot and is empty until there is one.
SessionsFit ==
    \A w \in Writers : /\ CacheFits(cache[w], snap[w])
                       /\ phase[w] # "open" => cache[w] = EmptyCache

\* What the handlers make of a cache that fits.
LEMMA HandlerCaches ==
    ASSUME TypeOK, SessionsFit, NEW w \in Writers, NEW k \in Keys
    PROVE  /\ \A v \in Values : /\ Upsert(cache[w], snap[w], k, v) \in Cache
                                /\ CacheFits(Upsert(cache[w], snap[w], k, v), snap[w])
           /\ Load(cache[w], snap[w], k) \in Cache
           /\ CacheFits(Load(cache[w], snap[w], k), snap[w])
           /\ Erase(cache[w], snap[w], k) \in Cache
           /\ CacheFits(Erase(cache[w], snap[w], k), snap[w])
  <1>1. cache[w] \in Cache /\ snap[w] \in Store /\ CacheFits(cache[w], snap[w])
    BY DEF TypeOK, SessionsFit
  <1>2. \A v \in Values : /\ Upsert(cache[w], snap[w], k, v) \in Cache
                          /\ CacheFits(Upsert(cache[w], snap[w], k, v), snap[w])
    BY <1>1, UpsertLemma
  <1>3. /\ Load(cache[w], snap[w], k) \in Cache
        /\ CacheFits(Load(cache[w], snap[w], k), snap[w])
    BY <1>1, LoadLemma
  <1>4. /\ Erase(cache[w], snap[w], k) \in Cache
        /\ CacheFits(Erase(cache[w], snap[w], k), snap[w])
    BY <1>1, EraseLemma
  <1> QED
    BY <1>2, <1>3, <1>4

\* Spoiling what was cut off keeps its type.
LEMMA SpoiledType ==
    ASSUME TypeOK
    PROVE  Spoiled \in Torn \union {None} /\ (Spoiled # None => ~Spoiled.undoable)
  BY DEF TypeOK, Spoiled, Torn

\* A step that leaves what was cut off alone, or spoils it, cuts nothing off
\* and repairs nothing.
LEMMA SpoiledTorn ==
    ASSUME TypeOK, torn' \in {torn, Spoiled}
    PROVE  /\ torn' = None <=> torn = None
           /\ torn' # None /\ torn'.undoable => torn' = torn
  <1>1. Spoiled # None => ~Spoiled.undoable
    BY SpoiledType
  <1>2. torn # None => Spoiled # None
    <2>1. torn # None => Spoiled \in Torn
      BY DEF TypeOK, Spoiled, Torn
    <2> QED
      BY <2>1, StateDBAssumption
  <1>3. torn = None => Spoiled = None
    BY DEF Spoiled
  <1> QED
    BY <1>1, <1>2, <1>3

\* The roots a caller of revert has.
LEMMA RevertRootTypes ==
    ASSUME TypeOK, NEW root \in RevertRoots
    PROVE  root \in Root /\ (root = CurrentRoot \/ (torn # None /\ root = RootOf(state)))
  <1>1. CurrentRoot \in Root
    BY TreeTypes DEF CurrentRoot, TypeOK, CurrentState
  <1>2. RootOf(state) \in Root
    BY TreeTypes DEF TypeOK
  <1> QED
    BY <1>1, <1>2 DEF RevertRoots

\* A commit keeps the types.
LEMMA CommitStepTypes ==
    ASSUME TypeOK, NEW w \in Writers, NEW v \in Versions,
           NEW expected \in Root \union {Unchecked}, Commit(w, v, expected)
    PROVE  TypeOK'
  <1> DEFINE data == GetHashedUpdated(cache[w])
  <1>1. /\ CommitState(state, cache[w]) \in Store
        /\ CommitDiff(cache[w]) \in Diff
        /\ data \in UpdateData
    BY CommitTypes DEF TypeOK
  <1>2. SmtCommit(CurrentRoot, data) \in Root /\ TipAfter(CurrentRoot, data) \in Root \union {None}
    BY <1>1, RootTypes
  <1>3. window' \in Window
    BY <1>2 DEF Commit, Window
  <1>4. state' \in Store /\ tip' \in Root \union {None}
    BY <1>1, <1>2 DEF Commit
  <1>5. diffs' \in [Versions -> Diff \union {None}]
    BY <1>1 DEF Commit, TypeOK
  <1>6. past' \in [Versions -> Store \union {None}]
    BY DEF Commit, TypeOK
  <1>7. torn' \in Torn \union {None} /\ ret' \in Outcome
    BY SpoiledType DEF Commit, Outcome
  <1> QED
    BY <1>3, <1>4, <1>5, <1>6, <1>7 DEF Commit, sessions, TypeOK

\* A revert keeps the types.
LEMMA RevertStepTypes ==
    ASSUME TypeOK, NEW v \in Versions, NEW root \in RevertRoots, Revert(v, root)
    PROVE  TypeOK'
  <1> DEFINE data == RevertHashedUpdate(diffs[v])
  <1>1. diffs[v] \in Diff /\ state \in Store
    BY DEF Revert, TypeOK
  <1>2. RevertState(state, diffs[v]) \in Store /\ data \in UpdateData
    BY <1>1, RevertTypes
  <1>3. SmtCommit(root, data) \in Root /\ TipAfter(root, data) \in Root \union {None}
    BY <1>2, RootTypes, RevertRootTypes
  <1>4. window' \in Window \union {None}
    BY <1>3, PredecessorType DEF Revert, Window
  <1>5. state' \in Store /\ tip' \in Root \union {None}
    BY <1>2, <1>3 DEF Revert
  <1>6. diffs' \in [Versions -> Diff \union {None}] /\ past' \in [Versions -> Store \union {None}]
    BY DEF Revert, TypeOK
  <1>7. torn' \in Torn \union {None} /\ ret' \in Outcome
    <2>1. [undoable |-> FALSE, of |-> v] \in Torn
      BY DEF Torn
    <2>2. torn' \in {[undoable |-> FALSE, of |-> v], None, Spoiled}
      BY DEF Revert
    <2>3. Spoiled \in Torn \union {None}
      BY SpoiledType
    <2>4. ret' \in Outcome
      BY DEF Revert, Outcome
    <2> QED
      BY <2>1, <2>2, <2>3, <2>4
  <1> QED
    BY <1>4, <1>5, <1>6, <1>7 DEF Revert, sessions, TypeOK

\* Every step keeps the types, and every cache fits its snapshot.
LEMMA NextTypes == TypeOK /\ SessionsFit /\ [Next]_vars => TypeOK' /\ SessionsFit'
  <1> SUFFICES ASSUME TypeOK, SessionsFit, [Next]_vars PROVE TypeOK' /\ SessionsFit'
    OBVIOUS
  <1>s. EmptyStore \in Store
    BY DEF EmptyStore, Store, MaybeValue
  <1>c. EmptyCache \in Cache /\ CacheFits(EmptyCache, EmptyStore)
    BY <1>s, EmptyCacheLemma
  <1>f. UNCHANGED sessions => SessionsFit'
    BY DEF SessionsFit, sessions
  <1>0. /\ phase \in [Writers -> {"none", "starting", "open"}]
        /\ snap \in [Writers -> Store]
        /\ cache \in [Writers -> Cache]
    BY DEF TypeOK
  <1>i. IdleCleaner \in [phase : {"idle", "ignored", "queued", "scanned"},
                         height : Versions, doomed : SUBSET Versions]
    BY StateDBAssumption DEF IdleCleaner, Versions
  <1>1. ASSUME NEW w \in Writers, NewReadWriter(w) PROVE TypeOK' /\ SessionsFit'
    <2>1. phase' \in [Writers -> {"none", "starting", "open"}] /\ snap' \in [Writers -> Store]
      BY <1>0, <1>1 DEF NewReadWriter, TypeOK
    <2>2. CacheFits(EmptyCache, state) /\ cache[w] = EmptyCache
      BY <1>1, EmptyCacheLemma DEF NewReadWriter, TypeOK, SessionsFit
    <2>3. SessionsFit'
      BY <1>0, <1>1, <2>2 DEF NewReadWriter, SessionsFit
    <2> QED
      BY <1>1, <2>1, <2>3 DEF NewReadWriter, buckets, TypeOK
  <1>2. ASSUME NEW w \in Writers, TakeSnapshot(w) PROVE TypeOK' /\ SessionsFit'
    <2>1. phase' \in [Writers -> {"none", "starting", "open"}] /\ snap' \in [Writers -> Store]
      BY <1>0, <1>2 DEF TakeSnapshot, TypeOK
    <2>2. CacheFits(EmptyCache, state) /\ cache[w] = EmptyCache
      BY <1>2, EmptyCacheLemma DEF TakeSnapshot, TypeOK, SessionsFit
    <2>3. SessionsFit'
      BY <1>0, <1>2, <2>2 DEF TakeSnapshot, SessionsFit
    <2> QED
      BY <1>2, <2>1, <2>3 DEF TakeSnapshot, buckets, TypeOK
  <1>3. ASSUME NEW w \in Writers, NEW next \in Cache, CacheFits(next, snap[w]), Handler(w, next)
        PROVE  TypeOK' /\ SessionsFit'
    <2>1. SessionsFit'
      BY <1>0, <1>3 DEF Handler, SessionsFit
    <2> QED
      BY <1>3, <2>1, HandlerTypes
  <1>4. ASSUME NEW w \in Writers, NEW k \in Keys, NEW v \in Values, Set(w, k, v)
        PROVE  TypeOK' /\ SessionsFit'
    BY <1>3, <1>4, HandlerCaches DEF Set
  <1>5. ASSUME NEW w \in Writers, NEW k \in Keys, Get(w, k) PROVE TypeOK' /\ SessionsFit'
    BY <1>3, <1>5, HandlerCaches DEF Get
  <1>6. ASSUME NEW w \in Writers, NEW k \in Keys, Del(w, k) PROVE TypeOK' /\ SessionsFit'
    BY <1>3, <1>6, HandlerCaches DEF Del
  <1>7. ASSUME NEW w \in Writers, CloseWriter(w) PROVE TypeOK' /\ SessionsFit'
    <2>1. /\ phase' \in [Writers -> {"none", "starting", "open"}]
          /\ snap' \in [Writers -> Store]
          /\ cache' \in [Writers -> Cache]
      BY <1>0, <1>7, <1>s, <1>c DEF CloseWriter
    <2>2. SessionsFit'
      BY <1>0, <1>7, <1>c DEF CloseWriter, SessionsFit
    <2> QED
      BY <1>7, <2>1, <2>2 DEF CloseWriter, buckets, TypeOK
  <1>8. ASSUME NEW w \in Writers, NEW v \in Versions, NEW e \in Expectations(w), Commit(w, v, e)
        PROVE  TypeOK' /\ SessionsFit'
    <2>1. e \in Root \union {Unchecked}
      BY <1>0, ViewTypes, TreeTypes DEF Expectations
    <2> QED
      BY <1>8, <1>f, <2>1, CommitStepTypes DEF Commit
  <1>9. ASSUME NEW w \in Writers, NEW e \in Expectations(w), CommitNothing(w, e)
        PROVE  TypeOK' /\ SessionsFit'
    <2>1. ret' \in Outcome
      BY <1>9 DEF CommitNothing, Outcome
    <2> QED
      BY <1>9, <1>f, <2>1 DEF CommitNothing, buckets, sessions, TypeOK
  <1>10. CASE PutCurrentState
    <2>1. current' \in CurrentState /\ ret' \in Outcome
      BY <1>10 DEF PutCurrentState, TypeOK, Window, CurrentState, Outcome
    <2> QED
      BY <1>10, <1>f, <2>1 DEF PutCurrentState, sessions, TypeOK
  <1>11. ASSUME NEW v \in Versions, NEW root \in RevertRoots, Revert(v, root)
         PROVE  TypeOK' /\ SessionsFit'
    BY <1>11, <1>f, RevertStepTypes DEF Revert
  <1>12. ASSUME NEW v \in Versions, NEW root \in RevertRoots, RevertNothing(v, root)
         PROVE  TypeOK' /\ SessionsFit'
    <2>1. ret' \in Outcome
      BY <1>12 DEF RevertNothing, Outcome
    <2> QED
      BY <1>12, <1>f, <2>1 DEF RevertNothing, buckets, sessions, TypeOK
  <1>13. ASSUME NEW h \in Versions, Finalize(h) PROVE TypeOK' /\ SessionsFit'
    <2>1. cleaner' \in [phase : {"idle", "ignored", "queued", "scanned"},
                        height : Versions, doomed : SUBSET Versions]
      BY <1>13 DEF Finalize
    <2> QED
      BY <1>13, <1>f, <2>1 DEF Finalize, buckets, sessions, TypeOK
  <1>14. CASE CleanScan
    <2>1. Doomed(cleaner.height) \subseteq Versions
      BY DEF Doomed, Live
    <2>2. cleaner' \in [phase : {"idle", "ignored", "queued", "scanned"},
                        height : Versions, doomed : SUBSET Versions]
      BY <1>14, <2>1 DEF CleanScan, TypeOK
    <2> QED
      BY <1>14, <1>f, <2>2 DEF CleanScan, buckets, sessions, TypeOK
  <1>15. CASE CleanWrite
    <2>1. diffs' \in [Versions -> Diff \union {None}]
      BY <1>15 DEF CleanWrite, TypeOK
    <2>2. past' \in [Versions -> Store \union {None}]
      BY <1>15 DEF CleanWrite, TypeOK
    <2>3. torn' \in Torn \union {None}
      BY <1>15, SpoiledType DEF CleanWrite, TypeOK
    <2> QED
      BY <1>15, <1>f, <1>i, <2>1, <2>2, <2>3 DEF CleanWrite, sessions, TypeOK
  <1>16. CASE Crash
    <2>1. /\ phase' \in [Writers -> {"none", "starting", "open"}]
          /\ snap' \in [Writers -> Store]
          /\ cache' \in [Writers -> Cache]
      BY <1>16, <1>s, <1>c DEF Crash
    <2>2. torn' \in Torn \union {None}
      BY <1>16 DEF Crash, TypeOK, Torn, Window
    <2>3. crashes' \in 0 .. MaxCrashes /\ ret' \in Outcome
      BY <1>16, StateDBAssumption DEF Crash, TypeOK, Outcome
    <2>4. SessionsFit'
      BY <1>16, <1>c DEF Crash, SessionsFit
    <2> QED
      BY <1>16, <1>i, <2>1, <2>2, <2>3, <2>4 DEF Crash, buckets, TypeOK
  <1>17. CASE UNCHANGED vars
    BY <1>17, <1>f DEF vars, buckets, sessions, TypeOK
  <1> QED
    BY <1>1, <1>2, <1>4, <1>5, <1>6, <1>7, <1>8, <1>9, <1>10, <1>11, <1>12, <1>13, <1>14,
       <1>15, <1>16, <1>17 DEF Next

\* The database and its read-writers are well typed for every caller.
THEOREM TypeCorrect == Spec => [](TypeOK /\ SessionsFit)
  <1>1. Init => SessionsFit
    BY EmptyCacheLemma DEF Init, SessionsFit, EmptyStore, Store, MaybeValue
  <1> QED
    BY <1>1, InitTypes, NextTypes, PTL DEF Spec

----------------------------------------------------------------------------
(* STATE and the tree, for callers that keep no rule.                      *)

\* On the keys a diff does not mention, CURRENT_STATE names what STATE holds.
Agree(diff) ==
    \A k \in Keys : RevertHashedUpdate(diff)[k] = None => CurrentRoot[k] = RootOf(state)[k]

\* RootMatchesState is not inductive: a revert of the one commit that was cut
\* off leads back to a state in which it has to hold, so the invariant says
\* what is known of such a commit, while it is under way and afterwards.
RootInv ==
    /\ RootMatchesState
    /\ window # None => Accepts(window.root, window.expected)
    /\ window # None /\ window.kind = "commit" /\ torn = None /\ diffs[window.of] # None
            => Agree(diffs[window.of])
    /\ torn # None /\ torn.undoable
            => /\ window = None
               /\ crashes # 0
               /\ diffs[torn.of] # None => Agree(diffs[torn.of])
    /\ torn = None /\ crashes = 0 => TreeComplete(RootDue)
    /\ TreeAvailable

\* An update of a complete tree leaves a complete tree.
LEMMA UpdateComplete ==
    ASSUME NEW root \in Root, NEW data, TreeComplete(root), tip' = TipAfter(root, data)
    PROVE  SmtCommit(root, data) \in {tip', EmptyRoot}
  <1>1. CASE IsEmptyData(data)
    <2>1. SmtCommit(root, data) = root /\ tip' = tip
      BY <1>1, EmptyDataLemma DEF TipAfter
    <2> QED
      BY <2>1 DEF TreeComplete
  <1>2. CASE ~IsEmptyData(data)
    BY <1>2 DEF TipAfter
  <1> QED
    BY <1>1, <1>2

\* A commit, of a fresh or a stale writer, keeps the invariant.
LEMMA RootCommit ==
    ASSUME TypeOK, SessionsFit, RootInv, NEW w \in Writers, NEW v \in Versions,
           NEW e \in Expectations(w), Commit(w, v, e)
    PROVE  RootInv'
  <1> DEFINE data == GetHashedUpdated(cache[w])
  <1> DEFINE root == SmtCommit(CurrentRoot, data)
  <1>1. /\ state \in Store /\ cache[w] \in Cache /\ snap[w] \in Store
        /\ CacheFits(cache[w], snap[w])
    BY DEF TypeOK, SessionsFit
  <1>2. /\ window = None /\ window' # None
        /\ window'.root = root /\ window'.of = v /\ window'.expected = e
        /\ state' = CommitState(state, cache[w])
        /\ diffs'[v] = CommitDiff(cache[w])
        /\ Accepts(root, e)
        /\ tip' = TipAfter(CurrentRoot, data)
        /\ current' = current /\ crashes' = crashes /\ torn' = Spoiled /\ ret' = "none"
    <2>2. window' # None
      <3>1. e \in Root \union {Unchecked}
        BY <1>1, ViewTypes, TreeTypes DEF Expectations
      <3>2. root \in Root
        BY <1>1, CommitTypes, RootTypes
      <3>3. window' \in Window
        BY <3>1, <3>2 DEF Commit, Window
      <3> QED
        BY <3>3, StateDBAssumption
    <2>3. diffs'[v] = CommitDiff(cache[w])
      BY DEF Commit, TypeOK
    <2> QED
      BY <2>2, <2>3 DEF Commit
  <1>3. CurrentRoot' = CurrentRoot /\ CurrentRoot \in Root
    BY <1>2, RootTypes DEF CurrentRoot
  <1>4. torn' = None => torn = None
    <2>1. torn' \in {torn, Spoiled}
      BY <1>2
    <2> QED
      BY <2>1, SpoiledTorn
  <1>5. torn = None => CurrentRoot = RootOf(state)
    BY <1>2 DEF RootInv, RootMatchesState, RootDue
  <1>6. torn = None => root = RootOf(state')
    BY <1>1, <1>2, <1>5, CommitHashLemma
  <1>7. RootDue' = root
    BY <1>2 DEF RootDue
  <1>8. RootMatchesState'
    BY <1>4, <1>6, <1>7 DEF RootMatchesState
  <1>9. torn' = None => Agree(diffs[v])'
    <2> SUFFICES ASSUME torn' = None, NEW k \in Keys,
                        RevertHashedUpdate(diffs[v])[k]' = None
                 PROVE  CurrentRoot[k]' = RootOf(state)[k]'
      BY DEF Agree
    <2>1. RevertHashedUpdate(CommitDiff(cache[w]))[k] = None
      BY <1>2
    <2>2. state'[k] = state[k]
      BY <1>1, <1>2, <2>1, UntouchedLemma
    <2>3. RootOf(state')[k] = RootOf(state)[k]
      BY <2>2 DEF RootOf
    <2> QED
      BY <1>3, <1>4, <1>5, <2>3
  <1>10. torn' # None => ~torn'.undoable
    BY <1>2, SpoiledType
  <1>11. torn' = None /\ crashes' = 0 => TreeComplete(RootDue)'
    <2> SUFFICES ASSUME torn' = None, crashes' = 0 PROVE TreeComplete(RootDue)'
      OBVIOUS
    <2>1. TreeComplete(CurrentRoot)
      BY <1>2, <1>4 DEF RootInv, RootDue
    <2>2. root \in {tip', EmptyRoot}
      BY <1>2, <1>3, <2>1, UpdateComplete
    <2> QED
      BY <1>7, <2>2 DEF TreeComplete
  <1>12. TreeAvailable'
    BY <1>2 DEF TreeAvailable
  <1>13. Accepts(window.root, window.expected)'
    BY <1>2 DEF Accepts
  <1> QED
    BY <1>2, <1>8, <1>9, <1>10, <1>11, <1>12, <1>13 DEF RootInv

\* A revert of any version, the one that was cut off included, keeps it.
LEMMA RootRevert ==
    ASSUME TypeOK, RootInv, NEW v \in Versions, NEW root \in RevertRoots, Revert(v, root)
    PROVE  RootInv'
  <1> DEFINE data == RevertHashedUpdate(diffs[v])
  <1> DEFINE next == SmtCommit(root, data)
  <1>1. state \in Store /\ diffs[v] \in Diff /\ data \in UpdateData
    BY RevertTypes DEF Revert, TypeOK
  <1>2. /\ CurrentRoot' = CurrentRoot
        /\ root \in Root /\ next \in Root
        /\ root = CurrentRoot \/ (torn # None /\ root = RootOf(state))
    BY <1>1, RootTypes, RevertRootTypes DEF CurrentRoot, Revert
  <1>3. /\ window = None /\ crashes' = crashes
        /\ state' = RevertState(state, diffs[v])
        /\ tip' = TipAfter(root, data)
        /\ ret' # "not_found"
    BY DEF Revert
  <1>4. CASE v = 0 /\ OverflowChecks
    <2>1. torn' = [undoable |-> FALSE, of |-> v] /\ window' = None
      BY <1>3, <1>4 DEF Revert
    <2>2. torn' # None /\ ~torn'.undoable
      <3>1. [undoable |-> FALSE, of |-> v] \in Torn
        BY DEF Torn
      <3> QED
        BY <2>1, <3>1, StateDBAssumption
    <2> QED
      BY <1>3, <2>1, <2>2 DEF RootInv, RootMatchesState, TreeAvailable
  <1>5. CASE ~(v = 0 /\ OverflowChecks)
    <2>1. /\ window' = [root |-> next, version |-> Predecessor(v), of |-> v, kind |-> "revert",
                        expected |-> Unchecked]
          /\ torn' = IF torn = [undoable |-> TRUE, of |-> v] THEN None ELSE Spoiled
      BY <1>5 DEF Revert
    <2>2. /\ window' # None
          /\ window'.root = next
          /\ window'.kind = "revert"
          /\ window'.expected = Unchecked
      <3>1. window' \in Window
        BY <1>2, <2>1, PredecessorType DEF Window
      <3> QED
        BY <2>1, <3>1, StateDBAssumption
    <2>3. torn' = None => torn = None \/ torn = [undoable |-> TRUE, of |-> v]
      BY <2>1, StateDBAssumption DEF Spoiled, TypeOK, Torn
    <2>4. ASSUME torn = None
          PROVE  next = RootOf(state') /\ root = CurrentRoot
      <3>1. root = CurrentRoot /\ CurrentRoot = RootOf(state)
        BY <1>2, <1>3, <2>4 DEF RootInv, RootMatchesState, RootDue
      <3> QED
        BY <1>1, <1>3, <3>1, RevertHashLemma
    <2>5. ASSUME torn = [undoable |-> TRUE, of |-> v]
          PROVE  next = RootOf(state') /\ crashes # 0
      <3>1. torn # None /\ torn.undoable /\ torn.of = v
        <4>1. torn \in Torn
          BY <2>5 DEF Torn
        <4> QED
          BY <2>5, <4>1, StateDBAssumption
      <3>2. Agree(diffs[v]) /\ crashes # 0
        BY <3>1 DEF RootInv, Revert
      <3>3. SmtCommit(CurrentRoot, data) = SmtCommit(RootOf(state), data)
        BY <3>2 DEF Agree, SmtCommit
      <3>4. next = SmtCommit(RootOf(state), data)
        BY <1>2, <3>3
      <3> QED
        BY <1>1, <1>3, <3>2, <3>4, RevertHashLemma
    <2>6. RootDue' = next
      BY <2>2 DEF RootDue
    <2>7. RootMatchesState'
      BY <2>3, <2>4, <2>5, <2>6 DEF RootMatchesState
    <2>8. torn' # None => ~torn'.undoable
      BY <2>1, SpoiledType
    <2>9. torn' = None /\ crashes' = 0 => TreeComplete(RootDue)'
      <3> SUFFICES ASSUME torn' = None, crashes' = 0 PROVE TreeComplete(RootDue)'
        OBVIOUS
      <3>1. TreeComplete(root)
        BY <1>3, <2>3, <2>4, <2>5 DEF RootInv, RootDue
      <3>2. next \in {tip', EmptyRoot}
        BY <1>2, <1>3, <3>1, UpdateComplete
      <3> QED
        BY <2>6, <3>2 DEF TreeComplete
    <2>10. TreeAvailable'
      BY <1>3 DEF TreeAvailable
    <2>11. Accepts(window.root, window.expected)'
      BY <2>2 DEF Accepts
    <2> QED
      BY <2>2, <2>7, <2>8, <2>9, <2>10, <2>11 DEF RootInv
  <1> QED
    BY <1>4, <1>5

\* Steps that leave alone all that RootInv speaks of, but may drop diffs.
LEMMA RootFrame ==
    ASSUME RootInv, UNCHANGED <<state, current, tip, window, crashes>>, torn' \in {torn, Spoiled},
           \A v \in Versions : diffs'[v] \in {None, diffs[v]},
           TypeOK, ret' = ret \/ ret' # "not_found" \/ ~(torn = None /\ crashes = 0)
    PROVE  RootInv'
  <1>0. /\ torn' = None <=> torn = None
        /\ torn' # None /\ torn'.undoable => torn' = torn
    BY SpoiledTorn
  <1>1. CurrentRoot' = CurrentRoot /\ RootDue' = RootDue
    BY DEF CurrentRoot, RootDue
  <1>2. RootOf(state)' = RootOf(state)
    BY DEF RootOf
  <1>3. \A v \in Versions : diffs'[v] # None /\ Agree(diffs[v]) => Agree(diffs[v])'
    BY <1>1, <1>2 DEF Agree
  <1>4. RootMatchesState' /\ TreeAvailable'
    BY <1>0, <1>1, <1>2 DEF RootInv, RootMatchesState, TreeAvailable
  <1>5. /\ window # None => window.of \in Versions
        /\ torn # None => torn.of \in Versions
    BY DEF TypeOK, Window, Torn
  <1>6. TreeComplete(RootDue)' = TreeComplete(RootDue)
    BY <1>1 DEF TreeComplete
  <1>7. window' # None => Accepts(window.root, window.expected)'
    BY DEF RootInv, Accepts
  <1>8. window' # None /\ window'.kind = "commit" /\ torn' = None /\ diffs'[window'.of] # None
            => Agree(diffs[window.of])'
    BY <1>0, <1>3, <1>5 DEF RootInv
  <1>9. torn' # None /\ torn'.undoable
            => /\ window' = None
               /\ crashes' # 0
               /\ diffs'[torn'.of] # None => Agree(diffs[torn.of])'
    BY <1>0, <1>3, <1>5 DEF RootInv
  <1>10. torn' = None /\ crashes' = 0 => TreeComplete(RootDue)'
    BY <1>0, <1>6 DEF RootInv
  <1> QED
    BY <1>4, <1>7, <1>8, <1>9, <1>10 DEF RootInv

\* The tree is complete, so it cannot answer NotFound before a crash.
LEMMA RootNothing ==
    ASSUME RootInv, window = None, NEW data, TreeMayFail(CurrentRoot, data)
    PROVE  ~(torn = None /\ crashes = 0)
  BY DEF RootInv, TreeMayFail, RootDue

\* The put of CURRENT_STATE stores the root that was due.
LEMMA RootPut ==
    ASSUME TypeOK, RootInv, PutCurrentState
    PROVE  RootInv'
  <1>1. /\ window # None /\ window' = None
        /\ current' = [root |-> window.root, version |-> window.version]
        /\ UNCHANGED <<state, tip, crashes, torn>>
        /\ ret' = "ok"
    BY DEF PutCurrentState
  <1>2. current' # None
    <2>1. current' \in CurrentState
      BY <1>1 DEF TypeOK, Window, CurrentState
    <2> QED
      BY <2>1, StateDBAssumption
  <1>3. RootDue' = RootDue
    BY <1>1, <1>2 DEF RootDue, CurrentRoot
  <1>4. torn = None \/ ~torn.undoable
    BY <1>1 DEF RootInv
  <1>5. RootMatchesState' /\ TreeAvailable'
    BY <1>1, <1>3 DEF RootInv, RootMatchesState, RootOf, TreeAvailable
  <1>6. TreeComplete(RootDue)' = TreeComplete(RootDue)
    BY <1>1, <1>3 DEF TreeComplete
  <1> QED
    BY <1>1, <1>4, <1>5, <1>6 DEF RootInv

\* A crash turns a commit that is under way into one that was cut off.
LEMMA RootCrash ==
    ASSUME TypeOK, RootInv, Crash
    PROVE  RootInv'
  <1>1. /\ window' = None /\ ret' = "none" /\ crashes' = crashes + 1
        /\ UNCHANGED <<state, diffs, current, tip>>
        /\ torn' = IF window = None THEN torn
                   ELSE [undoable |-> torn = None /\ window.kind = "commit", of |-> window.of]
    BY DEF Crash, buckets
  <1>2. crashes' # 0
    BY <1>1 DEF TypeOK
  <1>3. CurrentRoot' = CurrentRoot /\ RootOf(state)' = RootOf(state) /\ RootDue' = CurrentRoot
    BY <1>1 DEF CurrentRoot, RootOf, RootDue
  <1>4. \A v \in Versions : Agree(diffs[v]) => Agree(diffs[v])'
    BY <1>1, <1>3 DEF Agree
  <1>5. TreeAvailable'
    BY <1>1 DEF TreeAvailable
  <1>6. CASE window = None
    <2>1. torn' = torn
      BY <1>1, <1>6
    <2>2. RootMatchesState'
      BY <1>3, <1>6, <2>1 DEF RootInv, RootMatchesState, RootDue
    <2>3. torn # None => torn.of \in Versions
      BY DEF TypeOK, Torn
    <2>4. torn' # None /\ torn'.undoable /\ diffs'[torn'.of] # None => Agree(diffs[torn.of])'
      BY <1>1, <1>4, <2>1, <2>3 DEF RootInv
    <2> QED
      BY <1>1, <1>2, <1>5, <2>2, <2>4 DEF RootInv
  <1>7. CASE window # None
    <2>1. torn' = [undoable |-> torn = None /\ window.kind = "commit", of |-> window.of]
      BY <1>1, <1>7
    <2>2. torn' \in Torn
      BY <1>7, <2>1 DEF TypeOK, Window, Torn
    <2>3. torn' # None
      BY <2>2, StateDBAssumption
    <2>4. torn'.of \in Versions /\ torn'.of = window.of
      BY <2>1, <2>2 DEF Torn
    <2>5. torn'.undoable => torn = None /\ window.kind = "commit"
      BY <2>1
    <2>6. torn'.undoable /\ diffs'[torn'.of] # None => Agree(diffs[torn.of])'
      BY <1>1, <1>4, <1>7, <2>4, <2>5 DEF RootInv
    <2> QED
      BY <1>1, <1>2, <1>5, <2>3, <2>6 DEF RootInv, RootMatchesState
  <1> QED
    BY <1>6, <1>7

\* Every step keeps the invariant.
LEMMA NextRoot == TypeOK /\ SessionsFit /\ RootInv /\ [Next]_vars => RootInv'
  <1> SUFFICES ASSUME TypeOK, SessionsFit, RootInv, [Next]_vars PROVE RootInv'
    OBVIOUS
  <1>0. ASSUME UNCHANGED <<state, diffs, current, tip, window, crashes, torn>>,
               ret' = ret \/ ret' # "not_found" \/ ~(torn = None /\ crashes = 0)
        PROVE  RootInv'
    BY <1>0, RootFrame
  <1>1. ASSUME NEW w \in Writers, NewReadWriter(w) \/ TakeSnapshot(w) \/ CloseWriter(w)
        PROVE  RootInv'
    BY <1>0, <1>1 DEF NewReadWriter, TakeSnapshot, CloseWriter, buckets
  <1>2. ASSUME NEW w \in Writers, NEW next, Handler(w, next) PROVE RootInv'
    BY <1>0, <1>2 DEF Handler, buckets
  <1>3. ASSUME NEW w \in Writers, NEW k \in Keys, NEW v \in Values, Set(w, k, v) PROVE RootInv'
    BY <1>2, <1>3 DEF Set
  <1>4. ASSUME NEW w \in Writers, NEW k \in Keys, Get(w, k) \/ Del(w, k) PROVE RootInv'
    BY <1>2, <1>4 DEF Get, Del
  <1>5. ASSUME NEW w \in Writers, NEW v \in Versions, NEW e \in Expectations(w), Commit(w, v, e)
        PROVE  RootInv'
    BY <1>5, RootCommit
  <1>6. ASSUME NEW w \in Writers, NEW e \in Expectations(w), CommitNothing(w, e) PROVE RootInv'
    <2>1. window = None
      BY <1>6 DEF CommitNothing
    <2>2. ret' # "not_found" \/ ~(torn = None /\ crashes = 0)
      BY <1>6, <2>1, RootNothing DEF CommitNothing
    <2> QED
      BY <1>0, <1>6, <2>2 DEF CommitNothing, buckets
  <1>7. CASE PutCurrentState
    BY <1>7, RootPut
  <1>8. ASSUME NEW v \in Versions, NEW root \in RevertRoots, Revert(v, root) PROVE RootInv'
    BY <1>8, RootRevert
  <1>9. ASSUME NEW v \in Versions, NEW root \in RevertRoots, RevertNothing(v, root) PROVE RootInv'
    <2>1. window = None /\ (torn = None => root = CurrentRoot)
      BY <1>9, RevertRootTypes DEF RevertNothing
    <2>2. ret' # "not_found" \/ ~(torn = None /\ crashes = 0)
      BY <1>9, <2>1, RootNothing DEF RevertNothing
    <2> QED
      BY <1>0, <1>9, <2>2 DEF RevertNothing, buckets
  <1>10. ASSUME NEW h \in Versions, Finalize(h) PROVE RootInv'
    BY <1>0, <1>10 DEF Finalize, buckets
  <1>11. CASE CleanScan
    BY <1>0, <1>11 DEF CleanScan, buckets
  <1>12. CASE CleanWrite
    BY <1>12, RootFrame DEF CleanWrite
  <1>13. CASE Crash
    BY <1>13, RootCrash
  <1>14. CASE UNCHANGED vars
    BY <1>0, <1>14 DEF vars, buckets
  <1> QED
    BY <1>1, <1>3, <1>4, <1>5, <1>6, <1>7, <1>8, <1>9, <1>10, <1>11, <1>12, <1>13, <1>14
       DEF Next

\* STATE and the tree never part, whoever commits, reverts and finalizes what.
THEOREM RootInvariance == Spec => []RootInv
  <1>1. Init => RootInv
    <2> SUFFICES ASSUME Init PROVE RootInv
      OBVIOUS
    <2>1. RootDue = EmptyRoot /\ RootOf(state) = EmptyRoot
      BY DEF Init, RootDue, CurrentRoot, RootOf, EmptyRoot, EmptyStore
    <2> QED
      BY <2>1 DEF Init, RootInv, RootMatchesState, TreeComplete, TreeAvailable
  <1> QED
    BY <1>1, NextRoot, TypeCorrect, PTL DEF Spec

\* The root is the root of STATE unless a write was cut off.
THEOREM RootAlwaysMatches == Spec => []RootMatchesState
  <1>1. RootInv => RootMatchesState
    BY DEF RootInv
  <1> QED
    BY <1>1, RootInvariance, PTL

\* No commit or revert on the current root meets a missing subtree.
THEOREM TreeAlwaysAvailable == Spec => []TreeAvailable
  <1>1. RootInv => TreeAvailable
    BY DEF RootInv
  <1> QED
    BY <1>1, RootInvariance, PTL

\* A commit that passed checkRoot left in STATE what its caller expected.
THEOREM CheckedCommits == Spec => []CheckedCommitIsExact
  <1>1. RootInv => CheckedCommitIsExact
    BY DEF RootInv, RootMatchesState, RootDue, Accepts, CheckedCommitIsExact
  <1> QED
    BY <1>1, RootInvariance, PTL

----------------------------------------------------------------------------
(* Version history, for callers that keep the rules.                       *)

\* The diff of version v is there and leads to the contents whose root
\* CURRENT_STATE names.
Undoes(v) == diffs[v] # None /\ RootOf(RevertState(state, diffs[v])) = CurrentRoot

\* What the DB thread scanned is still right: it holds every version below
\* the height that can be reverted, and none from the height on.
CleanerInv ==
    cleaner.phase = "scanned" =>
        /\ \A v \in cleaner.doomed : v < cleaner.height
        /\ \A v \in Live : v < cleaner.height => v \in cleaner.doomed

\* A commit whose put of CURRENT_STATE is still to come could be undone, and
\* no finalize that is under way takes its diff.
WindowInv ==
    window # None /\ window.kind = "commit" /\ torn = None =>
        /\ Undoes(window.of)
        /\ Cleaning => cleaner.height <= window.of

\* What was cut off can be undone on the tree it has left behind.
TornInv == torn # None /\ torn.undoable => Undoes(torn.of) /\ TreeComplete(RootOf(state))

\* DiffsLeadBack with the facts that make it inductive.
HistoryInv ==
    /\ \A v \in Versions : past[v] = None <=> diffs[v] = None
    /\ DiffsLeadBack
    /\ CleanerInv
    /\ torn = None => TreeComplete(RootDue)
    /\ WindowInv
    /\ TornInv

\* A commit of a fresh writer that overwrote nothing it deleted can be undone.
LEMMA FreshCommitUndone ==
    ASSUME NEW store \in Store, NEW c \in Cache, CacheFits(c, store), Overwritten(c) = {}
    PROVE  RevertState(CommitState(store, c), CommitDiff(c)) = store
  <1> DEFINE diff == CommitDiff(c)
  <1> DEFINE next == CommitState(store, c)
  <1>1. next \in Store /\ diff \in Diff
    BY CommitTypes
  <1>2. \A k \in Keys : RevertState(next, diff)[k] = store[k]
    BY RevertCommitLemma
  <1>3. RevertState(next, diff) \in Store
    BY <1>1, RevertTypes
  <1> HIDE DEF next, diff
  <1>4. RevertState(next, diff) = store
    BY <1>2, <1>3 DEF Store
  <1> QED
    BY <1>4 DEF next, diff

\* A commit that keeps the rules extends the history at its new end.
LEMMA HistoryCommit ==
    ASSUME Disciplined, TypeOK, SessionsFit, RootInv, HistoryInv,
           NEW w \in Writers, NEW v \in Versions, NEW e \in Expectations(w), Commit(w, v, e)
    PROVE  HistoryInv'
  <1> DEFINE diff == CommitDiff(cache[w])
             data == GetHashedUpdated(cache[w])
             root == SmtCommit(CurrentRoot, data)
  <1>0. window' # None
    <2>1. e \in Root \union {Unchecked}
      BY ViewTypes, TreeTypes DEF Expectations, TypeOK
    <2>2. window' \in Window
      BY <2>1, CommitStepTypes, CommitTypes, RootTypes DEF Commit, Window, TypeOK
    <2> QED
      BY <2>2, StateDBAssumption
  <1>1. /\ snap[w] = state /\ Overwritten(cache[w]) = {} /\ torn = None
        /\ \A u \in Live : u < v
        /\ Cleaning => cleaner.height <= v
    BY DEF Commit, FreshCommit
  <1>2. state \in Store /\ cache[w] \in Cache /\ CacheFits(cache[w], state)
    BY <1>1 DEF TypeOK, SessionsFit
  <1>3. /\ state' = CommitState(state, cache[w])
        /\ diffs' = [diffs EXCEPT ![v] = diff]
        /\ past' = [past EXCEPT ![v] = state]
        /\ window = None /\ window'.of = v /\ window'.root = root
        /\ tip' = TipAfter(CurrentRoot, data)
        /\ torn' = None
        /\ UNCHANGED <<current, cleaner>>
    BY <1>1 DEF Commit, Spoiled
  <1>4. diff # None /\ state # None
    BY <1>2, CommitTypes, SentinelAssumption, StateDBAssumption
  <1>5. RevertState(state', diff) = state
    BY <1>2, <1>1, <1>3, FreshCommitUndone
  <1>6. /\ diffs'[v] = diff /\ past'[v] = state
        /\ \A u \in Versions : u # v => diffs'[u] = diffs[u] /\ past'[u] = past[u]
    BY <1>3 DEF TypeOK
  <1> HIDE DEF diff
  <1>7. Live' = Live \union {v} /\ v \notin Live
    <2>1. \A u \in Live : u < v /\ u \in Versions
      BY <1>1 DEF Live
    <2> QED
      BY <1>4, <1>6, <2>1 DEF Live, Versions
  <1>8. \A u \in Versions : past'[u] = None <=> diffs'[u] = None
    BY <1>4, <1>6 DEF HistoryInv
  <1>9. DiffsLeadBack'
    <2> SUFFICES ASSUME NEW x \in Live'
                 PROVE  /\ (\A u \in Live' : u <= x) => RevertState(state', diffs'[x]) = past'[x]
                        /\ \A u \in Live' : Follows(u, x)'
                                => RevertState(past'[u], diffs'[x]) = past'[x]
      BY DEF DiffsLeadBack
    <2>0. \A u \in Live' : u \in Int /\ u \in Versions
      BY DEF Live, Versions
    <2>1. CASE x = v
      <3>1. \A u \in Live' : ~Follows(u, x)'
        BY <1>1, <1>7, <2>0, <2>1 DEF Follows
      <3> QED
        BY <1>5, <1>6, <2>1, <3>1
    <2>2. CASE x \in Live
      <3>1. ~(\A u \in Live' : u <= x)
        BY <1>1, <1>7, <2>0, <2>2
      <3>2. diffs'[x] = diffs[x] /\ past'[x] = past[x] /\ x # v
        BY <1>6, <1>7, <2>0, <2>2
      <3>3. ASSUME NEW u \in Live', Follows(u, x)'
            PROVE  RevertState(past'[u], diffs'[x]) = past'[x]
        <4>0. x < u /\ \A y \in Live' : y <= x \/ u <= y
          BY <3>3 DEF Follows
        <4>1. CASE u = v
          <5>1. \A y \in Live : y <= x
            BY <1>1, <1>7, <2>0, <4>0, <4>1
          <5>2. RevertState(state, diffs[x]) = past[x]
            BY <2>2, <5>1 DEF HistoryInv, DiffsLeadBack
          <5> QED
            BY <1>6, <3>2, <4>1, <5>2
        <4>2. CASE u \in Live
          <5>1. Follows(u, x)
            BY <1>7, <4>0 DEF Follows
          <5>2. RevertState(past[u], diffs[x]) = past[x]
            BY <2>2, <4>2, <5>1 DEF HistoryInv, DiffsLeadBack
          <5>3. past'[u] = past[u]
            BY <1>6, <1>7, <2>0, <4>2
          <5> QED
            BY <3>2, <5>2, <5>3
        <4> QED
          BY <1>7, <3>3, <4>1, <4>2
      <3> QED
        BY <3>1, <3>3
    <2> QED
      BY <1>7, <2>1, <2>2
  <1>10. CleanerInv'
    <2>1. cleaner.phase = "scanned" => cleaner.height <= v
      BY <1>1 DEF Cleaning
    <2>2. cleaner.height \in Int /\ v \in Int
      BY DEF TypeOK, Versions
    <2> QED
      BY <1>3, <1>7, <2>1, <2>2 DEF HistoryInv, CleanerInv
  <1>11. WindowInv'
    <2>1. CurrentRoot' = CurrentRoot
      BY <1>3 DEF CurrentRoot
    <2>2. CurrentRoot = RootOf(state)
      BY <1>1, <1>3 DEF RootInv, RootMatchesState, RootDue
    <2>3. Undoes(v)'
      BY <1>4, <1>5, <1>6, <2>1, <2>2 DEF Undoes
    <2>4. (Cleaning => cleaner.height <= v)'
      BY <1>1, <1>3 DEF Cleaning
    <2> QED
      BY <1>3, <2>3, <2>4 DEF WindowInv
  <1>12. TreeComplete(RootDue)'
    <2>1. TreeComplete(CurrentRoot)
      BY <1>1, <1>3 DEF HistoryInv, RootDue
    <2>2. CurrentRoot \in Root
      BY TreeTypes DEF CurrentRoot, TypeOK, CurrentState
    <2>3. root \in {tip', EmptyRoot}
      BY <1>3, <2>1, <2>2, UpdateComplete
    <2>4. window' # None
      BY <1>0
    <2>5. RootDue' = root
      BY <1>3, <2>4 DEF RootDue
    <2> QED
      BY <2>3, <2>5 DEF TreeComplete
  <1> QED
    BY <1>3, <1>8, <1>9, <1>10, <1>11, <1>12 DEF HistoryInv, TornInv

\* A revert that keeps the rules takes the newest version off the history.
LEMMA HistoryRevert ==
    ASSUME Disciplined, TypeOK, RootInv, HistoryInv,
           NEW v \in Versions, NEW root \in RevertRoots, Revert(v, root)
    PROVE  HistoryInv' /\ v \in Live /\ (\A u \in Live : u <= v) /\ state' = past[v]
  <1>1. /\ \A u \in Live : u <= v
        /\ torn # None => torn = [undoable |-> TRUE, of |-> v] /\ root = RootOf(state)
        /\ diffs[v] # None
        /\ v \in Live
    BY DEF Revert, FreshRevert, Live
  <1>2. /\ state' = RevertState(state, diffs[v])
        /\ diffs' = [diffs EXCEPT ![v] = None]
        /\ past' = [past EXCEPT ![v] = None]
        /\ UNCHANGED <<current, cleaner>>
        /\ window' = None \/ window'.kind = "revert"
    BY DEF Revert
  <1>3. /\ diffs'[v] = None /\ past'[v] = None
        /\ \A u \in Versions : u # v => diffs'[u] = diffs[u] /\ past'[u] = past[u]
    BY <1>2 DEF TypeOK
  <1>4. Live' = Live \ {v}
    BY <1>3 DEF Live
  <1>5. state' = past[v]
    BY <1>1, <1>2 DEF HistoryInv, DiffsLeadBack
  <1>6. \A u \in Versions : past'[u] = None <=> diffs'[u] = None
    BY <1>3 DEF HistoryInv
  <1>7. DiffsLeadBack'
    <2> SUFFICES ASSUME NEW x \in Live'
                 PROVE  /\ (\A u \in Live' : u <= x) => RevertState(state', diffs'[x]) = past'[x]
                        /\ \A u \in Live' : Follows(u, x)'
                                => RevertState(past'[u], diffs'[x]) = past'[x]
      BY DEF DiffsLeadBack
    <2>0. \A u \in Live : u \in Int /\ u \in Versions
      BY DEF Live, Versions
    <2>1. x \in Live /\ x # v /\ diffs'[x] = diffs[x] /\ past'[x] = past[x]
      BY <1>3, <1>4, <2>0
    <2>2. ASSUME \A u \in Live' : u <= x
          PROVE  RevertState(state', diffs'[x]) = past'[x]
      <3>1. Follows(v, x)
        BY <1>1, <1>4, <2>0, <2>1, <2>2 DEF Follows
      <3>2. RevertState(past[v], diffs[x]) = past[x]
        BY <1>1, <2>1, <3>1 DEF HistoryInv, DiffsLeadBack
      <3> QED
        BY <1>5, <2>1, <3>2
    <2>3. ASSUME NEW u \in Live', Follows(u, x)'
          PROVE  RevertState(past'[u], diffs'[x]) = past'[x]
      <3>1. u \in Live /\ past'[u] = past[u]
        BY <1>3, <1>4, <2>0
      <3>2. x < u /\ \A y \in Live' : y <= x \/ u <= y
        BY <2>3 DEF Follows
      <3>3. Follows(u, x)
        BY <1>1, <1>4, <3>1, <3>2 DEF Follows
      <3>4. RevertState(past[u], diffs[x]) = past[x]
        BY <2>1, <3>1, <3>3 DEF HistoryInv, DiffsLeadBack
      <3> QED
        BY <2>1, <3>1, <3>4
    <2> QED
      BY <2>2, <2>3
  <1>8. CleanerInv'
    BY <1>2, <1>4 DEF HistoryInv, CleanerInv
  <1>9. torn' # None => ~torn'.undoable
    <2>1. torn' \in {[undoable |-> FALSE, of |-> v], None, Spoiled}
      BY DEF Revert
    <2>2. ~[undoable |-> FALSE, of |-> v].undoable
      OBVIOUS
    <2> QED
      BY <2>1, <2>2, SpoiledType
  <1>10. torn' = None => TreeComplete(RootDue)'
    <2> DEFINE data == RevertHashedUpdate(diffs[v])
               next == SmtCommit(root, data)
    <2>1. TreeComplete(root)
      <3>1. CASE torn = None
        <4>1. root = CurrentRoot /\ window = None
          BY <3>1, RevertRootTypes DEF Revert
        <4> QED
          BY <3>1, <4>1 DEF HistoryInv, RootDue
      <3>2. CASE torn # None
        <4>1. torn.undoable
          BY <1>1, <3>2
        <4> QED
          BY <1>1, <3>2, <4>1 DEF HistoryInv, TornInv
      <3> QED
        BY <3>1, <3>2
    <2>2. root \in Root /\ next \in Root /\ tip' = TipAfter(root, data)
      BY RevertTypes, RootTypes, RevertRootTypes DEF Revert, TypeOK
    <2>3. next \in {tip', EmptyRoot}
      BY <2>1, <2>2, UpdateComplete
    <2>4. ASSUME torn' = None
          PROVE  window' = [root |-> next, version |-> Predecessor(v), of |-> v, kind |-> "revert",
                            expected |-> Unchecked]
      <3>1. [undoable |-> FALSE, of |-> v] \in Torn
        BY DEF Torn
      <3>2. [undoable |-> FALSE, of |-> v] # None
        BY <3>1, StateDBAssumption
      <3> QED
        BY <2>4, <3>2 DEF Revert
    <2>5. torn' = None => window' \in Window
      BY <2>2, <2>4, PredecessorType DEF Window
    <2>6. torn' = None => RootDue' = next
      BY <2>4, <2>5, StateDBAssumption DEF RootDue
    <2> QED
      BY <2>3, <2>6 DEF TreeComplete
  <1> QED
    BY <1>1, <1>2, <1>5, <1>6, <1>7, <1>8, <1>9, <1>10 DEF HistoryInv, WindowInv, TornInv

\* The deletes of finalize cut the history at its old end.
LEMMA HistoryClean ==
    ASSUME TypeOK, HistoryInv, CleanWrite
    PROVE  HistoryInv'
  <1>1. /\ \A v \in Versions : /\ diffs'[v] = IF v \in cleaner.doomed THEN None ELSE diffs[v]
                              /\ past'[v] = IF v \in cleaner.doomed THEN None ELSE past[v]
        /\ UNCHANGED <<state, current, tip, window>>
        /\ torn' = IF DoomsTorn THEN Spoiled ELSE torn
        /\ cleaner' = IdleCleaner /\ cleaner.phase = "scanned"
    BY DEF CleanWrite
  <1>2. \A v \in Versions : v \in Int
    BY DEF Versions
  <1>3. cleaner.height \in Int /\ cleaner.doomed \subseteq Versions
    BY DEF TypeOK, Versions
  <1>4. \A v \in Live : v \in Versions /\ (v \in cleaner.doomed <=> v < cleaner.height)
    BY <1>1 DEF HistoryInv, CleanerInv, Live
  <1>5. Live' = {v \in Live : v >= cleaner.height}
    BY <1>1, <1>2, <1>3, <1>4 DEF Live
  <1>6. \A v \in Live' : v \in Live /\ diffs'[v] = diffs[v] /\ past'[v] = past[v]
    BY <1>1, <1>2, <1>3, <1>4, <1>5
  <1>7. \A v \in Versions : past'[v] = None <=> diffs'[v] = None
    BY <1>1 DEF HistoryInv
  <1>8. DiffsLeadBack'
    <2> SUFFICES ASSUME NEW x \in Live'
                 PROVE  /\ (\A u \in Live' : u <= x) => RevertState(state', diffs'[x]) = past'[x]
                        /\ \A u \in Live' : Follows(u, x)'
                                => RevertState(past'[u], diffs'[x]) = past'[x]
      BY DEF DiffsLeadBack
    <2>1. x \in Live /\ diffs'[x] = diffs[x] /\ past'[x] = past[x] /\ x >= cleaner.height
      BY <1>5, <1>6
    <2>2. ASSUME \A u \in Live' : u <= x
          PROVE  RevertState(state', diffs'[x]) = past'[x]
      <3>1. \A u \in Live : u <= x
        BY <1>2, <1>3, <1>4, <1>5, <2>1, <2>2
      <3> QED
        BY <1>1, <2>1, <3>1 DEF HistoryInv, DiffsLeadBack
    <2>3. ASSUME NEW u \in Live', Follows(u, x)'
          PROVE  RevertState(past'[u], diffs'[x]) = past'[x]
      <3>1. x < u /\ \A y \in Live' : y <= x \/ u <= y
        BY <2>3 DEF Follows
      <3>2. Follows(u, x)
        BY <1>2, <1>3, <1>4, <1>5, <2>1, <3>1 DEF Follows
      <3> QED
        BY <1>6, <2>1, <2>3, <3>2 DEF HistoryInv, DiffsLeadBack
    <2> QED
      BY <2>2, <2>3
  <1>9. CleanerInv'
    BY <1>1 DEF CleanerInv, IdleCleaner
  <1>10. /\ window # None => window.of \in Versions
         /\ torn # None => torn.of \in Versions
    BY DEF TypeOK, Window, Torn
  <1>11. CurrentRoot' = CurrentRoot /\ RootDue' = RootDue
    BY <1>1 DEF CurrentRoot, RootDue
  <1>12. \A v \in Versions : v \notin cleaner.doomed /\ Undoes(v) => Undoes(v)'
    BY <1>1, <1>11 DEF Undoes
  <1>13. /\ torn' = None <=> torn = None
         /\ torn' # None /\ torn'.undoable => torn' = torn
    BY <1>1, SpoiledTorn
  <1>14. torn' = None => TreeComplete(RootDue)'
    BY <1>1, <1>11, <1>13 DEF HistoryInv, TreeComplete
  <1>15. WindowInv'
    <2> SUFFICES ASSUME window # None, window.kind = "commit", torn = None
                 PROVE  Undoes(window.of)'
      BY <1>1, <1>13 DEF WindowInv, Cleaning, IdleCleaner
    <2>1. Undoes(window.of) /\ cleaner.height <= window.of
      BY <1>1 DEF HistoryInv, WindowInv, Cleaning
    <2>2. window.of \in Int /\ \A v \in cleaner.doomed : v < cleaner.height
      BY <1>1, <1>2, <1>10 DEF HistoryInv, CleanerInv
    <2>3. window.of \notin cleaner.doomed
      BY <1>3, <2>1, <2>2
    <2> QED
      BY <1>1, <1>10, <1>12, <2>1, <2>3
  <1>16. TornInv'
    <2> SUFFICES ASSUME torn' # None, torn'.undoable
                 PROVE  Undoes(torn.of)' /\ TreeComplete(RootOf(state))'
      BY DEF TornInv
    <2>1. torn' = torn /\ torn # None /\ torn.undoable
      BY <1>13
    <2>2. ~DoomsTorn
      BY <1>1, <2>1, SpoiledType
    <2>3. Undoes(torn.of)'
      BY <1>10, <1>12, <2>1, <2>2 DEF DoomsTorn, HistoryInv, TornInv
    <2>4. TreeComplete(RootOf(state))'
      BY <1>1, <2>1 DEF HistoryInv, TornInv, TreeComplete, RootOf
    <2> QED
      BY <2>1, <2>3, <2>4
  <1> QED
    BY <1>7, <1>8, <1>9, <1>14, <1>15, <1>16 DEF HistoryInv

\* Steps that leave the buckets and the history alone.
LEMMA HistoryFrame ==
    ASSUME HistoryInv, UNCHANGED <<state, diffs, past>>, CleanerInv'
    PROVE  /\ Live' = Live
           /\ \A v \in Versions : past'[v] = None <=> diffs'[v] = None
           /\ DiffsLeadBack'
           /\ CleanerInv'
  <1>1. Live' = Live
    BY DEF Live
  <1>2. \A u, v : Follows(u, v)' = Follows(u, v)
    BY <1>1 DEF Follows
  <1>3. DiffsLeadBack'
    BY <1>1, <1>2 DEF HistoryInv, DiffsLeadBack
  <1> QED
    BY <1>1, <1>3 DEF HistoryInv

\* Every step of callers that keep the rules preserves the history.
LEMMA NextHistory ==
    ASSUME Disciplined
    PROVE  TypeOK /\ SessionsFit /\ RootInv /\ HistoryInv /\ [Next]_vars => HistoryInv'
  <1> SUFFICES ASSUME TypeOK, SessionsFit, RootInv, HistoryInv, [Next]_vars PROVE HistoryInv'
    OBVIOUS
  <1>a. UNCHANGED <<diffs, cleaner>> => CleanerInv'
    BY DEF HistoryInv, CleanerInv, Live
  <1>b. UNCHANGED cleaner => (Cleaning' => Cleaning /\ cleaner'.height = cleaner.height)
    BY DEF Cleaning
  <1>0. ASSUME UNCHANGED <<state, diffs, current, tip, window, past, torn>>, CleanerInv',
               window = None \/ (Cleaning' => Cleaning /\ cleaner'.height = cleaner.height)
        PROVE  HistoryInv'
    <2>1. CurrentRoot' = CurrentRoot /\ RootDue' = RootDue
      BY <1>0 DEF CurrentRoot, RootDue
    <2>2. \A v : Undoes(v) => Undoes(v)'
      BY <1>0, <2>1 DEF Undoes
    <2>3. torn' = None => TreeComplete(RootDue)'
      BY <1>0, <2>1 DEF HistoryInv, TreeComplete
    <2>4. WindowInv'
      BY <1>0, <2>2 DEF HistoryInv, WindowInv
    <2>5. TornInv'
      BY <1>0, <2>2 DEF HistoryInv, TornInv, TreeComplete, RootOf
    <2> QED
      BY <1>0, <2>3, <2>4, <2>5, HistoryFrame DEF HistoryInv
  <1>1. ASSUME NEW w \in Writers, NewReadWriter(w) \/ TakeSnapshot(w) \/ CloseWriter(w)
        PROVE  HistoryInv'
    BY <1>0, <1>1, <1>a, <1>b DEF NewReadWriter, TakeSnapshot, CloseWriter, buckets
  <1>2. ASSUME NEW w \in Writers, NEW next, Handler(w, next) PROVE HistoryInv'
    BY <1>0, <1>2, <1>a, <1>b DEF Handler, buckets
  <1>3. ASSUME NEW w \in Writers, NEW k \in Keys, NEW v \in Values, Set(w, k, v)
        PROVE  HistoryInv'
    BY <1>2, <1>3 DEF Set
  <1>4. ASSUME NEW w \in Writers, NEW k \in Keys, Get(w, k) \/ Del(w, k) PROVE HistoryInv'
    BY <1>2, <1>4 DEF Get, Del
  <1>5. ASSUME NEW w \in Writers, NEW v \in Versions, NEW e \in Expectations(w), Commit(w, v, e)
        PROVE  HistoryInv'
    BY <1>5, HistoryCommit
  <1>6. ASSUME NEW w \in Writers, NEW e \in Expectations(w), CommitNothing(w, e)
        PROVE  HistoryInv'
    BY <1>0, <1>6, <1>a, <1>b DEF CommitNothing, buckets
  <1>7. CASE PutCurrentState
    <2>1. /\ UNCHANGED <<state, diffs, tip, past, cleaner, torn>>
          /\ window # None /\ window' = None
          /\ current' = [root |-> window.root, version |-> window.version]
      BY <1>7 DEF PutCurrentState
    <2>2. torn # None => ~torn.undoable
      BY <2>1 DEF RootInv
    <2>3. RootDue' = RootDue
      <3>1. current' # None
        BY <2>1, StateDBAssumption DEF TypeOK, Window, CurrentState
      <3> QED
        BY <2>1, <3>1 DEF RootDue, CurrentRoot
    <2>4. torn' = None => TreeComplete(RootDue)'
      BY <2>1, <2>3 DEF HistoryInv, TreeComplete
    <2> QED
      BY <1>a, <2>1, <2>2, <2>4, HistoryFrame DEF HistoryInv, WindowInv, TornInv
  <1>8. ASSUME NEW v \in Versions, NEW root \in RevertRoots, Revert(v, root) PROVE HistoryInv'
    BY <1>8, HistoryRevert
  <1>9. ASSUME NEW v \in Versions, NEW root \in RevertRoots, RevertNothing(v, root)
        PROVE  HistoryInv'
    BY <1>0, <1>9, <1>a, <1>b DEF RevertNothing, buckets
  <1>10. ASSUME NEW h \in Versions, Finalize(h) PROVE HistoryInv'
    <2>1. CleanerInv'
      BY <1>10 DEF Finalize, CleanerInv
    <2> QED
      BY <1>0, <1>10, <2>1 DEF Finalize, buckets
  <1>11. CASE CleanScan
    <2>1. /\ cleaner'.doomed = Doomed(cleaner.height)
          /\ cleaner'.height = cleaner.height
          /\ cleaner.height \in Int
          /\ Live' = Live
      BY <1>11 DEF CleanScan, TypeOK, buckets, Live, Versions
    <2>2. \A v \in Live : v \in Int
      BY DEF Live, Versions
    <2>3. CleanerInv'
      BY <2>1, <2>2 DEF CleanerInv, Doomed
    <2>4. Cleaning' => Cleaning /\ cleaner'.height = cleaner.height
      BY <1>11, <2>1 DEF CleanScan, Cleaning
    <2> QED
      BY <1>0, <1>11, <2>3, <2>4 DEF CleanScan, buckets
  <1>12. CASE CleanWrite
    BY <1>12, HistoryClean
  <1>13. CASE Crash
    <2>1. /\ UNCHANGED <<state, diffs, current, tip, past>>
          /\ window' = None /\ cleaner' = IdleCleaner
          /\ torn' = IF window = None THEN torn
                     ELSE [undoable |-> torn = None /\ window.kind = "commit", of |-> window.of]
      BY <1>13 DEF Crash, buckets
    <2>2. CleanerInv'
      BY <2>1 DEF CleanerInv, IdleCleaner
    <2>3. /\ CurrentRoot' = CurrentRoot /\ RootDue' = CurrentRoot
          /\ \A r : TreeComplete(r)' = TreeComplete(r)
          /\ RootOf(state)' = RootOf(state)
      BY <2>1 DEF CurrentRoot, RootDue, TreeComplete, RootOf
    <2>4. \A v : Undoes(v) => Undoes(v)'
      BY <2>1, <2>3 DEF Undoes
    <2>5. TornInv' /\ (torn' = None => TreeComplete(RootDue)')
      <3>1. CASE window = None
        <4>1. torn' = torn /\ RootDue' = RootDue
          BY <2>1, <2>3, <3>1 DEF RootDue
        <4> QED
          BY <2>1, <2>4, <4>1 DEF HistoryInv, TornInv, TreeComplete, RootOf
      <3>2. CASE window # None
        <4>1. torn' = [undoable |-> torn = None /\ window.kind = "commit", of |-> window.of]
          BY <2>1, <3>2
        <4>2. torn'.of = window.of /\ (torn'.undoable => torn = None /\ window.kind = "commit")
          BY <4>1
        <4>3. torn' # None
          <5>1. torn' \in Torn
            BY <3>2, <4>1 DEF TypeOK, Window, Torn
          <5> QED
            BY <5>1, StateDBAssumption
        <4>4. torn'.undoable => Undoes(window.of) /\ TreeComplete(RootOf(state))
          BY <3>2, <4>2 DEF HistoryInv, WindowInv, RootInv, RootMatchesState
        <4>5. Undoes(window.of) => Undoes(torn.of)'
          BY <2>1, <2>3, <4>2 DEF Undoes
        <4>6. TornInv'
          BY <2>3, <4>4, <4>5 DEF TornInv, TreeComplete
        <4> QED
          BY <4>3, <4>6
      <3> QED
        BY <3>1, <3>2
    <2> QED
      BY <2>1, <2>2, <2>5, HistoryFrame DEF HistoryInv, WindowInv
  <1>14. CASE UNCHANGED vars
    BY <1>0, <1>14, <1>a, <1>b DEF vars, buckets
  <1> QED
    BY <1>1, <1>3, <1>4, <1>5, <1>6, <1>7, <1>8, <1>9, <1>10, <1>11, <1>12, <1>13, <1>14
       DEF Next

\* The version history is intact for callers that keep the rules.
THEOREM HistoryInvariance ==
    ASSUME Disciplined
    PROVE  Spec => []HistoryInv
  <1>1. Init => HistoryInv
    <2> SUFFICES ASSUME Init PROVE HistoryInv
      OBVIOUS
    <2>1. TreeComplete(RootDue)
      BY DEF Init, RootDue, CurrentRoot, TreeComplete
    <2> QED
      BY <2>1 DEF Init, HistoryInv, DiffsLeadBack, Live, CleanerInv, IdleCleaner, WindowInv, TornInv
  <1> QED
    BY <1>1, NextHistory, RootInvariance, TypeCorrect, PTL DEF Spec

\* Every diff leads back to the contents before its commit.
THEOREM DiffsAlwaysLeadBack ==
    ASSUME Disciplined
    PROVE  Spec => []DiffsLeadBack
  <1>1. HistoryInv => DiffsLeadBack
    BY DEF HistoryInv
  <1> QED
    BY <1>1, HistoryInvariance, PTL

\* A commit that a crash cut off can be undone: until something else is
\* written or its diff is finalized, the revert on the root it was about to
\* answer cannot fail and leads to what CURRENT_STATE names.
THEOREM TornCommitsUndoable ==
    ASSUME Disciplined
    PROVE  Spec => []TornCommitUndoable
  <1>1. TypeOK /\ HistoryInv => TornCommitUndoable
    <2> SUFFICES ASSUME TypeOK, HistoryInv, torn # None, torn.undoable
                 PROVE  /\ diffs[torn.of] # None
                        /\ LET data == RevertHashedUpdate(diffs[torn.of])
                           IN  /\ ~TreeMayFail(RootOf(state), data)
                               /\ SmtCommit(RootOf(state), data) = CurrentRoot
                        /\ RootOf(RevertState(state, diffs[torn.of])) = CurrentRoot
      BY DEF TornCommitUndoable
    <2>1. Undoes(torn.of) /\ TreeComplete(RootOf(state))
      BY DEF HistoryInv, TornInv
    <2>2. state \in Store /\ diffs[torn.of] \in Diff
      BY <2>1 DEF TypeOK, Torn, Undoes
    <2>3. SmtCommit(RootOf(state), RevertHashedUpdate(diffs[torn.of]))
            = RootOf(RevertState(state, diffs[torn.of]))
      BY <2>2, RevertHashLemma
    <2> QED
      BY <2>1, <2>3 DEF Undoes, TreeMayFail
  <1> QED
    BY <1>1, TypeCorrect, HistoryInvariance, PTL

\* finalize deletes what it has to delete and nothing else, although commits
\* and reverts run between its scan and its write.
THEOREM FinalizeIsExact ==
    ASSUME Disciplined
    PROVE  Spec => FinalizeExact
  <1> DEFINE Exact == cleaner.phase = "scanned" /\ CleanWrite
                        => {v \in Versions : diffs'[v] # None} = {v \in Live : v >= cleaner.height}
  <1>1. TypeOK /\ HistoryInv /\ [Next]_vars => [Exact]_vars
    <2> SUFFICES ASSUME TypeOK, HistoryInv, cleaner.phase = "scanned", CleanWrite
                 PROVE  {v \in Versions : diffs'[v] # None} = {v \in Live : v >= cleaner.height}
      OBVIOUS
    <2>1. \A v \in Versions : diffs'[v] = IF v \in cleaner.doomed THEN None ELSE diffs[v]
      BY DEF CleanWrite
    <2>2. cleaner.height \in Int /\ \A v \in Versions : v \in Int
      BY DEF TypeOK, Versions
    <2> QED
      BY <2>1, <2>2 DEF HistoryInv, CleanerInv, Live
  <1>2. TypeOK /\ SessionsFit => TypeOK
    OBVIOUS
  <1> QED
    BY <1>1, <1>2, TypeCorrect, HistoryInvariance, PTL DEF Spec, FinalizeExact

\* The state database implements VersionedStore for callers that keep the
\* rules: every step is a push, a pop, a trim or leaves the contents alone.
THEOREM Refinement ==
    ASSUME Disciplined
    PROVE  Spec => VersionedRefined
  <1> DEFINE Inv == TypeOK /\ SessionsFit /\ RootInv /\ HistoryInv
  <1>1. Init => Versioned!VersionedInit
    BY DEF Init, Versioned!VersionedInit, EmptyStore, Store, MaybeValue
  <1>2. Inv /\ [Next]_vars => [Versioned!VersionedNext]_Versioned!versionedVars
    <2> SUFFICES ASSUME Inv, [Next]_vars
                 PROVE  [Versioned!VersionedNext]_Versioned!versionedVars
      OBVIOUS
    <2>0. TypeOK /\ SessionsFit /\ RootInv /\ HistoryInv
      OBVIOUS
    <2>a. Versioned!Live = Live
      BY <2>0 DEF Versioned!Live, Live, HistoryInv
    <2>b. UNCHANGED <<state, past>> => UNCHANGED Versioned!versionedVars
      BY DEF Versioned!versionedVars
    <2> HIDE DEF Inv
    <2>1. ASSUME NEW w \in Writers, NEW v \in Versions, NEW e \in Expectations(w), Commit(w, v, e)
          PROVE  Versioned!VersionedNext
      <3>1. state' \in Store
        BY <2>0, <2>1, CommitTypes DEF Commit, TypeOK
      <3>2. Versioned!Push(v)
        BY <2>1, <2>a, <3>1 DEF Commit, FreshCommit, Versioned!Push
      <3> QED
        BY <3>2 DEF Versioned!VersionedNext
    <2>2. ASSUME NEW v \in Versions, NEW root \in RevertRoots, Revert(v, root)
          PROVE  Versioned!VersionedNext
      <3>1. v \in Live /\ (\A u \in Live : u <= v) /\ state' = past[v]
        BY <2>0, <2>2, HistoryRevert
      <3>2. Versioned!Pop(v)
        BY <2>2, <2>a, <3>1 DEF Revert, Versioned!Pop
      <3> QED
        BY <3>2 DEF Versioned!VersionedNext
    <2>3. ASSUME CleanWrite PROVE Versioned!VersionedNext
      <3> DEFINE S == cleaner.doomed \intersect Live
      <3>1. /\ \A v \in cleaner.doomed : v < cleaner.height
            /\ \A v \in Live : v < cleaner.height => v \in cleaner.doomed
        BY <2>0, <2>3 DEF HistoryInv, CleanerInv, CleanWrite
      <3>2. cleaner.height \in Int /\ \A v \in Live : v \in Int
        BY <2>0 DEF TypeOK, Live, Versions
      <3>3. \A v \in S, u \in Live : u < v => u \in S
        BY <3>1, <3>2
      <3>4. \A v \in Versions : v \notin Live => past[v] = None
        BY <2>0 DEF HistoryInv, Live
      <3>5. past' = [v \in Versions |-> IF v \in S THEN None ELSE past[v]]
        BY <2>3, <3>4 DEF CleanWrite
      <3>6. Versioned!Trim(S)
        BY <2>3, <2>a, <3>3, <3>5 DEF CleanWrite, Versioned!Trim
      <3>7. S \in SUBSET Versioned!Live
        BY <2>a
      <3> QED
        BY <3>6, <3>7 DEF Versioned!VersionedNext
    <2>4. ASSUME NEW w \in Writers, NEW k \in Keys, NEW v \in Values, Set(w, k, v)
          PROVE  UNCHANGED <<state, past>>
      BY <2>4 DEF Set, Handler, buckets
    <2>5. ASSUME NEW w \in Writers, NEW k \in Keys, Get(w, k) \/ Del(w, k)
          PROVE  UNCHANGED <<state, past>>
      BY <2>5 DEF Get, Del, Handler, buckets
    <2>6. ASSUME NEW w \in Writers, NewReadWriter(w) \/ TakeSnapshot(w) \/ CloseWriter(w)
          PROVE  UNCHANGED <<state, past>>
      BY <2>6 DEF NewReadWriter, TakeSnapshot, CloseWriter, buckets
    <2>7. ASSUME NEW w \in Writers, NEW e \in Expectations(w), CommitNothing(w, e)
          PROVE  UNCHANGED <<state, past>>
      BY <2>7 DEF CommitNothing, buckets
    <2>8. ASSUME NEW v \in Versions, Finalize(v) \/ \E root \in RevertRoots : RevertNothing(v, root)
          PROVE  UNCHANGED <<state, past>>
      BY <2>8 DEF RevertNothing, Finalize, buckets
    <2>9. ASSUME PutCurrentState \/ CleanScan \/ Crash \/ UNCHANGED vars
          PROVE  UNCHANGED <<state, past>>
      BY <2>9 DEF PutCurrentState, CleanScan, Crash, vars, buckets
    <2> QED
      BY <2>b, <2>1, <2>2, <2>3, <2>4, <2>5, <2>6, <2>7, <2>8, <2>9 DEF Next
  <1> QED
    BY <1>1, <1>2, TypeCorrect, RootInvariance, HistoryInvariance, PTL
       DEF Spec, VersionedRefined, Versioned!VersionedSpec

============================================================================
