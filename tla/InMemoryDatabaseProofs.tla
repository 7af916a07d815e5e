----------------------- MODULE InMemoryDatabaseProofs -----------------------
(***************************************************************************)
(* The in-memory database and RocksDB answer the same iteration, for every *)
(* set of keys, every option and every length of key: what the run of      *)
(* InMemoryDatabase checks for six keys.                                   *)
(*                                                                         *)
(* Only the type of the contents is an invariant of the steps; the rest    *)
(* holds of any contents of that type and follows from IterationProofs.    *)
(***************************************************************************)
EXTENDS InMemoryDatabase, IterationProofs

\* The invariant TypeOK: every call leaves a map from keys to values, or no
\* object, behind every handle.
THEOREM InMemoryTypes == Spec => []TypeOK
  <1>1. Init => TypeOK
    <2>1. Empty \in Store
      BY DEF Empty, Store
    <2> QED
      BY <2>1 DEF Init, TypeOK
  <1>2. TypeOK /\ [Next]_vars => TypeOK'
    <2> SUFFICES ASSUME TypeOK, [Next]_vars PROVE TypeOK'
      OBVIOUS
    <2>1. \A h \in Live : h \in Handles /\ db[h] \in Store
      BY DEF TypeOK, Live
    <2>2. ASSUME NEW h \in Live, NEW key \in Keys, NEW val \in Values, SetKeyValue(h, key, val)
          PROVE  TypeOK'
      <3>1. [db[h] EXCEPT ![key] = val] \in Store
        BY <2>1 DEF Store
      <3>2. db' = [db EXCEPT ![h] = [db[h] EXCEPT ![key] = val]]
        BY <2>2 DEF SetKeyValue
      <3> QED
        BY <2>1, <3>1, <3>2 DEF TypeOK
    <2>3. ASSUME NEW h \in Live, NEW key \in Keys, Del(h, key)
          PROVE  TypeOK'
      <3>1. [db[h] EXCEPT ![key] = None] \in Store
        BY <2>1 DEF Store
      <3>2. db' = [db EXCEPT ![h] = [db[h] EXCEPT ![key] = None]]
        BY <2>3 DEF Del
      <3> QED
        BY <2>1, <3>1, <3>2 DEF TypeOK
    <2>4. ASSUME NEW h \in Live, NEW batch \in Batches, Write(h, batch)
          PROVE  TypeOK'
      <3>1. \A k \in Keys : batch[k] \in Values \union {None, NoOp}
        BY DEF Batches
      <3>2. \A k \in Keys : db[h][k] \in Values \union {None}
        BY <2>1 DEF Store
      <3>3. Applied(db[h], batch) \in Store
        BY <3>1, <3>2 DEF Applied, Store
      <3> QED
        BY <2>1, <2>4, <3>3 DEF TypeOK, Write
    <2>5. ASSUME NEW h \in Live, Clear(h)
          PROVE  TypeOK'
      <3>1. Empty \in Store
        BY DEF Empty, Store
      <3> QED
        BY <2>1, <2>5, <3>1 DEF TypeOK, Clear
    <2>6. ASSUME NEW h \in Live, NEW g \in Handles, Clone(h, g)
          PROVE  TypeOK'
      BY <2>1, <2>6 DEF TypeOK, Clone
    <2>7. CASE UNCHANGED vars
      BY <2>7 DEF vars, TypeOK
    <2> QED
      BY <2>2, <2>3, <2>4, <2>5, <2>6, <2>7 DEF Next
  <1> QED
    BY <1>1, <1>2, PTL DEF Spec

\* The keys present in any contents are finitely many byte strings.
LEMMA Contents ==
    ASSUME NEW store
    PROVE  /\ Present(store) \in SUBSET ByteString /\ IsFiniteSet(Present(store))
           /\ Raw(Present(store)) = InState(Present(store)) \union OtherBuckets
           /\ Raw(Present(store)) \in SUBSET ByteString /\ IsFiniteSet(Raw(Present(store)))
  <1>1. Present(store) \in SUBSET Keys
    BY DEF Present
  <1>2. Present(store) \in SUBSET ByteString /\ IsFiniteSet(Present(store))
    BY <1>1, FS_Subset, InMemoryDatabaseAssumption
  <1>3. Raw(Present(store)) = InState(Present(store)) \union OtherBuckets
    BY DEF Raw, InState
  <1>4. InState(Present(store)) \in SUBSET ByteString /\ IsFiniteSet(InState(Present(store)))
    BY <1>2, InStateSize
  <1>5. OtherBuckets \in SUBSET ByteString /\ IsFiniteSet(OtherBuckets)
    BY InMemoryDatabaseAssumption
  <1>6. IsFiniteSet(InState(Present(store)) \union OtherBuckets)
    BY <1>4, <1>5, FS_Union
  <1> QED
    BY <1>2, <1>3, <1>4, <1>5, <1>6

\* Every option iterate is called with has the fields of one, and the rows
\* of the other buckets do not start with the byte of STATE.
LEMMA OptionsAndBuckets ==
    /\ \A opt \in Options : opt \in Option /\ opt.limit \in Int /\ opt.reverse \in BOOLEAN
    /\ \A k \in OtherBuckets : k # <<>> /\ k[1] # 0
    /\ StatePrefix[1] = 0
  BY InMemoryDatabaseAssumption DEF Option, StatePrefix

\* With both bounds the three walks (RocksDB, the in-memory database, the
\* STATE bucket of a state database) yield the expected rows.
LEMMA BoundedExact ==
    ASSUME NEW store, NEW opt \in Options, Bounded(opt), opt.limit >= -1
    PROVE  LET rows == ExpectedRows(Present(store), opt)
           IN  /\ Scan(Present(store), opt, FALSE) = rows
               /\ GetKeyValuePairs(Present(store), opt) = rows
               /\ WithoutPrefix(Scan(Raw(Present(store)), opt, TRUE), TRUE) = rows
  <1> DEFINE present == Present(store)
             raw == Raw(present)
             T == Between(present, opt)
  <1>1. present \in SUBSET ByteString /\ IsFiniteSet(present)
    BY Contents
  <1>2. opt \in Option /\ opt.limit \in Int /\ opt.reverse \in BOOLEAN
    BY OptionsAndBuckets
  <1>3. ~NoRange(opt) /\ opt.gte # Undefined /\ opt.lte # Undefined
    BY DEF Bounded, NoRange
  <1> HIDE DEF present
  <1>4. Scan(present, opt, FALSE) = ExpectedRows(present, opt)
        /\ GetKeyValuePairs(present, opt) = ExpectedRows(present, opt)
    BY <1>1, <1>2, <1>3, BothAreExpected
  <1>5. /\ raw = InState(present) \union OtherBuckets
        /\ raw \in SUBSET ByteString /\ IsFiniteSet(raw)
        /\ OtherBuckets \in SUBSET ByteString
    BY Contents, InMemoryDatabaseAssumption DEF present
  <1>6. Walked(raw, opt, TRUE) = InState(T)
    <2>1. Bounded(opt) => Walked(InState(present) \union OtherBuckets, opt, TRUE) = InState(Between(present, opt))
      BY <1>1, <1>2, <1>5, OptionsAndBuckets, WalkedInState
    <2> QED
      BY <1>5, <2>1
  <1>7. T \in SUBSET ByteString /\ IsFiniteSet(T)
    <2>1. T \in SUBSET present
      BY DEF Between
    <2> QED
      BY <1>1, <2>1, FS_Subset
  <1> DEFINE rows == Ordered(InState(T), opt.reverse)
             keys == Ordered(T, opt.reverse)
  <1> HIDE DEF raw, T
  <1>8. Scan(raw, opt, TRUE) = Cut(rows, opt.limit)
    <2>1. opt.limit >= -1 =>
            Scan(raw, opt, TRUE) = Cut(Ordered(Walked(raw, opt, TRUE), opt.reverse), opt.limit)
      BY <1>2, <1>5, ScanIsCut
    <2> QED
      BY <1>6, <2>1
  <1>9. /\ rows \in Seq(ByteString) /\ Len(rows) = Len(keys)
        /\ \A i \in 1 .. Len(keys) : rows[i] = StatePrefix \o keys[i]
    BY <1>2, <1>7, OrderedInState
  <1>10. keys \in Seq(ByteString)
    <2>1. keys \in Seq(T)
      BY <1>2, <1>7, OrderedProperties
    <2> QED
      BY <1>7, <2>1, SeqMonotonic
  <1>11. WithoutPrefix(Cut(rows, opt.limit), TRUE) = Cut(keys, opt.limit)
    <2> HIDE DEF rows, keys
    <2> QED
      BY <1>2, <1>9, <1>10, WithoutPrefixOfCut
  <1>12. ExpectedRows(present, opt) = Cut(keys, opt.limit)
    BY DEF ExpectedRows, Cut, T
  <1> HIDE DEF rows, keys
  <1>13. WithoutPrefix(Scan(raw, opt, TRUE), TRUE) = ExpectedRows(present, opt)
    BY <1>8, <1>11, <1>12
  <1> QED
    BY <1>4, <1>13 DEF raw, present

\* The invariant BoundedIterationExact: an iteration with both bounds gives
\* exactly the rows between them, in order, up to the limit, in RocksDB, in
\* the in-memory database and in the STATE bucket.
THEOREM BoundedIterationIsExact == Spec => []BoundedIterationExact
  <1>1. BoundedIterationExact
    BY BoundedExact DEF BoundedIterationExact
  <1> QED
    BY <1>1, PTL

\* The invariant OneBoundExact: with one bound, and keys as long as it, both
\* databases answer exactly the rows asked for.
THEOREM OneBoundIsExact == Spec => []OneBoundExact
  <1>1. OneBoundExact
    <2> SUFFICES ASSUME NEW h \in Live, NEW opt \in Options, ~Bounded(opt), ~NoRange(opt),
                        opt.limit >= -1,
                        \A k \in Present(db[h]) :
                            Len(k) = Len(IF opt.gte = Undefined THEN opt.lte ELSE opt.gte)
                 PROVE  /\ Scan(Present(db[h]), opt, FALSE) = ExpectedRows(Present(db[h]), opt)
                        /\ GetKeyValuePairs(Present(db[h]), opt) = ExpectedRows(Present(db[h]), opt)
      BY DEF OneBoundExact
    <2> DEFINE present == Present(db[h])
    <2>1. present \in SUBSET ByteString /\ IsFiniteSet(present)
      BY Contents
    <2>2. opt \in Option
      BY OptionsAndBuckets
    <2>3. \A k \in present : Len(k) = Len(IF opt.gte = Undefined THEN opt.lte ELSE opt.gte)
      OBVIOUS
    <2> HIDE DEF present
    <2>4. ASSUME opt.gte = Undefined
          PROVE  \A k \in present : AtMost(LowerBound(opt), k)
      <3>1. opt.lte \in ByteString /\ LowerBound(opt) = Filled(0, opt.lte)
        BY <2>2, <2>4 DEF Option, NoRange, LowerBound
      <3> QED
        BY <2>1, <2>3, <2>4, <3>1, FilledBounds
    <2>5. ASSUME opt.lte = Undefined
          PROVE  \A k \in present : AtMost(k, UpperBound(opt))
      <3>1. opt.gte # Undefined /\ opt.gte \in ByteString /\ UpperBound(opt) = Filled(MaxByte, opt.gte)
        BY <2>2, <2>5 DEF Option, NoRange, UpperBound
      <3> QED
        BY <2>1, <2>3, <3>1, FilledBounds
    <2>6. /\ Scan(present, opt, FALSE) = ExpectedRows(present, opt)
          /\ GetKeyValuePairs(present, opt) = ExpectedRows(present, opt)
      BY <2>1, <2>2, <2>4, <2>5, BothAreExpected
    <2> QED
      BY <2>6 DEF present
  <1> QED
    BY <1>1, PTL

\* The invariant MockShowsNoMore: from limit -1 up the rows of the in-memory
\* database are the first rows RocksDB shows; below -1 RocksDB shows none and
\* the in-memory database every row in range.
THEOREM MockShowsFirstRows == Spec => []MockShowsNoMore
  <1>1. MockShowsNoMore
    <2> SUFFICES ASSUME NEW h \in Live, NEW opt \in Options
                 PROVE  LET mock == GetKeyValuePairs(Present(db[h]), opt)
                            rocks == Scan(Present(db[h]), opt, FALSE)
                        IN  IF opt.limit >= -1
                            THEN Len(mock) <= Len(rocks) /\ mock = SubSeq(rocks, 1, Len(mock))
                            ELSE /\ rocks = <<>>
                                 /\ mock = GetKeyValuePairs(Present(db[h]), [opt EXCEPT !.limit = -1])
      BY DEF MockShowsNoMore
    <2> DEFINE present == Present(db[h])
               cached == IF NoRange(opt) THEN present
                         ELSE CacheRange(present, LowerBound(opt), UpperBound(opt))
               T == Walked(present, opt, FALSE)
    <2>1. present \in SUBSET ByteString /\ IsFiniteSet(present)
      BY Contents
    <2>2. opt \in Option /\ opt.limit \in Int /\ opt.reverse \in BOOLEAN
      BY OptionsAndBuckets
    <2> HIDE DEF present
    <2>3. cached \in SUBSET present /\ T \in SUBSET present
      BY DEF CacheRange, Walked, IteratorKeys
    <2>4. /\ cached \in SUBSET ByteString /\ IsFiniteSet(cached)
          /\ T \in SUBSET ByteString /\ IsFiniteSet(T)
      <3> HIDE DEF cached, T
      <3> QED
        BY <2>1, <2>3, FS_Subset
    <2>5. cached \in SUBSET T
      <3> SUFFICES ASSUME NEW k \in cached PROVE k \in T
        OBVIOUS
      <3>1. k \in present /\ k \in ByteString
        BY <2>1, <2>3
      <3>2. \A key : KindKey(key, FALSE) = key
        BY DEF KindKey
      <3>3. CASE NoRange(opt)
        BY <3>1, <3>3 DEF NoRange, Walked, IteratorKeys, PastEnd
      <3>4. CASE ~NoRange(opt)
        <4>1. AtMost(LowerBound(opt), k) /\ AtMost(k, UpperBound(opt))
          BY <3>4 DEF CacheRange
        <4>2. k \in IteratorKeys(present, opt, FALSE)
          <5>1. CASE opt.reverse
            <6>1. IteratorKeys(present, opt, FALSE) = {j \in present : AtMost(j, KindKey(UpperBound(opt), FALSE))}
              BY <3>4, <5>1 DEF IteratorKeys
            <6> QED
              BY <3>1, <3>2, <4>1, <6>1
          <5>2. CASE ~opt.reverse
            <6>1. IteratorKeys(present, opt, FALSE) = {j \in present : AtMost(KindKey(LowerBound(opt), FALSE), j)}
              BY <3>4, <5>2 DEF IteratorKeys
            <6> QED
              BY <3>1, <3>2, <4>1, <6>1
          <5> QED
            BY <5>1, <5>2
        <4>3. ASSUME opt.gte # Undefined PROVE ~Less(k, opt.gte)
          <5>1. opt.gte \in ByteString /\ AtMost(opt.gte, k)
            BY <2>2, <4>1, <4>3 DEF Option, LowerBound
          <5> QED
            BY <3>1, <5>1, NotLess
        <4>4. ASSUME opt.lte # Undefined PROVE ~Less(opt.lte, k)
          <5>1. opt.lte \in ByteString /\ AtMost(k, opt.lte)
            BY <2>2, <4>1, <4>4 DEF Option, UpperBound
          <5> QED
            BY <3>1, <5>1, NotLess
        <4>5. ~PastEnd(opt, k, FALSE)
          BY <3>2, <4>3, <4>4 DEF PastEnd
        <4> QED
          BY <4>2, <4>5 DEF Walked
      <3> QED
        BY <3>3, <3>4
    <2>6. \A k \in cached : \A j \in T : Precedes(j, k, opt.reverse) => j \in cached
      <3> SUFFICES ASSUME NEW k \in cached, NEW j \in T, Precedes(j, k, opt.reverse)
                   PROVE  j \in cached
        OBVIOUS
      <3>1. j \in present /\ j \in ByteString /\ k \in ByteString
        BY <2>3, <2>4
      <3>2. CASE NoRange(opt)
        BY <3>1, <3>2
      <3>3. CASE ~NoRange(opt)
        <4>1. AtMost(LowerBound(opt), k) /\ AtMost(k, UpperBound(opt))
          BY <3>3 DEF CacheRange
        <4>2. LowerBound(opt) \in ByteString /\ UpperBound(opt) \in ByteString
          BY <2>2, <3>3, BoundTypes
        <4>3. \A key : KindKey(key, FALSE) = key
          BY DEF KindKey
        <4>4. j \in IteratorKeys(present, opt, FALSE)
          BY DEF Walked
        <4>5. CASE opt.reverse
          <5>1. AtMost(j, UpperBound(opt))
            BY <3>3, <4>3, <4>4, <4>5 DEF IteratorKeys
          <5>2. Less(k, j)
            BY <4>5 DEF Precedes
          <5>3. AtMost(LowerBound(opt), j)
            BY <3>1, <4>1, <4>2, <5>2, LessTransitive DEF AtMost
          <5> QED
            BY <3>1, <3>3, <5>1, <5>3 DEF CacheRange
        <4>6. CASE ~opt.reverse
          <5>1. AtMost(LowerBound(opt), j)
            BY <3>3, <4>3, <4>4, <4>6 DEF IteratorKeys
          <5>2. Less(j, k)
            BY <4>6 DEF Precedes
          <5>3. AtMost(j, UpperBound(opt))
            BY <3>1, <4>1, <4>2, <5>2, LessTransitive DEF AtMost
          <5> QED
            BY <3>1, <3>3, <5>1, <5>3 DEF CacheRange
        <4> QED
          BY <4>5, <4>6
      <3> QED
        BY <3>2, <3>3
    <2> DEFINE rows == Ordered(T, opt.reverse)
               mine == Ordered(cached, opt.reverse)
    <2>7. /\ opt.limit >= -1 => Scan(present, opt, FALSE) = Cut(rows, opt.limit)
          /\ opt.limit < -1 => Scan(present, opt, FALSE) = <<>>
      BY <2>1, <2>2, ScanIsCut DEF T
    <2>8. /\ GetKeyValuePairs(present, opt) =
                 IF opt.limit >= 0 /\ Len(mine) > opt.limit THEN SubSeq(mine, 1, opt.limit) ELSE mine
          /\ opt.limit < -1 => GetKeyValuePairs(present, [opt EXCEPT !.limit = -1]) = mine
      <3>1. LET all == [opt EXCEPT !.limit = -1]
            IN  /\ all.limit = -1 /\ all.reverse = opt.reverse
                /\ all.gte = opt.gte /\ all.lte = opt.lte
        BY <2>2 DEF Option
      <3>2. ~(-1 >= 0)
        OBVIOUS
      <3> QED
        BY <3>1, <3>2 DEF GetKeyValuePairs, CacheRange, NoRange, LowerBound, UpperBound
    <2> HIDE DEF T, cached
    <2>9. /\ rows \in Seq(T) /\ Len(rows) = Cardinality(T) /\ mine \in Seq(cached)
          /\ Cardinality(cached) \in 0 .. Cardinality(T)
          /\ mine = SubSeq(rows, 1, Cardinality(cached))
      BY <2>2, <2>4, <2>5, <2>6, OrderedProperties, InitialSegment
    <2> HIDE DEF rows, mine
    <2>10. CASE opt.limit >= -1
      <3>1. GetKeyValuePairs(present, opt) = Cut(mine, opt.limit)
        BY <2>2, <2>8, <2>9, <2>10, PairsAreCut
      <3>2. Cardinality(cached) \in 0 .. Len(rows)
        BY <2>9
      <3>3. /\ Len(Cut(mine, opt.limit)) <= Len(Cut(rows, opt.limit))
            /\ Cut(mine, opt.limit) = SubSeq(Cut(rows, opt.limit), 1, Len(Cut(mine, opt.limit)))
        BY <2>2, <2>9, <2>10, <3>2, CutOfPrefix
      <3> QED
        BY <2>7, <2>10, <3>1, <3>3 DEF present
    <2>11. CASE opt.limit < -1
      <3>1. ~(opt.limit >= 0) /\ ~(opt.limit >= -1)
        BY <2>2, <2>11
      <3> QED
        BY <2>7, <2>8, <2>11, <3>1 DEF present
    <2>12. opt.limit >= -1 \/ opt.limit < -1
      BY <2>2
    <2> QED
      BY <2>10, <2>11, <2>12, Zenon
  <1> QED
    BY <1>1, PTL

\* The invariant WalkStaysInBucket: a walk that ends at a bound shows no row
\* of the SMT, DIFF or CURRENT_STATE bucket.
THEOREM WalksStayInBucket == Spec => []WalkStaysInBucket
  <1>1. WalkStaysInBucket
    <2> SUFFICES ASSUME NEW h \in Live, NEW opt \in Options,
                        IF opt.reverse THEN opt.gte # Undefined ELSE opt.lte # Undefined,
                        NEW k \in Range(Scan(Raw(Present(db[h])), opt, TRUE))
                 PROVE  k[1] = StatePrefix[1]
      BY DEF WalkStaysInBucket
    <2> DEFINE present == Present(db[h])
               raw == Raw(present)
    <2>1. /\ present \in SUBSET ByteString
          /\ raw = InState(present) \union OtherBuckets
          /\ raw \in SUBSET ByteString /\ IsFiniteSet(raw)
          /\ OtherBuckets \in SUBSET ByteString
      BY Contents, InMemoryDatabaseAssumption
    <2>2. opt \in Option
      BY OptionsAndBuckets
    <2>3. k \in Range(Scan(raw, opt, TRUE))
      OBVIOUS
    <2> HIDE DEF present, raw
    <2>4. k \in Walked(raw, opt, TRUE)
      BY <2>1, <2>2, <2>3, ScanIsCut
    <2>5. \A j \in Walked(InState(present) \union OtherBuckets, opt, TRUE) : j[1] = 0
      BY <2>1, <2>2, OptionsAndBuckets, WalkedInState
    <2> QED
      BY <2>1, <2>4, <2>5, OptionsAndBuckets
  <1> QED
    BY <1>1, PTL

============================================================================
