-------------------------- MODULE IterationProofs ---------------------------
(***************************************************************************)
(* Facts about Iteration, for byte strings of every length and every       *)
(* finite set of them: Less is a strict total order, Ordered lists a set   *)
(* along it, the loop of js_iterate lists what lies between the start and  *)
(* the stop of the walk, and the prefix of a bucket moves all of this into *)
(* the bucket and keeps it there.                                          *)
(***************************************************************************)
EXTENDS Iteration, NaturalSets, FunctionTheorems, SequenceTheorems

----------------------------------------------------------------------------
(* The order of byte strings.                                              *)

\* The bytes of a string.
LEMMA StringBytes ==
    ASSUME NEW a \in ByteString
    PROVE  /\ Len(a) \in Nat /\ DOMAIN a = 1 .. Len(a)
           /\ \A i \in 1 .. Len(a) : a[i] \in Int /\ 0 <= a[i] /\ a[i] <= MaxByte
  <1>1. Len(a) \in Nat /\ DOMAIN a = 1 .. Len(a) /\ \A i \in 1 .. Len(a) : a[i] \in Bytes
    BY DEF ByteString
  <1> QED
    BY <1>1, MaxByteAssumption DEF Bytes

LEMMA LessIrreflexive ==
    ASSUME NEW a \in ByteString
    PROVE  ~Less(a, a)
  BY StringBytes DEF Less

LEMMA LessTransitive ==
    ASSUME NEW a \in ByteString, NEW b \in ByteString, NEW c \in ByteString,
           Less(a, b), Less(b, c)
    PROVE  Less(a, c)
  <1>1. /\ Len(a) \in Nat /\ DOMAIN a = 1 .. Len(a) /\ \A i \in 1 .. Len(a) : a[i] \in Int
        /\ Len(b) \in Nat /\ DOMAIN b = 1 .. Len(b) /\ \A i \in 1 .. Len(b) : b[i] \in Int
        /\ Len(c) \in Nat /\ DOMAIN c = 1 .. Len(c) /\ \A i \in 1 .. Len(c) : c[i] \in Int
    BY StringBytes
  <1>2. CASE \E i \in DOMAIN a \intersect DOMAIN b :
                a[i] < b[i] /\ \A j \in 1 .. i - 1 : a[j] = b[j]
    <2>1. PICK i \in 1 .. Len(a) : i <= Len(b) /\ a[i] < b[i] /\ \A j \in 1 .. i - 1 : a[j] = b[j]
      BY <1>1, <1>2
    <2>2. CASE \E m \in DOMAIN b \intersect DOMAIN c :
                  b[m] < c[m] /\ \A j \in 1 .. m - 1 : b[j] = c[j]
      <3>0. DOMAIN b \intersect DOMAIN c = {m \in 1 .. Len(b) : m <= Len(c)}
        BY <1>1
      <3>1. PICK m \in 1 .. Len(b) : m <= Len(c) /\ b[m] < c[m] /\ \A j \in 1 .. m - 1 : b[j] = c[j]
        BY <2>2, <3>0
      <3>2. CASE i <= m
        <4>1. i \in DOMAIN a \intersect DOMAIN c
          BY <1>1, <2>1, <3>1, <3>2
        <4>2. b[i] <= c[i]
          BY <1>1, <2>1, <3>1, <3>2
        <4>3. a[i] < c[i] /\ \A j \in 1 .. i - 1 : a[j] = c[j]
          BY <1>1, <2>1, <3>1, <3>2, <4>1, <4>2
        <4> QED
          BY <4>1, <4>3 DEF Less
      <3>3. CASE m < i
        <4>1. m \in DOMAIN a \intersect DOMAIN c
          BY <1>1, <2>1, <3>1, <3>3
        <4>2. a[m] < c[m] /\ \A j \in 1 .. m - 1 : a[j] = c[j]
          BY <1>1, <2>1, <3>1, <3>3
        <4> QED
          BY <4>1, <4>2 DEF Less
      <3> QED
        BY <3>2, <3>3
    <2>3. CASE Len(b) < Len(c) /\ \A j \in DOMAIN b : b[j] = c[j]
      <3>1. i \in DOMAIN a \intersect DOMAIN c
        BY <1>1, <2>1, <2>3
      <3>2. a[i] < c[i]
        BY <1>1, <2>1, <2>3
      <3>3. ASSUME NEW j \in 1 .. i - 1 PROVE a[j] = c[j]
        <4>1. j \in DOMAIN b
          BY <1>1, <2>1
        <4> QED
          BY <2>1, <2>3, <4>1
      <3> QED
        BY <3>1, <3>2, <3>3 DEF Less
    <2> QED
      BY <2>2, <2>3 DEF Less
  <1>3. CASE Len(a) < Len(b) /\ \A j \in DOMAIN a : a[j] = b[j]
    <2>1. CASE \E m \in DOMAIN b \intersect DOMAIN c :
                  b[m] < c[m] /\ \A j \in 1 .. m - 1 : b[j] = c[j]
      <3>1. PICK m \in 1 .. Len(b) : m <= Len(c) /\ b[m] < c[m] /\ \A j \in 1 .. m - 1 : b[j] = c[j]
        BY <1>1, <2>1
      <3>2. CASE m <= Len(a)
        <4>1. m \in DOMAIN a \intersect DOMAIN c
          BY <1>1, <3>1, <3>2
        <4>2. a[m] < c[m]
          BY <1>1, <1>3, <3>1, <3>2
        <4>3. ASSUME NEW j \in 1 .. m - 1 PROVE a[j] = c[j]
          <5>1. j \in DOMAIN a
            BY <1>1, <3>1, <3>2
          <5> QED
            BY <1>3, <3>1, <5>1
        <4> QED
          BY <4>1, <4>2, <4>3 DEF Less
      <3>3. CASE Len(a) < m
        <4>1. Len(a) < Len(c) /\ \A j \in DOMAIN a : a[j] = c[j]
          BY <1>1, <1>3, <3>1, <3>3
        <4> QED
          BY <4>1 DEF Less
      <3> QED
        BY <1>1, <3>2, <3>3
    <2>2. CASE Len(b) < Len(c) /\ \A j \in DOMAIN b : b[j] = c[j]
      BY <1>1, <1>3, <2>2 DEF Less
    <2> QED
      BY <2>1, <2>2 DEF Less
  <1> QED
    BY <1>2, <1>3 DEF Less

LEMMA LessTotal ==
    ASSUME NEW a \in ByteString, NEW b \in ByteString, a # b
    PROVE  Less(a, b) \/ Less(b, a)
  <1>1. /\ Len(a) \in Nat /\ DOMAIN a = 1 .. Len(a) /\ \A i \in 1 .. Len(a) : a[i] \in Int
        /\ Len(b) \in Nat /\ DOMAIN b = 1 .. Len(b) /\ \A i \in 1 .. Len(b) : b[i] \in Int
    BY StringBytes
  <1> DEFINE D == {i \in 1 .. Len(a) : i <= Len(b) /\ a[i] # b[i]}
  <1>2. CASE D # {}
    <2>1. D \in SUBSET Nat
      OBVIOUS
    <2>2. PICK i \in D : \A m \in D : i <= m
      BY <1>2, <2>1, LeastNatural
    <2>3. i \in 1 .. Len(a) /\ i \in 1 .. Len(b) /\ a[i] # b[i]
      BY <1>1, <2>2
    <2>4. \A j \in 1 .. i - 1 : a[j] = b[j]
      <3> SUFFICES ASSUME NEW j \in 1 .. i - 1 PROVE a[j] = b[j]
        OBVIOUS
      <3>1. j \in 1 .. Len(a) /\ j <= Len(b) /\ ~(i <= j)
        BY <1>1, <2>3
      <3>2. j \notin D
        BY <2>2, <3>1
      <3> QED
        BY <3>1, <3>2
    <2>5. a[i] < b[i] \/ b[i] < a[i]
      BY <1>1, <2>3
    <2>6. i \in DOMAIN a \intersect DOMAIN b /\ i \in DOMAIN b \intersect DOMAIN a
      BY <1>1, <2>3
    <2> HIDE DEF D
    <2>7. CASE a[i] < b[i]
      BY <2>4, <2>6, <2>7 DEF Less
    <2>8. CASE b[i] < a[i]
      <3>1. \A j \in 1 .. i - 1 : b[j] = a[j]
        BY <2>4
      <3> QED
        BY <2>6, <2>8, <3>1 DEF Less
    <2> QED
      BY <2>5, <2>7, <2>8
  <1>3. CASE D = {}
    <2>1. \A j \in 1 .. Len(a) : j <= Len(b) => a[j] = b[j]
      BY <1>3
    <2>2. CASE Len(a) < Len(b)
      BY <1>1, <2>1, <2>2 DEF Less
    <2>3. CASE Len(b) < Len(a)
      BY <1>1, <2>1, <2>3 DEF Less
    <2>4. CASE Len(a) = Len(b)
      <3>1. \A j \in 1 .. Len(a) : a[j] = b[j]
        BY <1>1, <2>1, <2>4
      <3> QED
        BY <2>4, <3>1, SeqEqual DEF ByteString
    <2>5. Len(a) < Len(b) \/ Len(b) < Len(a) \/ Len(a) = Len(b)
      <3> HIDE DEF D
      <3>1. Len(a) \in Int /\ Len(b) \in Int
        BY <1>1
      <3> QED
        BY <3>1
    <2> QED
      BY <2>2, <2>3, <2>4, <2>5
  <1> QED
    BY <1>2, <1>3

\* What is not below a string is at or above it.
LEMMA NotLess ==
    ASSUME NEW a \in ByteString, NEW b \in ByteString
    PROVE  ~Less(a, b) <=> AtMost(b, a)
  BY LessIrreflexive, LessTransitive, LessTotal DEF AtMost

----------------------------------------------------------------------------
(* A set of byte strings in the order of a walk.                           *)

\* A walk comes to j before it comes to k.
Precedes(j, k, reverse) == IF reverse THEN Less(k, j) ELSE Less(j, k)

\* The members of S a walk comes to before k: Ordered counts them.
EarlierKeys(S, k, reverse) == {j \in S : IF reverse THEN Less(k, j) ELSE Less(j, k)}

\* Either direction is a strict total order.
LEMMA WalkOrder ==
    ASSUME NEW reverse \in BOOLEAN
    PROVE  /\ \A a \in ByteString : ~Precedes(a, a, reverse)
           /\ \A a, b, c \in ByteString :
                 Precedes(a, b, reverse) /\ Precedes(b, c, reverse) => Precedes(a, c, reverse)
           /\ \A a, b \in ByteString : a # b => Precedes(a, b, reverse) \/ Precedes(b, a, reverse)
  <1>1. /\ \A a \in ByteString : ~Less(a, a)
        /\ \A a, b, c \in ByteString : Less(a, b) /\ Less(b, c) => Less(a, c)
        /\ \A a, b \in ByteString : a # b => Less(a, b) \/ Less(b, a)
    BY LessIrreflexive, LessTransitive, LessTotal
  <1>2. CASE reverse
    BY <1>1, <1>2, Zenon DEF Precedes
  <1>3. CASE ~reverse
    BY <1>1, <1>3, Zenon DEF Precedes
  <1> QED
    BY <1>2, <1>3

\* The rank of a key grows along the walk and stays below the size of the set.
LEMMA Ranks ==
    ASSUME NEW S \in SUBSET ByteString, IsFiniteSet(S), NEW reverse \in BOOLEAN
    PROVE  /\ Cardinality(S) \in Nat
           /\ \A k \in S : /\ Cardinality(EarlierKeys(S, k, reverse)) \in Nat
                          /\ Cardinality(EarlierKeys(S, k, reverse)) < Cardinality(S)
           /\ \A j, k \in S : Precedes(j, k, reverse) =>
                 Cardinality(EarlierKeys(S, j, reverse)) < Cardinality(EarlierKeys(S, k, reverse))
  <1> DEFINE E(k) == EarlierKeys(S, k, reverse)
  <1>1. \A j, k \in S : j \in E(k) <=> Precedes(j, k, reverse)
    BY DEF EarlierKeys, Precedes
  <1>2. Cardinality(S) \in Nat
    BY FS_CardinalityType
  <1>3. \A k \in S : E(k) \in SUBSET S
    BY DEF EarlierKeys
  <1> HIDE DEF E
  <1>4. \A k \in S : IsFiniteSet(E(k)) /\ Cardinality(E(k)) \in Nat
    BY <1>3, FS_Subset, FS_CardinalityType
  <1>5. \A T \in SUBSET S : \A U \in SUBSET T : U # T => Cardinality(U) < Cardinality(T)
    <2> SUFFICES ASSUME NEW T \in SUBSET S, NEW U \in SUBSET T, U # T
                 PROVE  Cardinality(U) < Cardinality(T)
      OBVIOUS
    <2>1. IsFiniteSet(T)
      BY FS_Subset
    <2>2. /\ IsFiniteSet(U) /\ Cardinality(U) <= Cardinality(T)
          /\ Cardinality(T) = Cardinality(U) => T = U
      BY <2>1, FS_Subset
    <2>3. Cardinality(T) \in Nat /\ Cardinality(U) \in Nat
      BY <2>1, <2>2, FS_CardinalityType
    <2> QED
      BY <2>2, <2>3
  <1>6. \A k \in S : Cardinality(E(k)) < Cardinality(S)
    <2>1. \A k \in S : k \notin E(k)
      BY <1>1, WalkOrder
    <2> QED
      BY <1>3, <1>5, <2>1
  <1>7. ASSUME NEW j \in S, NEW k \in S, Precedes(j, k, reverse)
        PROVE  Cardinality(E(j)) < Cardinality(E(k))
    <2>1. E(j) \in SUBSET E(k)
      <3> SUFFICES ASSUME NEW i \in E(j) PROVE i \in E(k)
        OBVIOUS
      <3>1. i \in S /\ Precedes(i, j, reverse)
        BY <1>1, <1>3
      <3>2. Precedes(i, k, reverse)
        BY <1>7, <3>1, WalkOrder
      <3> QED
        BY <1>1, <3>1, <3>2
    <2>2. j \in E(k) /\ j \notin E(j)
      BY <1>1, <1>7, WalkOrder
    <2> QED
      BY <1>3, <1>5, <2>1, <2>2
  <1> QED
    BY <1>2, <1>4, <1>6, <1>7 DEF E

\* Ordered lists every member of the set once, each at its rank.
LEMMA OrderedProperties ==
    ASSUME NEW S \in SUBSET ByteString, IsFiniteSet(S), NEW reverse \in BOOLEAN
    PROVE  /\ Cardinality(S) \in Nat
           /\ Ordered(S, reverse) \in Seq(S)
           /\ Len(Ordered(S, reverse)) = Cardinality(S)
           /\ \A i \in 1 .. Cardinality(S) :
                 /\ Ordered(S, reverse)[i] \in S
                 /\ Cardinality(EarlierKeys(S, Ordered(S, reverse)[i], reverse)) = i - 1
           /\ \A k \in S : \A i \in 1 .. Cardinality(S) :
                 Cardinality(EarlierKeys(S, k, reverse)) = i - 1 => Ordered(S, reverse)[i] = k
           /\ Range(Ordered(S, reverse)) = S
  <1> DEFINE n == Cardinality(S)
             rank == [k \in S |-> Cardinality(EarlierKeys(S, k, reverse)) + 1]
             W == Ordered(S, reverse)
             at(i) == CHOOSE k \in S : Cardinality(EarlierKeys(S, k, reverse)) = i - 1
  <1>1. /\ n \in Nat
        /\ \A k \in S : Cardinality(EarlierKeys(S, k, reverse)) \in Nat /\ rank[k] \in 1 .. n
    BY Ranks
  <1>2. \A j, k \in S : rank[j] = rank[k] => j = k
    <2> SUFFICES ASSUME NEW j \in S, NEW k \in S, j # k
                 PROVE  rank[j] # rank[k]
      OBVIOUS
    <2>1. Precedes(j, k, reverse) \/ Precedes(k, j, reverse)
      BY WalkOrder
    <2>2. \/ Cardinality(EarlierKeys(S, j, reverse)) < Cardinality(EarlierKeys(S, k, reverse))
          \/ Cardinality(EarlierKeys(S, k, reverse)) < Cardinality(EarlierKeys(S, j, reverse))
      BY <2>1, Ranks
    <2> QED
      BY <1>1, <2>2
  <1>3. rank \in [S -> 1 .. n]
    BY <1>1
  <1>4. \A i \in 1 .. n : \E k \in S : rank[k] = i
    <2> HIDE DEF rank
    <2>1. rank \in Injection(S, 1 .. n)
      BY <1>2, <1>3, Fun_IsInj
    <2>2. IsFiniteSet(1 .. n) /\ Cardinality(1 .. n) = n
      BY <1>1, FS_Interval
    <2>3. rank \in Surjection(S, 1 .. n)
      BY <2>1, <2>2, FS_Injection
    <2> QED
      BY <2>3, Fun_SurjectionProperties
  <1>5. W = [i \in 1 .. n |-> at(i)]
    BY DEF Ordered, EarlierKeys
  <1>6. ASSUME NEW i \in 1 .. n
        PROVE  W[i] \in S /\ Cardinality(EarlierKeys(S, W[i], reverse)) = i - 1
    <2>1. \E k \in S : Cardinality(EarlierKeys(S, k, reverse)) = i - 1
      <3>1. PICK k \in S : rank[k] = i
        BY <1>4
      <3>2. Cardinality(EarlierKeys(S, k, reverse)) + 1 = i
        BY <3>1
      <3> QED
        BY <1>1, <3>2
    <2>2. at(i) \in S /\ Cardinality(EarlierKeys(S, at(i), reverse)) = i - 1
      BY <2>1
    <2> HIDE DEF W, at
    <2> QED
      BY <1>5, <2>2
  <1> HIDE DEF W, at
  <1>7. DOMAIN W = 1 .. n
    BY <1>5
  <1>8. W \in Seq(S) /\ Len(W) = n
    <2>1. W \in [1 .. n -> S]
      BY <1>5, <1>6
    <2>2. W \in Seq(S)
      BY <1>1, <2>1
    <2> QED
      BY <1>1, <1>7, <2>2, LenProperties
  <1>9. ASSUME NEW k \in S, NEW i \in 1 .. n, Cardinality(EarlierKeys(S, k, reverse)) = i - 1
        PROVE  W[i] = k
    <2>1. rank[W[i]] = rank[k]
      BY <1>6, <1>9
    <2> QED
      BY <1>2, <1>6, <2>1
  <1>10. Range(W) = S
    <2>1. \A k \in S : \E i \in 1 .. n : W[i] = k
      <3> SUFFICES ASSUME NEW k \in S PROVE \E i \in 1 .. n : W[i] = k
        OBVIOUS
      <3>1. rank[k] \in 1 .. n /\ Cardinality(EarlierKeys(S, k, reverse)) = rank[k] - 1
        BY <1>1
      <3> QED
        BY <1>9, <3>1
    <2> QED
      BY <1>6, <1>7, <2>1 DEF Range
  <1> QED
    BY <1>1, <1>6, <1>8, <1>9, <1>10 DEF W

\* A part of a set that the walk visits before the rest is listed first, in
\* the same order.
LEMMA InitialSegment ==
    ASSUME NEW S \in SUBSET ByteString, IsFiniteSet(S), NEW reverse \in BOOLEAN, NEW T \in SUBSET S,
           \A k \in T : \A j \in S : Precedes(j, k, reverse) => j \in T
    PROVE  /\ Cardinality(T) \in 0 .. Cardinality(S)
           /\ \A i \in 1 .. Cardinality(S) : Ordered(S, reverse)[i] \in T <=> i <= Cardinality(T)
           /\ Ordered(T, reverse) = SubSeq(Ordered(S, reverse), 1, Cardinality(T))
  <1> DEFINE n == Cardinality(S)
             m == Cardinality(T)
             W == Ordered(S, reverse)
             V == Ordered(T, reverse)
  <1>1. IsFiniteSet(T) /\ m \in 0 .. n /\ n \in Nat /\ T \in SUBSET ByteString
    <2>1. IsFiniteSet(T) /\ m <= n /\ T \in SUBSET ByteString
      BY FS_Subset
    <2> QED
      BY <2>1, FS_CardinalityType
  <1>2. /\ W \in Seq(S) /\ Len(W) = n
        /\ \A i \in 1 .. n : W[i] \in S /\ Cardinality(EarlierKeys(S, W[i], reverse)) = i - 1
        /\ \A k \in S : \A i \in 1 .. n : Cardinality(EarlierKeys(S, k, reverse)) = i - 1 => W[i] = k
    BY OrderedProperties
  <1>3. /\ V \in Seq(T) /\ Len(V) = m
        /\ \A i \in 1 .. m : V[i] \in T /\ Cardinality(EarlierKeys(T, V[i], reverse)) = i - 1
    BY <1>1, OrderedProperties
  <1>4. \A k \in T : EarlierKeys(T, k, reverse) = EarlierKeys(S, k, reverse)
    BY DEF EarlierKeys, Precedes
  <1> HIDE DEF W, V
  <1>5. \A i \in 1 .. m : W[i] = V[i]
    <2> SUFFICES ASSUME NEW i \in 1 .. m PROVE W[i] = V[i]
      OBVIOUS
    <2>1. i \in 1 .. n
      BY <1>1
    <2>2. V[i] \in S /\ Cardinality(EarlierKeys(S, V[i], reverse)) = i - 1
      BY <1>3, <1>4
    <2> QED
      BY <1>2, <2>1, <2>2
  <1>6. ASSUME NEW i \in 1 .. n
        PROVE  W[i] \in T <=> i <= m
    <2>1. CASE i <= m
      <3>1. i \in 1 .. m
        BY <1>1, <2>1
      <3> QED
        BY <1>3, <1>5, <2>1, <3>1
    <2>2. ASSUME W[i] \in T PROVE i <= m
      <3>1. Cardinality(EarlierKeys(T, W[i], reverse)) = i - 1
        BY <1>2, <1>4, <2>2
      <3>2. Cardinality(EarlierKeys(T, W[i], reverse)) < m
        BY <1>1, <2>2, Ranks
      <3> QED
        BY <1>1, <3>1, <3>2
    <2> QED
      BY <2>1, <2>2
  <1>7. V = SubSeq(W, 1, m)
    <2>1. \A i \in 1 .. m : W[i] \in S
      BY <1>1, <1>2
    <2>2. /\ SubSeq(W, 1, m) \in Seq(S)
          /\ Len(SubSeq(W, 1, m)) = m
          /\ \A i \in 1 .. m : SubSeq(W, 1, m)[i] = W[i]
      <3>1. /\ SubSeq(W, 1, m) \in Seq(S)
            /\ Len(SubSeq(W, 1, m)) = IF 1 <= m THEN m - 1 + 1 ELSE 0
            /\ \A i \in 1 .. m - 1 + 1 : SubSeq(W, 1, m)[i] = W[1 + i - 1]
        BY <1>1, <2>1, SubSeqProperties
      <3>2. m - 1 + 1 = m /\ \A i \in 1 .. m : 1 + i - 1 = i
        BY <1>1
      <3> QED
        BY <1>1, <3>1, <3>2
    <2>3. V \in Seq(S)
      BY <1>3, SeqMonotonic
    <2> QED
      BY <1>3, <1>5, <2>2, <2>3, SeqEqual
  <1> QED
    BY <1>1, <1>6, <1>7 DEF W, V

----------------------------------------------------------------------------
(* The loop of js_iterate.                                                 *)

\* The rows of a sorted list that a limit lets through, -1 for all of them.
Cut(rows, limit) == IF limit = -1 \/ limit > Len(rows) THEN rows ELSE SubSeq(rows, 1, limit)

\* The stop test of the walk without its limit.
PastEnd(opt, key, hasPrefix) ==
    \/ opt.reverse /\ opt.gte # Undefined /\ Less(key, KindKey(opt.gte, hasPrefix))
    \/ ~opt.reverse /\ opt.lte # Undefined /\ Less(KindKey(opt.lte, hasPrefix), key)

\* The keys between the start and the stop of the walk.
Walked(present, opt, hasPrefix) ==
    {k \in IteratorKeys(present, opt, hasPrefix) : ~PastEnd(opt, k, hasPrefix)}

\* A key of a bucket, and the bucket it is put back into.
LEMMA KindKeyType ==
    ASSUME NEW a \in ByteString, NEW hasPrefix \in BOOLEAN
    PROVE  /\ KindKey(a, hasPrefix) \in ByteString
           /\ StatePrefix \in ByteString /\ Len(StatePrefix) = 1 /\ StatePrefix[1] = 0
  <1>1. StatePrefix \in ByteString /\ Len(StatePrefix) = 1 /\ StatePrefix[1] = 0
    BY MaxByteAssumption DEF StatePrefix, ByteString, Bytes
  <1>2. StatePrefix \o a \in ByteString
    BY <1>1, ConcatProperties DEF ByteString
  <1> QED
    BY <1>1, <1>2 DEF KindKey

\* The stop test, once true, stays true along the walk.
LEMMA WalkedIsFirst ==
    ASSUME NEW present \in SUBSET ByteString, NEW opt \in Option, NEW hasPrefix \in BOOLEAN,
           NEW k \in Walked(present, opt, hasPrefix), NEW j \in IteratorKeys(present, opt, hasPrefix),
           Precedes(j, k, opt.reverse)
    PROVE  j \in Walked(present, opt, hasPrefix)
  <1>1. k \in ByteString /\ j \in ByteString
    BY DEF Walked, IteratorKeys
  <1>2. CASE opt.reverse
    <2>1. ASSUME opt.gte # Undefined, Less(j, KindKey(opt.gte, hasPrefix)) PROVE FALSE
      <3>1. KindKey(opt.gte, hasPrefix) \in ByteString
        BY <2>1, KindKeyType DEF Option
      <3>2. Less(k, j)
        BY <1>2 DEF Precedes
      <3>3. Less(k, KindKey(opt.gte, hasPrefix))
        BY <1>1, <2>1, <3>1, <3>2, LessTransitive
      <3> QED
        BY <1>2, <2>1, <3>3 DEF Walked, PastEnd
    <2> QED
      BY <1>2, <2>1 DEF Walked, PastEnd
  <1>3. CASE ~opt.reverse
    <2>1. ASSUME opt.lte # Undefined, Less(KindKey(opt.lte, hasPrefix), j) PROVE FALSE
      <3>1. KindKey(opt.lte, hasPrefix) \in ByteString
        BY <2>1, KindKeyType DEF Option
      <3>2. Less(j, k)
        BY <1>3 DEF Precedes
      <3>3. Less(KindKey(opt.lte, hasPrefix), k)
        BY <1>1, <2>1, <3>1, <3>2, LessTransitive
      <3> QED
        BY <1>3, <2>1, <3>3 DEF Walked, PastEnd
    <2> QED
      BY <1>3, <2>1 DEF Walked, PastEnd
  <1> QED
    BY <1>2, <1>3

\* Members of a prefix of a list of keys.
LEMMA PrefixOfList ==
    ASSUME NEW S, NEW rows \in Seq(S), NEW n \in 0 .. Len(rows)
    PROVE  /\ SubSeq(rows, 1, n) \in Seq(S) /\ Len(SubSeq(rows, 1, n)) = n
           /\ \A i \in 1 .. n : SubSeq(rows, 1, n)[i] = rows[i]
  <1>1. Len(rows) \in Nat /\ \A i \in 1 .. n : rows[i] \in S
    BY ElementOfSeq
  <1>2. /\ SubSeq(rows, 1, n) \in Seq(S)
        /\ Len(SubSeq(rows, 1, n)) = IF 1 <= n THEN n - 1 + 1 ELSE 0
        /\ \A i \in 1 .. n - 1 + 1 : SubSeq(rows, 1, n)[i] = rows[1 + i - 1]
    BY <1>1, SubSeqProperties
  <1>3. n - 1 + 1 = n /\ \A i \in 1 .. n : 1 + i - 1 = i
    BY <1>1
  <1> QED
    BY <1>1, <1>2, <1>3

\* The loop of js_iterate yields the keys between start and stop in order,
\* cut to the limit, and whatever the limit nothing else; below -1 it stops
\* before the first row.
LEMMA ScanIsCut ==
    ASSUME NEW present \in SUBSET ByteString, IsFiniteSet(present), NEW opt \in Option,
           NEW hasPrefix \in BOOLEAN
    PROVE  LET rows == Ordered(Walked(present, opt, hasPrefix), opt.reverse)
           IN  /\ opt.limit >= -1 => Scan(present, opt, hasPrefix) = Cut(rows, opt.limit)
               /\ opt.limit < -1 => Scan(present, opt, hasPrefix) = <<>>
               /\ Range(Scan(present, opt, hasPrefix)) \subseteq Walked(present, opt, hasPrefix)
  <1> DEFINE S == IteratorKeys(present, opt, hasPrefix)
             T == Walked(present, opt, hasPrefix)
             W == Ordered(S, opt.reverse)
             V == Ordered(T, opt.reverse)
             m == Cardinality(T)
             in(n) == \A i \in 1 .. n : ~IsKeyOutOfRange(opt, W[i], i - 1, hasPrefix)
             inside == {n \in 0 .. Len(W) : in(n)}
             last == CHOOSE n \in inside : \A o \in inside : o <= n
  <1>1. opt.reverse \in BOOLEAN /\ opt.limit \in Int
    BY DEF Option
  <1>2. /\ S \in SUBSET ByteString /\ IsFiniteSet(S) /\ T \in SUBSET S
        /\ T \in SUBSET ByteString /\ IsFiniteSet(T)
    <2>1. S \in SUBSET present /\ T \in SUBSET S
      BY DEF IteratorKeys, Walked
    <2> QED
      BY <2>1, FS_Subset
  <1>3. /\ m \in 0 .. Cardinality(S)
        /\ \A i \in 1 .. Cardinality(S) : W[i] \in T <=> i <= m
        /\ V = SubSeq(W, 1, m)
    <2>1. \A k \in T : \A j \in S : Precedes(j, k, opt.reverse) => j \in T
      BY WalkedIsFirst
    <2> HIDE DEF S, T
    <2> QED
      BY <1>1, <1>2, <2>1, InitialSegment
  <1>4. W \in Seq(S) /\ Len(W) = Cardinality(S) /\ Len(W) \in Nat
    <2> HIDE DEF S
    <2> QED
      BY <1>1, <1>2, OrderedProperties
  <1>5. V \in Seq(T) /\ Len(V) = m /\ Range(V) = T /\ m \in Nat
    <2> HIDE DEF T
    <2> QED
      BY <1>1, <1>2, OrderedProperties
  <1>6. \A i \in 1 .. Len(W) : IsKeyOutOfRange(opt, W[i], i - 1, hasPrefix)
                                <=> (opt.limit # -1 /\ i - 1 >= opt.limit) \/ i > m
    <2> SUFFICES ASSUME NEW i \in 1 .. Len(W)
                 PROVE  IsKeyOutOfRange(opt, W[i], i - 1, hasPrefix)
                          <=> (opt.limit # -1 /\ i - 1 >= opt.limit) \/ i > m
      OBVIOUS
    <2>1. W[i] \in S
      BY <1>4, ElementOfSeq
    <2>2. PastEnd(opt, W[i], hasPrefix) <=> W[i] \notin T
      BY <2>1 DEF Walked
    <2>3. W[i] \in T <=> i <= m
      BY <1>3, <1>4
    <2>4. IsKeyOutOfRange(opt, W[i], i - 1, hasPrefix)
            <=> (opt.limit # -1 /\ i - 1 >= opt.limit) \/ PastEnd(opt, W[i], hasPrefix)
      BY DEF IsKeyOutOfRange, PastEnd
    <2>5. ~(i <= m) <=> i > m
      BY <1>4, <1>5
    <2> QED
      BY <2>2, <2>3, <2>4, <2>5
  <1>7. Scan(present, opt, hasPrefix) = SubSeq(W, 1, last)
    BY DEF Scan
  <1> HIDE DEF S, T, W, V, m
  <1>8. \A n \in 0 .. Len(W) : in(n) <=> n = 0 \/ (n <= m /\ (opt.limit = -1 \/ n <= opt.limit))
    <2> SUFFICES ASSUME NEW n \in 0 .. Len(W)
                 PROVE  in(n) <=> n = 0 \/ (n <= m /\ (opt.limit = -1 \/ n <= opt.limit))
      OBVIOUS
    <2>1. ASSUME in(n), n # 0 PROVE n <= m /\ (opt.limit = -1 \/ n <= opt.limit)
      <3>1. n \in 1 .. n /\ n \in 1 .. Len(W)
        BY <1>4, <2>1
      <3>2. ~IsKeyOutOfRange(opt, W[n], n - 1, hasPrefix)
        BY <2>1, <3>1
      <3>3. ~(opt.limit # -1 /\ n - 1 >= opt.limit) /\ ~(n > m)
        BY <1>6, <3>1, <3>2
      <3> QED
        BY <1>1, <1>5, <3>1, <3>3
    <2>2. ASSUME n # 0 => n <= m /\ (opt.limit = -1 \/ n <= opt.limit)
          PROVE  in(n)
      <3> SUFFICES ASSUME NEW i \in 1 .. n PROVE ~IsKeyOutOfRange(opt, W[i], i - 1, hasPrefix)
        OBVIOUS
      <3>1. i \in 1 .. Len(W)
        BY <1>4
      <3>2. ~(opt.limit # -1 /\ i - 1 >= opt.limit) /\ ~(i > m)
        BY <1>1, <1>4, <1>5, <2>2
      <3> QED
        BY <1>6, <3>1, <3>2
    <2> HIDE DEF in
    <2> QED
      BY <2>1, <2>2
  <1> DEFINE best == IF opt.limit < -1 THEN 0
                     ELSE IF opt.limit = -1 \/ opt.limit > m THEN m ELSE opt.limit
  <1>9. last = best /\ best \in 0 .. m
    <2>1. best \in 0 .. m /\ m <= Len(W)
      BY <1>1, <1>3, <1>4, <1>5
    <2>2. best \in inside
      <3>1. best \in 0 .. Len(W)
        BY <1>4, <1>5, <2>1
      <3>2. best = 0 \/ (best <= m /\ (opt.limit = -1 \/ best <= opt.limit))
        BY <1>1, <1>5
      <3> HIDE DEF best, in
      <3> QED
        BY <1>8, <3>1, <3>2
    <2>3. \A o \in inside : o <= best
      <3> SUFFICES ASSUME NEW o \in inside PROVE o <= best
        OBVIOUS
      <3>1. o \in 0 .. Len(W) /\ (o = 0 \/ (o <= m /\ (opt.limit = -1 \/ o <= opt.limit)))
        <4> HIDE DEF in
        <4> QED
          BY <1>8
      <3> QED
        BY <1>1, <1>4, <1>5, <3>1
    <2>4. inside \in SUBSET Int
      BY <1>4
    <2>5. last \in inside /\ \A o \in inside : o <= last
      <3> HIDE DEF inside, best
      <3> QED
        BY <2>2, <2>3
    <2>6. best <= last /\ last <= best /\ last \in Int /\ best \in Int
      <3> HIDE DEF inside, best, last
      <3> QED
        BY <2>2, <2>3, <2>4, <2>5
    <2> HIDE DEF inside, best, last
    <2> QED
      BY <2>1, <2>6
  <1>10. Scan(present, opt, hasPrefix) = SubSeq(V, 1, best)
    <2>1. SubSeq(W, 1, best) = SubSeq(V, 1, best)
      <3> HIDE DEF best
      <3>1. m \in 0 .. Len(W) /\ best \in 0 .. Len(W) /\ best \in 0 .. Len(V)
        BY <1>3, <1>4, <1>5, <1>9
      <3>2. V \in Seq(S)
        BY <1>2, <1>5, SeqMonotonic
      <3>3. /\ SubSeq(W, 1, best) \in Seq(S) /\ Len(SubSeq(W, 1, best)) = best
            /\ \A i \in 1 .. best : SubSeq(W, 1, best)[i] = W[i]
        BY <1>4, <3>1, PrefixOfList
      <3>4. /\ SubSeq(V, 1, best) \in Seq(S) /\ Len(SubSeq(V, 1, best)) = best
            /\ \A i \in 1 .. best : SubSeq(V, 1, best)[i] = V[i]
        BY <3>1, <3>2, PrefixOfList
      <3>5. \A i \in 1 .. m : V[i] = W[i]
        BY <1>3, <1>4, <3>1, PrefixOfList
      <3>6. \A i \in 1 .. best : i \in 1 .. m
        BY <1>5, <1>9
      <3>7. \A i \in 1 .. Len(SubSeq(W, 1, best)) : SubSeq(W, 1, best)[i] = SubSeq(V, 1, best)[i]
        BY <3>3, <3>4, <3>5, <3>6
      <3> QED
        BY <3>3, <3>4, <3>7, SeqEqual
    <2> HIDE DEF best, last
    <2> QED
      BY <1>7, <1>9, <2>1
  <1>11. Range(Scan(present, opt, hasPrefix)) \subseteq T
    <2> HIDE DEF best
    <2>1. best \in 0 .. Len(V)
      BY <1>5, <1>9
    <2>2. SubSeq(V, 1, best) \in Seq(T)
      BY <1>5, <2>1, PrefixOfList
    <2>3. SubSeq(V, 1, best) \in [1 .. Len(SubSeq(V, 1, best)) -> T]
      BY <2>2, LenProperties
    <2> QED
      BY <1>10, <2>3, Fun_RangeProperties
  <1>12. opt.limit >= -1 => Scan(present, opt, hasPrefix) = Cut(V, opt.limit)
    <2>1. V = SubSeq(V, 1, m)
      BY <1>5, SubSeqFull
    <2> QED
      BY <1>1, <1>5, <1>10, <2>1 DEF Cut
  <1>13. opt.limit < -1 => Scan(present, opt, hasPrefix) = <<>>
    <2>1. SubSeq(V, 1, 0) = <<>>
      BY SubSeqEmpty
    <2> QED
      BY <1>10, <2>1
  <1> QED
    BY <1>11, <1>12, <1>13 DEF V, T

----------------------------------------------------------------------------
(* The bounds of a walk.                                                   *)

\* The bounds an option stands for are byte strings.
LEMMA BoundTypes ==
    ASSUME NEW opt \in Option, ~NoRange(opt)
    PROVE  LowerBound(opt) \in ByteString /\ UpperBound(opt) \in ByteString
  <1>1. \A a \in ByteString : Filled(0, a) \in ByteString /\ Filled(MaxByte, a) \in ByteString
    <2> SUFFICES ASSUME NEW a \in ByteString
                 PROVE  Filled(0, a) \in ByteString /\ Filled(MaxByte, a) \in ByteString
      OBVIOUS
    <2>1. Len(a) \in Nat
      BY StringBytes
    <2>2. 0 \in Bytes /\ MaxByte \in Bytes
      BY MaxByteAssumption DEF Bytes
    <2> QED
      BY <2>1, <2>2 DEF Filled, ByteString
  <1>2. /\ opt.gte \in ByteString \union {Undefined} /\ opt.lte \in ByteString \union {Undefined}
        /\ opt.gte # Undefined \/ opt.lte # Undefined
    BY DEF Option, NoRange
  <1> QED
    BY <1>1, <1>2, Zenon DEF LowerBound, UpperBound

\* As long as a key is not longer than a bound, the default for the other
\* bound does not exclude it.
LEMMA FilledBounds ==
    ASSUME NEW a \in ByteString, NEW k \in ByteString, Len(k) = Len(a)
    PROVE  AtMost(Filled(0, a), k) /\ AtMost(k, Filled(MaxByte, a))
  <1>1. Filled(0, a) \in ByteString /\ Filled(MaxByte, a) \in ByteString
    <2>1. Len(a) \in Nat
      BY StringBytes
    <2>2. 0 \in Bytes /\ MaxByte \in Bytes
      BY MaxByteAssumption DEF Bytes
    <2> QED
      BY <2>1, <2>2 DEF Filled, ByteString
  <1>2. /\ DOMAIN Filled(0, a) = 1 .. Len(a) /\ Len(Filled(0, a)) = Len(a)
        /\ \A i \in 1 .. Len(a) : Filled(0, a)[i] = 0
        /\ DOMAIN Filled(MaxByte, a) = 1 .. Len(a) /\ Len(Filled(MaxByte, a)) = Len(a)
        /\ \A i \in 1 .. Len(a) : Filled(MaxByte, a)[i] = MaxByte
    <2>1. Len(a) \in Nat
      BY StringBytes
    <2> QED
      BY <2>1 DEF Filled
  <1>3. DOMAIN k = 1 .. Len(a) /\ Len(a) \in Nat /\ \A i \in 1 .. Len(a) : k[i] \in 0 .. MaxByte
    BY StringBytes, MaxByteAssumption
  <1>4. ~Less(k, Filled(0, a))
    <2>1. \A i \in 1 .. Len(a) : ~(k[i] < 0)
      BY <1>3
    <2>2. ~(Len(a) < Len(a))
      BY <1>3
    <2> QED
      BY <1>2, <1>3, <2>1, <2>2 DEF Less
  <1>5. ~Less(Filled(MaxByte, a), k)
    <2>1. \A i \in 1 .. Len(a) : ~(MaxByte < k[i])
      BY <1>3, MaxByteAssumption
    <2>2. ~(Len(a) < Len(a))
      BY <1>3
    <2> QED
      BY <1>2, <1>3, <2>1, <2>2 DEF Less
  <1> QED
    BY <1>1, <1>4, <1>5, NotLess

\* When no default excludes a row, both databases look at the rows between
\* the bounds, and at nothing else.
LEMMA WalkedIsBetween ==
    ASSUME NEW present \in SUBSET ByteString, NEW opt \in Option, ~NoRange(opt),
           opt.gte = Undefined => \A k \in present : AtMost(LowerBound(opt), k),
           opt.lte = Undefined => \A k \in present : AtMost(k, UpperBound(opt))
    PROVE  /\ Walked(present, opt, FALSE) = Between(present, opt)
           /\ CacheRange(present, LowerBound(opt), UpperBound(opt)) = Between(present, opt)
  <1>1. /\ opt.gte # Undefined => opt.gte \in ByteString /\ LowerBound(opt) = opt.gte
        /\ opt.lte # Undefined => opt.lte \in ByteString /\ UpperBound(opt) = opt.lte
    BY DEF Option, LowerBound, UpperBound
  <1>2. \A k \in present :
          /\ opt.gte # Undefined => (~Less(k, opt.gte) <=> AtMost(opt.gte, k))
          /\ opt.lte # Undefined => (~Less(opt.lte, k) <=> AtMost(k, opt.lte))
    BY <1>1, NotLess
  <1>3. \A key : KindKey(key, FALSE) = key
    BY DEF KindKey
  <1>4. CacheRange(present, LowerBound(opt), UpperBound(opt)) = Between(present, opt)
    BY <1>1 DEF CacheRange, Between
  <1>5. CASE opt.reverse
    <2>1. Walked(present, opt, FALSE) =
            {k \in {k \in present : AtMost(k, UpperBound(opt))} :
                ~(opt.gte # Undefined /\ Less(k, opt.gte))}
      <3>1. IteratorKeys(present, opt, FALSE) = {k \in present : AtMost(k, UpperBound(opt))}
        BY <1>3, <1>5 DEF IteratorKeys
      <3>2. \A k : PastEnd(opt, k, FALSE) <=> opt.gte # Undefined /\ Less(k, opt.gte)
        BY <1>3, <1>5 DEF PastEnd
      <3> QED
        BY <3>1, <3>2 DEF Walked
    <2> QED
      BY <1>1, <1>2, <1>4, <2>1 DEF Between
  <1>6. CASE ~opt.reverse
    <2>1. Walked(present, opt, FALSE) =
            {k \in {k \in present : AtMost(LowerBound(opt), k)} :
                ~(opt.lte # Undefined /\ Less(opt.lte, k))}
      <3>1. IteratorKeys(present, opt, FALSE) = {k \in present : AtMost(LowerBound(opt), k)}
        BY <1>3, <1>6 DEF IteratorKeys
      <3>2. \A k : PastEnd(opt, k, FALSE) <=> opt.lte # Undefined /\ Less(opt.lte, k)
        BY <1>3, <1>6 DEF PastEnd
      <3> QED
        BY <3>1, <3>2 DEF Walked
    <2> QED
      BY <1>1, <1>2, <1>4, <2>1 DEF Between
  <1> QED
    BY <1>4, <1>5, <1>6

\* Cut to the same limit, the first rows of a list remain its first rows.
LEMMA CutOfPrefix ==
    ASSUME NEW S, NEW rows \in Seq(S), NEW n \in 0 .. Len(rows), NEW limit \in Int, limit >= -1
    PROVE  LET short == Cut(SubSeq(rows, 1, n), limit)
               long == Cut(rows, limit)
           IN  /\ Len(short) <= Len(long)
               /\ short = SubSeq(long, 1, Len(short))
  <1> DEFINE first == SubSeq(rows, 1, n)
             all == Len(rows)
             s == IF limit = -1 \/ limit > n THEN n ELSE limit
             l == IF limit = -1 \/ limit > all THEN all ELSE limit
  <1>1. first \in Seq(S) /\ Len(first) = n /\ \A i \in 1 .. n : first[i] = rows[i]
    BY PrefixOfList
  <1>2. all \in Nat /\ n \in 0 .. all /\ rows = SubSeq(rows, 1, all) /\ first = SubSeq(first, 1, n)
    BY <1>1, SubSeqFull
  <1>3. s \in 0 .. n /\ l \in 0 .. all /\ s <= l
    <2> HIDE DEF all
    <2> QED
      BY <1>2
  <1>4. Cut(rows, limit) = SubSeq(rows, 1, l)
    BY <1>2 DEF Cut
  <1>5. Cut(first, limit) = SubSeq(first, 1, s)
    BY <1>1, <1>2 DEF Cut
  <1> HIDE DEF s, l
  <1>6. /\ SubSeq(rows, 1, l) \in Seq(S) /\ Len(SubSeq(rows, 1, l)) = l
        /\ \A i \in 1 .. l : SubSeq(rows, 1, l)[i] = rows[i]
    BY <1>3, PrefixOfList
  <1>7. /\ SubSeq(first, 1, s) \in Seq(S) /\ Len(SubSeq(first, 1, s)) = s
        /\ \A i \in 1 .. s : SubSeq(first, 1, s)[i] = first[i]
    <2> HIDE DEF first
    <2> QED
      BY <1>1, <1>3, PrefixOfList
  <1> DEFINE long == SubSeq(rows, 1, l)
             short == SubSeq(first, 1, s)
  <1>8. short = SubSeq(long, 1, s)
    <2> HIDE DEF first
    <2>1. \A i \in 1 .. s : i \in 1 .. n /\ i \in 1 .. l
      BY <1>2, <1>3
    <2>2. s \in 0 .. Len(long)
      BY <1>2, <1>3, <1>6
    <2> HIDE DEF long
    <2>3. /\ SubSeq(long, 1, s) \in Seq(S) /\ Len(SubSeq(long, 1, s)) = s
          /\ \A i \in 1 .. s : SubSeq(long, 1, s)[i] = long[i]
      BY <1>6, <2>2, PrefixOfList DEF long
    <2>4. \A i \in 1 .. s : short[i] = SubSeq(long, 1, s)[i]
      BY <1>1, <1>6, <1>7, <2>1, <2>3 DEF long
    <2> QED
      BY <1>7, <2>3, <2>4, SeqEqual
  <1> QED
    BY <1>3, <1>4, <1>5, <1>6, <1>7, <1>8

\* The limit of the in-memory database, which has no -1 of its own.
LEMMA PairsAreCut ==
    ASSUME NEW S, NEW rows \in Seq(S), NEW limit \in Int, limit >= -1
    PROVE  (IF limit >= 0 /\ Len(rows) > limit THEN SubSeq(rows, 1, limit) ELSE rows) = Cut(rows, limit)
  <1>1. Len(rows) \in Nat /\ SubSeq(rows, 1, Len(rows)) = rows
    BY SubSeqFull
  <1>2. CASE limit = -1
    <2>1. ~(limit >= 0)
      BY <1>2
    <2> QED
      BY <1>2, <2>1 DEF Cut
  <1>3. CASE limit >= 0 /\ Len(rows) > limit
    <2>1. limit # -1 /\ ~(limit > Len(rows))
      BY <1>1, <1>3
    <2> QED
      BY <1>3, <2>1 DEF Cut
  <1>4. CASE limit >= 0 /\ ~(Len(rows) > limit)
    <2>1. limit > Len(rows) \/ limit = Len(rows)
      <3>1. \A n \in Int : ~(n > limit) => limit > n \/ limit = n
        OBVIOUS
      <3>2. Len(rows) \in Int
        BY <1>1
      <3> QED
        BY <1>4, <3>1, <3>2
    <2>2. Cut(rows, limit) = rows
      BY <1>1, <2>1 DEF Cut
    <2> QED
      BY <1>4, <2>2
  <1> QED
    BY <1>2, <1>3, <1>4

\* Unless a default excludes a row, RocksDB and the in-memory database
\* both answer with the rows between the bounds, in order, up to the limit.
LEMMA BothAreExpected ==
    ASSUME NEW present \in SUBSET ByteString, IsFiniteSet(present), NEW opt \in Option,
           ~NoRange(opt), opt.limit >= -1,
           opt.gte = Undefined => \A k \in present : AtMost(LowerBound(opt), k),
           opt.lte = Undefined => \A k \in present : AtMost(k, UpperBound(opt))
    PROVE  /\ Scan(present, opt, FALSE) = ExpectedRows(present, opt)
           /\ GetKeyValuePairs(present, opt) = ExpectedRows(present, opt)
  <1> DEFINE T == Between(present, opt)
             rows == Ordered(T, opt.reverse)
  <1>1. /\ Walked(present, opt, FALSE) = T
        /\ CacheRange(present, LowerBound(opt), UpperBound(opt)) = T
    BY WalkedIsBetween
  <1>2. opt.limit \in Int /\ opt.reverse \in BOOLEAN
    BY DEF Option
  <1>3. rows \in Seq(T)
    <2>1. T \in SUBSET present
      BY DEF Between
    <2>2. T \in SUBSET ByteString /\ IsFiniteSet(T)
      BY <2>1, FS_Subset
    <2> HIDE DEF T
    <2> QED
      BY <1>2, <2>2, OrderedProperties
  <1>4. ExpectedRows(present, opt) = Cut(rows, opt.limit)
    BY DEF ExpectedRows, Cut
  <1>5. Scan(present, opt, FALSE) = Cut(rows, opt.limit)
    <2>1. opt.limit >= -1 =>
            Scan(present, opt, FALSE) = Cut(Ordered(Walked(present, opt, FALSE), opt.reverse), opt.limit)
      BY ScanIsCut
    <2> QED
      BY <1>1, <2>1
  <1>6. GetKeyValuePairs(present, opt) = Cut(rows, opt.limit)
    <2>1. GetKeyValuePairs(present, opt) =
            IF opt.limit >= 0 /\ Len(rows) > opt.limit THEN SubSeq(rows, 1, opt.limit) ELSE rows
      BY <1>1 DEF GetKeyValuePairs
    <2> HIDE DEF rows
    <2> QED
      BY <1>2, <1>3, <2>1, PairsAreCut
  <1> QED
    BY <1>4, <1>5, <1>6

----------------------------------------------------------------------------
(* The prefix of a bucket.                                                 *)

\* The keys of a set, in the STATE bucket.
InState(S) == {StatePrefix \o k : k \in S}

LEMMA PrefixedKey ==
    ASSUME NEW a \in ByteString
    PROVE  /\ StatePrefix \o a \in ByteString
           /\ Len(StatePrefix \o a) = Len(a) + 1
           /\ (StatePrefix \o a)[1] = 0
           /\ \A i \in 1 .. Len(a) : (StatePrefix \o a)[i + 1] = a[i]
           /\ Tail(StatePrefix \o a) = a
           /\ StatePrefix \o a # <<>>
  <1>1. StatePrefix \in Seq(Bytes) /\ Len(StatePrefix) = 1 /\ StatePrefix[1] = 0 /\ a \in Seq(Bytes)
    BY KindKeyType DEF ByteString
  <1>2. /\ StatePrefix \o a \in Seq(Bytes)
        /\ Len(StatePrefix \o a) = 1 + Len(a)
        /\ \A i \in 1 .. 1 + Len(a) :
              (StatePrefix \o a)[i] = IF i <= 1 THEN StatePrefix[i] ELSE a[i - 1]
    <2>1. /\ StatePrefix \o a \in Seq(Bytes)
          /\ Len(StatePrefix \o a) = Len(StatePrefix) + Len(a)
          /\ \A i \in 1 .. Len(StatePrefix) + Len(a) : (StatePrefix \o a)[i] =
                IF i <= Len(StatePrefix) THEN StatePrefix[i] ELSE a[i - Len(StatePrefix)]
      BY <1>1, ConcatProperties, Zenon
    <2> QED
      BY <1>1, <2>1, Zenon
  <1>3. Len(a) \in Nat
    BY <1>1, LenProperties
  <1>4. (StatePrefix \o a)[1] = 0
    BY <1>1, <1>2, <1>3
  <1>5. ASSUME NEW i \in 1 .. Len(a)
        PROVE  (StatePrefix \o a)[i + 1] = a[i]
    <2>1. i + 1 \in 1 .. 1 + Len(a) /\ ~(i + 1 <= 1) /\ i + 1 - 1 = i
      BY <1>3
    <2> QED
      BY <1>2, <2>1
  <1>6. StatePrefix \o a # <<>>
    BY <1>2, <1>3
  <1>7. Tail(StatePrefix \o a) = a
    <2> DEFINE s == StatePrefix \o a
    <2> HIDE DEF s
    <2>1. s \in Seq(Bytes) /\ s # <<>> /\ Len(s) = 1 + Len(a)
      BY <1>2, <1>6 DEF s
    <2>2. /\ Tail(s) \in Seq(Bytes) /\ Len(Tail(s)) = Len(s) - 1
          /\ \A i \in 1 .. Len(Tail(s)) : Tail(s)[i] = s[i + 1]
      BY <2>1, HeadTailProperties
    <2>3. Len(Tail(s)) = Len(a)
      BY <1>3, <2>1, <2>2
    <2>4. \A i \in 1 .. Len(Tail(s)) : Tail(s)[i] = a[i]
      BY <1>5, <2>2, <2>3 DEF s
    <2>5. Tail(s) = a
      BY <1>1, <2>2, <2>3, <2>4, SeqEqual
    <2> QED
      BY <2>5 DEF s
  <1> QED
    BY <1>2, <1>3, <1>4, <1>5, <1>6, <1>7 DEF ByteString

\* The bucket keeps the order.
LEMMA PrefixOrder ==
    ASSUME NEW a \in ByteString, NEW b \in ByteString
    PROVE  /\ Less(StatePrefix \o a, StatePrefix \o b) <=> Less(a, b)
           /\ AtMost(StatePrefix \o a, StatePrefix \o b) <=> AtMost(a, b)
  <1> DEFINE pa == StatePrefix \o a
             pb == StatePrefix \o b
  <1>1. /\ DOMAIN a = 1 .. Len(a) /\ Len(a) \in Nat
        /\ DOMAIN b = 1 .. Len(b) /\ Len(b) \in Nat
    BY StringBytes
  <1>2. /\ DOMAIN pa = 1 .. Len(a) + 1 /\ Len(pa) = Len(a) + 1
        /\ pa[1] = 0 /\ \A i \in 1 .. Len(a) : pa[i + 1] = a[i]
        /\ DOMAIN pb = 1 .. Len(b) + 1 /\ Len(pb) = Len(b) + 1
        /\ pb[1] = 0 /\ \A i \in 1 .. Len(b) : pb[i + 1] = b[i]
    <2>1. /\ DOMAIN pa = 1 .. Len(pa) /\ DOMAIN pb = 1 .. Len(pb)
      BY PrefixedKey, StringBytes
    <2> QED
      BY <2>1, PrefixedKey
  <1>3. pa = pb <=> a = b
    BY PrefixedKey
  <1> HIDE DEF pa, pb
  <1>4. ASSUME Less(a, b) PROVE Less(pa, pb)
    <2>1. CASE \E i \in DOMAIN a \intersect DOMAIN b :
                  a[i] < b[i] /\ \A j \in 1 .. i - 1 : a[j] = b[j]
      <3>1. PICK i \in DOMAIN a \intersect DOMAIN b :
                    a[i] < b[i] /\ \A j \in 1 .. i - 1 : a[j] = b[j]
        BY <2>1
      <3>2. i \in 1 .. Len(a) /\ i \in 1 .. Len(b) /\ i \in Nat
        BY <1>1
      <3>3. i + 1 \in DOMAIN pa \intersect DOMAIN pb /\ pa[i + 1] < pb[i + 1]
        BY <1>1, <1>2, <3>1, <3>2
      <3>4. ASSUME NEW j \in 1 .. (i + 1) - 1 PROVE pa[j] = pb[j]
        <4>1. CASE j = 1
          BY <1>2, <4>1
        <4>2. CASE j # 1
          <5>1. j - 1 \in 1 .. i - 1 /\ j - 1 \in 1 .. Len(a) /\ j - 1 \in 1 .. Len(b) /\ (j - 1) + 1 = j
            BY <1>1, <3>2, <4>2
          <5> QED
            BY <1>2, <3>1, <5>1
        <4> QED
          BY <4>1, <4>2
      <3> QED
        BY <3>3, <3>4 DEF Less
    <2>2. CASE Len(a) < Len(b) /\ \A j \in DOMAIN a : a[j] = b[j]
      <3>1. Len(pa) < Len(pb)
        BY <1>1, <1>2, <2>2
      <3>2. ASSUME NEW j \in DOMAIN pa PROVE pa[j] = pb[j]
        <4>1. CASE j = 1
          BY <1>2, <4>1
        <4>2. CASE j # 1
          <5>1. j - 1 \in 1 .. Len(a) /\ j - 1 \in 1 .. Len(b) /\ (j - 1) + 1 = j
            BY <1>1, <1>2, <2>2, <4>2
          <5> QED
            BY <1>1, <1>2, <2>2, <5>1
        <4> QED
          BY <4>1, <4>2
      <3> QED
        BY <3>1, <3>2 DEF Less
    <2> QED
      BY <1>4, <2>1, <2>2 DEF Less
  <1>5. ASSUME Less(pa, pb) PROVE Less(a, b)
    <2>1. CASE \E i \in DOMAIN pa \intersect DOMAIN pb :
                  pa[i] < pb[i] /\ \A j \in 1 .. i - 1 : pa[j] = pb[j]
      <3>1. PICK i \in DOMAIN pa \intersect DOMAIN pb :
                    pa[i] < pb[i] /\ \A j \in 1 .. i - 1 : pa[j] = pb[j]
        BY <2>1
      <3>2. i \in Nat /\ i >= 1 /\ i <= Len(a) + 1 /\ i <= Len(b) + 1
        BY <1>1, <1>2
      <3>3. i # 1
        BY <1>2, <3>1
      <3>4. i - 1 \in 1 .. Len(a) /\ i - 1 \in 1 .. Len(b) /\ (i - 1) + 1 = i
        BY <1>1, <3>2, <3>3
      <3>5. i - 1 \in DOMAIN a \intersect DOMAIN b /\ a[i - 1] < b[i - 1]
        BY <1>1, <1>2, <3>1, <3>4
      <3>6. ASSUME NEW j \in 1 .. (i - 1) - 1 PROVE a[j] = b[j]
        <4>1. j \in 1 .. Len(a) /\ j \in 1 .. Len(b) /\ j + 1 \in 1 .. i - 1
          BY <1>1, <3>2, <3>4
        <4> QED
          BY <1>2, <3>1, <4>1
      <3> QED
        BY <3>5, <3>6 DEF Less
    <2>2. CASE Len(pa) < Len(pb) /\ \A j \in DOMAIN pa : pa[j] = pb[j]
      <3>1. Len(a) < Len(b)
        BY <1>1, <1>2, <2>2
      <3>2. ASSUME NEW j \in DOMAIN a PROVE a[j] = b[j]
        <4>1. j \in 1 .. Len(a) /\ j \in 1 .. Len(b) /\ j + 1 \in DOMAIN pa
          BY <1>1, <1>2, <3>1
        <4> QED
          BY <1>2, <2>2, <4>1
      <3> QED
        BY <3>1, <3>2 DEF Less
    <2> QED
      BY <1>5, <2>1, <2>2 DEF Less
  <1>6. Less(pa, pb) <=> Less(a, b)
    BY <1>4, <1>5
  <1>7. AtMost(pa, pb) <=> AtMost(a, b)
    BY <1>3, <1>6 DEF AtMost
  <1> QED
    BY <1>6, <1>7 DEF pa, pb

\* A row that is not above one of the STATE bucket is in the bucket.
LEMMA NotAboveState ==
    ASSUME NEW k \in ByteString, k # <<>>, NEW a \in ByteString,
           AtMost(k, StatePrefix \o a)
    PROVE  k[1] = 0
  <1> DEFINE pa == StatePrefix \o a
  <1>1. DOMAIN pa = 1 .. Len(pa) /\ pa[1] = 0 /\ Len(pa) = Len(a) + 1 /\ Len(a) \in Nat
    BY PrefixedKey, StringBytes
  <1>2. DOMAIN k = 1 .. Len(k) /\ Len(k) \in Nat \ {0} /\ 0 <= k[1] /\ k[1] \in Int
    <2>1. Len(k) \in Nat \ {0}
      BY EmptySeq DEF ByteString
    <2> QED
      BY <2>1, StringBytes
  <1> HIDE DEF pa
  <1>3. CASE k = pa
    BY <1>1, <1>3
  <1>4. CASE \E i \in DOMAIN k \intersect DOMAIN pa :
                k[i] < pa[i] /\ \A j \in 1 .. i - 1 : k[j] = pa[j]
    <2>1. PICK i \in DOMAIN k \intersect DOMAIN pa :
                  k[i] < pa[i] /\ \A j \in 1 .. i - 1 : k[j] = pa[j]
      BY <1>4
    <2>2. i \in Nat /\ i >= 1 /\ i # 1
      BY <1>1, <1>2, <2>1
    <2>3. 1 \in 1 .. i - 1
      BY <2>2
    <2> QED
      BY <1>1, <2>1, <2>3
  <1>5. CASE Len(k) < Len(pa) /\ \A j \in DOMAIN k : k[j] = pa[j]
    <2>1. 1 \in DOMAIN k
      BY <1>2
    <2> QED
      BY <1>1, <1>5, <2>1
  <1> QED
    BY <1>3, <1>4, <1>5 DEF AtMost, Less, pa

\* A bucket holds as many keys as are put into it.
LEMMA InStateSize ==
    ASSUME NEW S \in SUBSET ByteString, IsFiniteSet(S)
    PROVE  /\ InState(S) \in SUBSET ByteString
           /\ IsFiniteSet(InState(S)) /\ Cardinality(InState(S)) = Cardinality(S)
  <1> DEFINE put == [k \in S |-> StatePrefix \o k]
  <1>1. InState(S) \in SUBSET ByteString
    BY PrefixedKey DEF InState
  <1>2. put \in [S -> InState(S)]
    BY DEF InState
  <1>3. \A j, k \in S : put[j] = put[k] => j = k
    <2> SUFFICES ASSUME NEW j \in S, NEW k \in S, put[j] = put[k] PROVE j = k
      OBVIOUS
    <2>1. StatePrefix \o j = StatePrefix \o k
      OBVIOUS
    <2>2. Tail(StatePrefix \o j) = j /\ Tail(StatePrefix \o k) = k
      BY PrefixedKey
    <2> QED
      BY <2>1, <2>2
  <1>4. \A s \in InState(S) : \E k \in S : put[k] = s
    BY DEF InState
  <1> HIDE DEF put
  <1>5. put \in Injection(S, InState(S)) /\ put \in Surjection(S, InState(S))
    BY <1>2, <1>3, <1>4, Fun_IsInj, Fun_IsSurj
  <1>6. ExistsBijection(S, InState(S))
    BY <1>5 DEF ExistsBijection, Bijection
  <1> QED
    BY <1>1, <1>6, FS_Bijection

\* The keys of a bucket are listed in the order of the keys put into it.
LEMMA OrderedInState ==
    ASSUME NEW S \in SUBSET ByteString, IsFiniteSet(S), NEW reverse \in BOOLEAN
    PROVE  /\ Ordered(InState(S), reverse) \in Seq(ByteString)
           /\ Len(Ordered(InState(S), reverse)) = Len(Ordered(S, reverse))
           /\ \A i \in 1 .. Len(Ordered(S, reverse)) :
                 Ordered(InState(S), reverse)[i] = StatePrefix \o Ordered(S, reverse)[i]
  <1> DEFINE n == Cardinality(S)
             W == Ordered(S, reverse)
             X == Ordered(InState(S), reverse)
  <1>1. /\ InState(S) \in SUBSET ByteString
        /\ IsFiniteSet(InState(S)) /\ Cardinality(InState(S)) = n /\ n \in Nat
    BY InStateSize, FS_CardinalityType
  <1>2. /\ W \in Seq(S) /\ Len(W) = n
        /\ \A i \in 1 .. n : W[i] \in S /\ Cardinality(EarlierKeys(S, W[i], reverse)) = i - 1
    BY OrderedProperties
  <1>3. /\ X \in Seq(InState(S)) /\ Len(X) = n
        /\ \A s \in InState(S) : \A i \in 1 .. n :
              Cardinality(EarlierKeys(InState(S), s, reverse)) = i - 1 => X[i] = s
    BY <1>1, OrderedProperties
  <1>4. ASSUME NEW k \in S
        PROVE  Cardinality(EarlierKeys(InState(S), StatePrefix \o k, reverse))
                  = Cardinality(EarlierKeys(S, k, reverse))
    <2>1. \A j \in S : Precedes(StatePrefix \o j, StatePrefix \o k, reverse) <=> Precedes(j, k, reverse)
      BY PrefixOrder DEF Precedes
    <2>2. EarlierKeys(InState(S), StatePrefix \o k, reverse)
             = {s \in InState(S) : Precedes(s, StatePrefix \o k, reverse)}
      BY DEF EarlierKeys, Precedes
    <2>3. EarlierKeys(S, k, reverse) = {j \in S : Precedes(j, k, reverse)}
      BY DEF EarlierKeys, Precedes
    <2>4. EarlierKeys(InState(S), StatePrefix \o k, reverse) = InState(EarlierKeys(S, k, reverse))
      BY <2>1, <2>2, <2>3 DEF InState
    <2>5. EarlierKeys(S, k, reverse) \in SUBSET S
      BY <2>3
    <2>6. EarlierKeys(S, k, reverse) \in SUBSET ByteString /\ IsFiniteSet(EarlierKeys(S, k, reverse))
      BY <2>5, FS_Subset
    <2> QED
      BY <2>4, <2>6, InStateSize
  <1> HIDE DEF W, X
  <1>5. \A i \in 1 .. n : X[i] = StatePrefix \o W[i]
    <2> SUFFICES ASSUME NEW i \in 1 .. n PROVE X[i] = StatePrefix \o W[i]
      OBVIOUS
    <2>1. W[i] \in S /\ StatePrefix \o W[i] \in InState(S)
      BY <1>2 DEF InState
    <2>2. Cardinality(EarlierKeys(InState(S), StatePrefix \o W[i], reverse)) = i - 1
      BY <1>2, <1>4, <2>1
    <2> QED
      BY <1>3, <2>1, <2>2
  <1>6. X \in Seq(ByteString)
    BY <1>1, <1>3, SeqMonotonic
  <1> QED
    BY <1>2, <1>3, <1>5, <1>6 DEF W, X

\* Dropping the prefix of every row and cutting the rows commute.
LEMMA WithoutPrefixOfCut ==
    ASSUME NEW rows \in Seq(ByteString), NEW keys \in Seq(ByteString), Len(rows) = Len(keys),
           \A i \in 1 .. Len(keys) : rows[i] = StatePrefix \o keys[i],
           NEW limit \in Int, limit >= -1
    PROVE  WithoutPrefix(Cut(rows, limit), TRUE) = Cut(keys, limit)
  <1>1. Len(keys) \in Nat /\ DOMAIN rows = 1 .. Len(keys) /\ DOMAIN keys = 1 .. Len(keys)
    BY LenProperties
  <1>2. \A i \in 1 .. Len(keys) : keys[i] \in ByteString /\ Tail(rows[i]) = keys[i]
    BY ElementOfSeq, PrefixedKey
  <1>3. \A s : WithoutPrefix(s, TRUE) = [i \in DOMAIN s |-> Tail(s[i])]
    BY DEF WithoutPrefix
  <1>4. CASE limit = -1 \/ limit > Len(keys)
    <2>1. Cut(rows, limit) = rows /\ Cut(keys, limit) = keys
      BY <1>4 DEF Cut
    <2>2. keys \in [1 .. Len(keys) -> ByteString]
      BY LenProperties
    <2>3. keys = [i \in 1 .. Len(keys) |-> keys[i]]
      BY <2>2
    <2>4. [i \in DOMAIN rows |-> Tail(rows[i])] = [i \in 1 .. Len(keys) |-> keys[i]]
      BY <1>1, <1>2
    <2> QED
      BY <1>3, <2>1, <2>3, <2>4
  <1>5. CASE ~(limit = -1 \/ limit > Len(keys))
    <2>1. limit \in 0 .. Len(keys) /\ limit \in 0 .. Len(rows)
      <3>1. \A n \in Nat : limit # -1 /\ ~(limit > n) => limit \in 0 .. n
        OBVIOUS
      <3> QED
        BY <1>1, <1>5, <3>1
    <2> DEFINE r == SubSeq(rows, 1, limit)
               s == SubSeq(keys, 1, limit)
    <2>2. Cut(rows, limit) = r /\ Cut(keys, limit) = s
      BY <1>5 DEF Cut
    <2>3. r \in Seq(ByteString) /\ Len(r) = limit /\ \A i \in 1 .. limit : r[i] = rows[i]
      BY <2>1, PrefixOfList
    <2>4. s \in Seq(ByteString) /\ Len(s) = limit /\ \A i \in 1 .. limit : s[i] = keys[i]
      BY <2>1, PrefixOfList
    <2> HIDE DEF r, s
    <2>5. DOMAIN r = 1 .. limit
      BY <2>3, LenProperties
    <2>6. \A i \in 1 .. limit : Tail(r[i]) = s[i]
      BY <1>1, <1>2, <2>1, <2>3, <2>4
    <2>7. s \in [1 .. limit -> ByteString]
      BY <2>4, LenProperties
    <2>8. s = [i \in 1 .. limit |-> s[i]]
      BY <2>7
    <2>9. [i \in DOMAIN r |-> Tail(r[i])] = [i \in 1 .. limit |-> s[i]]
      BY <2>5, <2>6
    <2> QED
      BY <1>3, <2>2, <2>8, <2>9
  <1> QED
    BY <1>4, <1>5

\* A walk of the STATE bucket that stops at a bound, or that starts at one
\* and goes down to the other, never leaves it; with both bounds it covers
\* the keys between them.
LEMMA WalkedInState ==
    ASSUME NEW present \in SUBSET ByteString, NEW others \in SUBSET ByteString,
           \A k \in others : k # <<>> /\ k[1] # 0,
           NEW opt \in Option
    PROVE  LET walked == Walked(InState(present) \union others, opt, TRUE)
           IN  /\ (IF opt.reverse THEN opt.gte # Undefined ELSE opt.lte # Undefined) =>
                      \A k \in walked : k[1] = 0
               /\ Bounded(opt) => walked = InState(Between(present, opt))
  <1> DEFINE raw == InState(present) \union others
             walked == Walked(raw, opt, TRUE)
  <1>1. \A key : KindKey(key, TRUE) = StatePrefix \o key
    BY DEF KindKey
  <1>2. ASSUME NEW k \in raw
        PROVE  k \in ByteString /\ k # <<>>
    <2>1. CASE k \in InState(present)
      <3>1. PICK a \in present : k = StatePrefix \o a
        BY <2>1 DEF InState
      <3> QED
        BY <3>1, PrefixedKey
    <2>2. CASE k \in others
      BY <2>2
    <2> QED
      BY <2>1, <2>2
  <1>3. walked \in SUBSET raw
    BY DEF Walked, IteratorKeys
  <1>4. ASSUME IF opt.reverse THEN opt.gte # Undefined ELSE opt.lte # Undefined, NEW k \in walked
        PROVE  k[1] = 0
    <2>1. k \in ByteString /\ k # <<>>
      BY <1>2, <1>3
    <2>2. ~NoRange(opt)
      BY <1>4 DEF NoRange
    <2>3. \E a \in ByteString : AtMost(k, StatePrefix \o a)
      <3>1. CASE opt.reverse
        BY <1>1, <2>2, <3>1, BoundTypes DEF Walked, IteratorKeys
      <3>2. CASE ~opt.reverse
        <4>1. opt.lte \in ByteString
          BY <1>4, <3>2 DEF Option
        <4>2. ~Less(StatePrefix \o opt.lte, k)
          BY <1>1, <1>4, <3>2 DEF Walked, PastEnd
        <4>3. AtMost(k, StatePrefix \o opt.lte)
          BY <2>1, <4>1, <4>2, PrefixedKey, NotLess
        <4> QED
          BY <4>1, <4>3
      <3> QED
        BY <3>1, <3>2
    <2> QED
      BY <2>1, <2>3, NotAboveState
  <1>5. ASSUME Bounded(opt)
        PROVE  walked = InState(Between(present, opt))
    <2>1. /\ opt.gte \in ByteString /\ opt.lte \in ByteString /\ ~NoRange(opt)
          /\ LowerBound(opt) = opt.gte /\ UpperBound(opt) = opt.lte
      BY <1>5 DEF Option, Bounded, NoRange, LowerBound, UpperBound
    <2>2. \A k \in raw : k \in walked <=>
              AtMost(StatePrefix \o opt.gte, k) /\ AtMost(k, StatePrefix \o opt.lte)
      <3> SUFFICES ASSUME NEW k \in raw
                   PROVE  k \in walked <=>
                            AtMost(StatePrefix \o opt.gte, k) /\ AtMost(k, StatePrefix \o opt.lte)
        OBVIOUS
      <3>1. /\ ~Less(k, StatePrefix \o opt.gte) <=> AtMost(StatePrefix \o opt.gte, k)
            /\ ~Less(StatePrefix \o opt.lte, k) <=> AtMost(k, StatePrefix \o opt.lte)
        BY <1>2, <2>1, PrefixedKey, NotLess
      <3>2. CASE opt.reverse
        <4>1. k \in IteratorKeys(raw, opt, TRUE) <=> AtMost(k, StatePrefix \o opt.lte)
          <5> HIDE DEF raw
          <5>1. IteratorKeys(raw, opt, TRUE) = {j \in raw : AtMost(j, KindKey(UpperBound(opt), TRUE))}
            BY <2>1, <3>2 DEF IteratorKeys
          <5> QED
            BY <1>1, <2>1, <5>1
        <4>2. PastEnd(opt, k, TRUE) <=> Less(k, StatePrefix \o opt.gte)
          BY <1>1, <1>5, <3>2 DEF PastEnd, Bounded
        <4> QED
          BY <3>1, <4>1, <4>2 DEF Walked
      <3>3. CASE ~opt.reverse
        <4>1. k \in IteratorKeys(raw, opt, TRUE) <=> AtMost(StatePrefix \o opt.gte, k)
          BY <1>1, <2>1, <3>3 DEF IteratorKeys
        <4>2. PastEnd(opt, k, TRUE) <=> Less(StatePrefix \o opt.lte, k)
          BY <1>1, <1>5, <3>3 DEF PastEnd, Bounded
        <4> QED
          BY <3>1, <4>1, <4>2 DEF Walked
      <3> QED
        BY <3>2, <3>3
    <2>3. \A k \in others : ~AtMost(k, StatePrefix \o opt.lte)
      BY <2>1, NotAboveState
    <2>4. \A k \in present : /\ AtMost(StatePrefix \o opt.gte, StatePrefix \o k) <=> AtMost(opt.gte, k)
                            /\ AtMost(StatePrefix \o k, StatePrefix \o opt.lte) <=> AtMost(k, opt.lte)
      BY <2>1, PrefixOrder
    <2>5. \A k \in present : k \in Between(present, opt) <=> AtMost(opt.gte, k) /\ AtMost(k, opt.lte)
      BY <1>5 DEF Between, Bounded
    <2>6. Between(present, opt) \in SUBSET present
      BY DEF Between
    <2>7. ASSUME NEW k \in walked
          PROVE  k \in InState(Between(present, opt))
      <3>1. k \in raw /\ AtMost(StatePrefix \o opt.gte, k) /\ AtMost(k, StatePrefix \o opt.lte)
        BY <1>3, <2>2
      <3>2. k \in InState(present)
        BY <2>3, <3>1
      <3>3. PICK a \in present : k = StatePrefix \o a
        BY <3>2 DEF InState
      <3>4. a \in Between(present, opt)
        <4>1. AtMost(StatePrefix \o opt.gte, StatePrefix \o a)
          BY <3>1, <3>3
        <4>2. AtMost(StatePrefix \o a, StatePrefix \o opt.lte)
          BY <3>1, <3>3
        <4>3. AtMost(opt.gte, a) /\ AtMost(a, opt.lte)
          BY <2>1, <4>1, <4>2, PrefixOrder
        <4> QED
          BY <2>5, <4>3
      <3> QED
        BY <3>3, <3>4 DEF InState
    <2>8. ASSUME NEW k \in InState(Between(present, opt))
          PROVE  k \in walked
      <3>1. PICK a \in Between(present, opt) : k = StatePrefix \o a
        BY <2>8 DEF InState
      <3>2. a \in present /\ k \in raw
        BY <2>6, <3>1 DEF InState
      <3>3. AtMost(StatePrefix \o opt.gte, k) /\ AtMost(k, StatePrefix \o opt.lte)
        BY <2>4, <2>5, <3>1, <3>2
      <3> QED
        BY <2>2, <3>2, <3>3
    <2> HIDE DEF walked
    <2> QED
      BY <2>7, <2>8
  <1> QED
    BY <1>4, <1>5

============================================================================
