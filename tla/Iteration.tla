----------------------------- MODULE Iteration ------------------------------
(***************************************************************************)
(* Iteration over an ordered set of byte strings: where RocksDB is told to *)
(* start (get_iteration_mode), where the handlers stop (is_key_out_of_-    *)
(* range), with and without the prefix of the STATE bucket, and the same   *)
(* question answered by the in-memory database (get_key_value_pairs).      *)
(*                                                                         *)
(* An option record is what getOptionsWithDefault hands to Rust: limit -1  *)
(* stands for no limit, a bound may be Undefined.                          *)
(***************************************************************************)
EXTENDS Integers, Sequences, FiniteSets

CONSTANTS
    MaxByte,        \* the largest byte, 255 in the code
    Undefined       \* a bound that was left out

ASSUME MaxByteAssumption == MaxByte \in Nat

Bytes == 0 .. MaxByte

ByteString == Seq(Bytes)

Option == [gte : ByteString \union {Undefined}, lte : ByteString \union {Undefined},
           limit : Int, reverse : BOOLEAN]

\* Prefix::STATE, the bucket of the user's keys; SMT, DIFF and
\* CURRENT_STATE follow it as <<1>>, <<2>> and <<3>>.
StatePrefix == <<0>>

----------------------------------------------------------------------------
(* The order of byte strings.                                              *)

\* compare: the first byte that differs decides, then the length.
Less(a, b) ==
    \/ \E i \in DOMAIN a \intersect DOMAIN b :
          a[i] < b[i] /\ \A j \in 1 .. i - 1 : a[j] = b[j]
    \/ Len(a) < Len(b) /\ \A j \in DOMAIN a : a[j] = b[j]

AtMost(a, b) == a = b \/ Less(a, b)

\* The members of S in the order of the iteration.
Ordered(S, reverse) ==
    [i \in 1 .. Cardinality(S) |->
        CHOOSE k \in S :
            Cardinality({j \in S : IF reverse THEN Less(k, j) ELSE Less(j, k)}) = i - 1]

----------------------------------------------------------------------------
(* RocksDB and the handlers that walk it.                                  *)

\* Kind::key, and the same concatenation for the bounds of an iteration.
KindKey(key, hasPrefix) == IF hasPrefix THEN StatePrefix \o key ELSE key

\* vec![byte; key.len()]
Filled(byte, key) == [i \in 1 .. Len(key) |-> byte]

NoRange(opt) == opt.gte = Undefined /\ opt.lte = Undefined

LowerBound(opt) == IF opt.gte = Undefined THEN Filled(0, opt.lte) ELSE opt.gte

UpperBound(opt) == IF opt.lte = Undefined THEN Filled(MaxByte, opt.gte) ELSE opt.lte

\* The keys of an iterator opened with the mode of get_iteration_mode:
\* Start, End, or From a bound in one direction, to the end of the database.
IteratorKeys(present, opt, hasPrefix) ==
    IF NoRange(opt)
    THEN present
    ELSE IF opt.reverse
         THEN {k \in present : AtMost(k, KindKey(UpperBound(opt), hasPrefix))}
         ELSE {k \in present : AtMost(KindKey(LowerBound(opt), hasPrefix), k)}

\* Mutant: the upper bound itself is out of range.
OutOfRangeStrict(opt, key, counter, hasPrefix) ==
    \/ opt.limit # -1 /\ counter >= opt.limit
    \/ opt.reverse /\ opt.gte # Undefined /\ Less(key, KindKey(opt.gte, hasPrefix))
    \/ ~opt.reverse /\ opt.lte # Undefined /\ AtMost(KindKey(opt.lte, hasPrefix), key)

\* Mutant: the bounds are compared without the prefix.
OutOfRangeUnprefixed(opt, key, counter, hasPrefix) ==
    \/ opt.limit # -1 /\ counter >= opt.limit
    \/ opt.reverse /\ opt.gte # Undefined /\ Less(key, opt.gte)
    \/ ~opt.reverse /\ opt.lte # Undefined /\ Less(opt.lte, key)

\* Mutant: a walk looks at the bound it came from.
OutOfRangeBehind(opt, key, counter, hasPrefix) ==
    \/ opt.limit # -1 /\ counter >= opt.limit
    \/ ~opt.reverse /\ opt.gte # Undefined /\ Less(key, KindKey(opt.gte, hasPrefix))
    \/ opt.reverse /\ opt.lte # Undefined /\ Less(KindKey(opt.lte, hasPrefix), key)

\* is_key_out_of_range: only the bound in the direction of the walk is looked at.
IsKeyOutOfRange(opt, key, counter, hasPrefix) ==
    \/ opt.limit # -1 /\ counter >= opt.limit
    \/ opt.reverse /\ opt.gte # Undefined /\ Less(key, KindKey(opt.gte, hasPrefix))
    \/ ~opt.reverse /\ opt.lte # Undefined /\ Less(KindKey(opt.lte, hasPrefix), key)

\* The loop of js_iterate: rows up to the first key that is out of range.
Scan(present, opt, hasPrefix) ==
    LET walk == Ordered(IteratorKeys(present, opt, hasPrefix), opt.reverse)
        inside == {n \in 0 .. Len(walk) :
                      \A i \in 1 .. n : ~IsKeyOutOfRange(opt, walk[i], i - 1, hasPrefix)}
    IN  SubSeq(walk, 1, CHOOSE n \in inside : \A m \in inside : m <= n)

\* What the caller of a state database sees: split_first drops the first
\* byte of every row, whichever bucket the row is in.
WithoutPrefix(rows, hasPrefix) ==
    IF hasPrefix THEN [i \in DOMAIN rows |-> Tail(rows[i])] ELSE rows

----------------------------------------------------------------------------
(* The in-memory database.                                                 *)

\* Mutant: the upper bound is forgotten.
CacheRangeFrom(present, start, end) == {k \in present : AtMost(start, k)}

CacheRange(present, start, end) == {k \in present : AtMost(start, k) /\ AtMost(k, end)}

\* Mutant: the rows are cut before they are sorted in reverse.
PairsCutFirst(present, opt) ==
    LET cached == IF NoRange(opt) THEN present
                  ELSE CacheRange(present, LowerBound(opt), UpperBound(opt))
        sorted == Ordered(cached, FALSE)
        cut == IF opt.limit >= 0 /\ Len(sorted) > opt.limit THEN SubSeq(sorted, 1, opt.limit) ELSE sorted
    IN  IF opt.reverse THEN [i \in DOMAIN cut |-> cut[Len(cut) + 1 - i]] ELSE cut

\* get_key_value_pairs: filter, sort, cut.  "limit as usize" makes a
\* negative limit larger than any length.
GetKeyValuePairs(present, opt) ==
    LET cached == IF NoRange(opt) THEN present
                  ELSE CacheRange(present, LowerBound(opt), UpperBound(opt))
        sorted == Ordered(cached, opt.reverse)
    IN  IF opt.limit >= 0 /\ Len(sorted) > opt.limit THEN SubSeq(sorted, 1, opt.limit) ELSE sorted

----------------------------------------------------------------------------
(* What an iteration owes its caller.                                      *)

Between(present, opt) ==
    {k \in present : /\ opt.gte # Undefined => AtMost(opt.gte, k)
                     /\ opt.lte # Undefined => AtMost(k, opt.lte)}

\* The rows between the bounds, in order, no more than the limit.
ExpectedRows(present, opt) ==
    LET sorted == Ordered(Between(present, opt), opt.reverse)
    IN  IF opt.limit = -1 \/ opt.limit > Len(sorted) THEN sorted ELSE SubSeq(sorted, 1, opt.limit)

Bounded(opt) == opt.gte # Undefined /\ opt.lte # Undefined

============================================================================
