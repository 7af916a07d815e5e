----------------------------- MODULE DiffCodec ------------------------------
(***************************************************************************)
(* A diff as the bytes that are kept under its version in DIFF (diff.rs    *)
(* over codec.rs).  The other modules keep the diff itself; this one shows *)
(* that they may.                                                          *)
(***************************************************************************)
EXTENDS ReadWriter, Codec

CONSTANT Payloads   \* the bytes a key or a value can be

----------------------------------------------------------------------------

EncodePair(pair) == WriteBytes(1, pair.key) \o WriteBytes(2, pair.value)

\* A cache is finite, and a length is a u32.
ASSUME DiffCodecAssumption ==
    /\ IsFiniteSet(Keys)
    /\ Payloads \subseteq Seq(Bytes)
    /\ \A field \in 1 .. 3 : field * 8 + 2 < Readable
    /\ \A key \in Payloads, value \in Payloads :
          /\ Len(key) < Readable /\ Len(value) < Readable
          /\ Len(EncodePair([key |-> key, value |-> value])) < Readable

\* unwrap: what cannot be decoded is a panic.
DecodePair(data) ==
    LET Pair(key, value) == IF key.status = "ok" /\ value.status = "ok"
                            THEN [key |-> key.value, value |-> value.value] ELSE "panic"
        WithKey(key) == Pair(key, ReadBytes(data, key.index, 2))
    IN  WithKey(ReadBytes(data, 0, 1))

EncodeDiff(diff) ==
    WriteBytesSlice(1, diff.created)
        \o WriteBytesSlice(2, [i \in DOMAIN diff.updated |-> EncodePair(diff.updated[i])])
        \o WriteBytesSlice(3, [i \in DOMAIN diff.deleted |-> EncodePair(diff.deleted[i])])

DecodePairs(items) == [i \in DOMAIN items |-> DecodePair(items[i])]

DecodeDiff(data) ==
    LET Diffs(created, updated, deleted) ==
            IF created.status = "ok" /\ updated.status = "ok" /\ deleted.status = "ok"
            THEN [created |-> created.value, updated |-> DecodePairs(updated.value),
                  deleted |-> DecodePairs(deleted.value)]
            ELSE "failed"
        WithUpdated(created, updated) == Diffs(created, updated, ReadBytesSlice(data, updated.index, 3))
        WithCreated(created) == WithUpdated(created, ReadBytesSlice(data, created.index, 2))
    IN  WithCreated(ReadBytesSlice(data, 0, 1))

\* The lists of a diff, in some order, when keys and values are these bytes.
ListsOf(diff, keyBytes, valueBytes) ==
    LET Listed(map) ==
            LET keys == Lists!SetToSeq({k \in Keys : map[k] # None})
            IN  [i \in DOMAIN keys |-> [key |-> keyBytes[keys[i]], value |-> valueBytes[map[keys[i]]]]]
        created == Lists!SetToSeq(diff.created)
    IN  [created |-> [i \in DOMAIN created |-> keyBytes[created[i]]],
         updated |-> Listed(diff.updated),
         deleted |-> Listed(diff.deleted)]

----------------------------------------------------------------------------

\* Between two calls of a writer that has taken no snapshot; a snapshot
\* brings back no cache that is not reached this way.
Quiet == replies = <<>> /\ queue = <<>> /\ counter = 0

\* What is decoded from DIFF is the diff that was encoded, whatever bytes
\* keys and values are: empty ones, ones as long as a varint byte counts,
\* lists that are empty before lists that are not.
DiffSurvivesCodec ==
    Quiet =>
        \A keyBytes \in Lists!Injection(Keys, Payloads), valueBytes \in [Values -> Payloads] :
            LET RoundTrip(diff) == DecodeDiff(EncodeDiff(diff)) = diff
            IN  RoundTrip(ListsOf(CommitDiff(cache), keyBytes, valueBytes))

============================================================================
