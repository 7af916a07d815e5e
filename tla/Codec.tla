------------------------------- MODULE Codec --------------------------------
(***************************************************************************)
(* The part of lisk-codec that codec.rs has: fields of bytes, each behind  *)
(* a key and a length, both varints.                                       *)
(*                                                                         *)
(* A varint byte holds a digit below Group, plus Group when another byte   *)
(* follows.  Group is 128 in the code; a small Group brings the boundary   *)
(* of one, two and three bytes down to lengths that can be enumerated.     *)
(*                                                                         *)
(* A reader is the bytes and the number of bytes read.  Every operation    *)
(* answers with its status: an error is returned, a panic is not caught.   *)
(***************************************************************************)
EXTENDS Integers, Sequences

Lists == INSTANCE SequencesExt

CONSTANTS
    Group,          \* 2^7
    MaxGroups,      \* bytes of the longest varint that is read: 5
    LastMax         \* the largest value of its last byte: 0x0f

ASSUME CodecAssumption ==
    /\ Group \in Nat /\ Group > 1
    /\ MaxGroups \in Nat /\ MaxGroups > 0
    /\ LastMax \in 0 .. Group - 1

Bytes == 0 .. 2 * Group - 1

\* What a shift by n groups multiplies by.
Place[n \in 0 .. MaxGroups] == IF n = 0 THEN 1 ELSE Group * Place[n - 1]

\* A varint can be read back when its value is below this: 2^32.
Readable == (LastMax + 1) * Place[MaxGroups - 1]

----------------------------------------------------------------------------
(* Varints.                                                                *)

\* Mutant: while value > 0x80.
VarintSizeStrict(value) ==
    CHOOSE n \in 1 .. MaxGroups : value <= Place[n] /\ (n > 1 => value > Place[n - 1])

\* while value > 0x7f
VarintSize(value) ==
    CHOOSE n \in 1 .. MaxGroups : value < Place[n] /\ (n > 1 => value >= Place[n - 1])

WriteVarint(value) ==
    LET size == VarintSize(value)
    IN  [i \in 1 .. size |->
            ((value \div Place[i - 1]) % Group) + (IF i < size THEN Group ELSE 0)]

\* The value of the first n digits after index.
Digits(data, index, n) ==
    LET value[i \in 0 .. n] ==
            IF i = 0 THEN 0 ELSE value[i - 1] + (data[index + i] % Group) * Place[i - 1]
    IN  value[n]

Answered(status, value, index) == [status |-> status, value |-> value, index |-> index]

\* Bytes run out, the last byte is too large, or no byte ends the varint.
ReadVarint(data, index) ==
    LET Sized(size) ==
            IF size > MaxGroups \/ (size = MaxGroups /\ data[index + size] > LastMax)
            THEN Answered("error", 0, index)
            ELSE Answered("ok", Digits(data, index, size), index + size)
    IN  Sized(Lists!Min({n \in 1 .. MaxGroups : index + n <= Len(data) /\ data[index + n] < Group}
                            \union {MaxGroups + 1}))

----------------------------------------------------------------------------
(* Writer.                                                                 *)

\* A key is field_number << 3 | wire_type, and bytes have wire type 2.
WriteKey(field) == WriteVarint(field * 8 + 2)

WriteBytes(field, value) == WriteKey(field) \o WriteVarint(Len(value)) \o value

WriteBytesSlice(field, values) == Lists!FlattenSeq([i \in DOMAIN values |-> WriteBytes(field, values[i])])

----------------------------------------------------------------------------
(* Reader.                                                                 *)

\* Is the next field the wanted one?  Its key is consumed only then.
Field(key, index, field) ==
    IF key.status # "ok" \/ key.value % 8 \notin {0, 2}
    THEN Answered("error", 0, index)
    ELSE IF key.value \div 8 # field THEN Answered("absent", 0, index)
    ELSE Answered("ok", 0, key.index)

Check(data, index, field) ==
    IF index >= Len(data) THEN Answered("absent", 0, index)
                          ELSE Field(ReadVarint(data, index), index, field)

\* The length is compared with all of the data, not with what is left of
\* it, so that the slice can still panic.
ReadOnlyBytes(data, index) ==
    LET Sized(size) ==
            IF size.status # "ok" \/ size.value > Len(data) THEN Answered("error", <<>>, index)
            ELSE IF size.index + size.value > Len(data) THEN Answered("panic", <<>>, index)
            ELSE Answered("ok", SubSeq(data, size.index + 1, size.index + size.value),
                          size.index + size.value)
    IN  Sized(ReadVarint(data, index))

\* check, then read_only_bytes when the field is there.
ReadItem(data, index, field) ==
    LET Checked(next) ==
            IF next.status = "ok" THEN ReadOnlyBytes(data, next.index)
                                  ELSE Answered(next.status, <<>>, next.index)
    IN  Checked(Check(data, index, field))

OrEmpty(item) == IF item.status = "absent" THEN [item EXCEPT !.status = "ok"] ELSE item

\* A field that is not there is empty bytes.
ReadBytes(data, index, field) == OrEmpty(ReadItem(data, index, field))

\* Fields with one number, up to another number or the end of the data.
ReadBytesSlice(data, index, field) ==
    LET Joined(item, rest) == [rest EXCEPT !.value = <<item.value>> \o @]
        slice[i \in 0 .. Len(data)] ==
            LET From(item) == IF item.status = "ok" THEN Joined(item, slice[item.index])
                                                    ELSE OrEmpty(item)
            IN  From(ReadItem(data, i, field))
    IN  slice[index]

============================================================================
