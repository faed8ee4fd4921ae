--------------------------- MODULE StandardCodec ---------------------------
(***************************************************************************)
(* The two decoders and the second encoder of the standard message codec:  *)
(* message_read (standard_message_codec.c) and the std values of           *)
(* platform_channel.c, with the format itself, Dart's StandardMessageCodec,*)
(* as the reference.                                                       *)
(*                                                                         *)
(* As in MessageBuilder a value is written as the sequence of its parts,   *)
(* each a record of tag, data and count, members after their collection.   *)
(***************************************************************************)
EXTENDS MessageBuilder

kStdLargeInt == 5
kStdUInt8Array == 8
kStdInt32Array == 9
kStdInt64Array == 10
kStdFloat64Array == 11

Part(tag, data, count) == [tag |-> tag, data |-> data, count |-> count]

Plain == {kValueNull, kValueTrue, kValueFalse}
Strings == {kValueString, kStdLargeInt}
Arrays == {kStdUInt8Array, kStdInt32Array, kStdInt64Array, kStdFloat64Array}
Collections == {kValueList, kValueMap}

\* The bytes of a number, or of an element of an array.
Width(tag) ==
  CASE tag \in {kValueInt32, kStdInt32Array} -> 4
    [] tag \in {kValueInt64, kValueFloat64, kStdInt64Array, kStdFloat64Array} -> 8
    [] OTHER -> 1

\* Doubles and elements of arrays are stored at multiples of their size.
Alignment(tag) ==
  IF tag \in Arrays \cup {kValueFloat64} THEN Width(tag) ELSE 1

\* The number that is written as the length of a part, of those that have one.
Count(p) == IF p.tag \in Collections THEN p.count ELSE Len(p.data) \div Width(p.tag)
Counted == Strings \cup Arrays \cup Collections

\* The parts of values: what a tag says of the size of the data.
Parts ==
  {p \in [tag : 0..13, data : Seq(Byte), count : Nat] :
     /\ p.tag \in Plain \cup Collections => p.data = << >>
     /\ p.tag \in {kValueInt32, kValueInt64, kValueFloat64} => Len(p.data) = Width(p.tag)
     /\ p.tag \in Arrays => Len(p.data) % Width(p.tag) = 0
     /\ p.tag \notin Collections => p.count = 0}

\* How many values follow as members.
Members(p) ==
  CASE p.tag = kValueList -> p.count
    [] p.tag = kValueMap -> 2 * p.count
    [] OTHER -> 0

-----------------------------------------------------------------------------
(* The reference: what Dart writes for a value, and the only bytes it reads *)
(* as that value.                                                           *)

LengthImage(n) ==
  IF n < 254 THEN <<n>> ELSE IF n <= 65535 THEN <<254>> \o LE16(n) ELSE <<255>> \o LE32(n)

PartImage(bytes, p) ==
  LET tagged == bytes \o <<p.tag>>
      sized == IF p.tag \in Counted THEN tagged \o LengthImage(Count(p)) ELSE tagged
  IN sized \o Padding(Len(sized), Alignment(p.tag)) \o p.data

Image(start, parts) ==
  LET image[i \in 0..Len(parts)] ==
        IF i = 0 THEN start ELSE PartImage(image[i - 1], parts[i])
  IN image[Len(parts)]

-----------------------------------------------------------------------------
(* message_read.  A result is ok or not, the offset behind what was read,  *)
(* and what was read.                                                      *)

Failed == [ok |-> FALSE, offset |-> 0, length |-> 0]

\* Lengths that fit in the 32 bits of the longest image.
Sized(n) == n \in Nat /\ n \div 65536 <= 65535

Number16(b, i) == b[i + 1] + 256 * b[i + 2]
Number32(b, i) == b[i + 1] + 256 * b[i + 2] + 65536 * b[i + 3] + 16777216 * b[i + 4]

READ_LENGTH(bytes, offset) ==
  LET left == Len(bytes) - offset
      first == bytes[offset + 1]
      escaped == IF first = 255 THEN 4 ELSE IF first = 254 THEN 2 ELSE 0
  IN IF left < 1 \/ left - 1 < escaped THEN Failed
     ELSE [ok |-> TRUE, offset |-> offset + 1 + escaped,
           length |-> IF first = 255 THEN Number32(bytes, offset + 1)
                      ELSE IF first = 254 THEN Number16(bytes, offset + 1) ELSE first]

Slice(bytes, offset, n) == SubSeq(bytes, offset + 1, offset + n)

\* A struct dart_value: the type, the bytes of a number or a string, the
\* length of a list, and how many values were read into it.
DartValue(type, data, length, members) ==
  [type |-> type, data |-> data, length |-> length, members |-> members]

NoValue == DartValue("dvNull", << >>, 0, 0)
Unread == [ok |-> FALSE, offset |-> 0, value |-> NoValue]
Read(offset, value) == [ok |-> TRUE, offset |-> offset, value |-> value]

\* One call of message_read, without the calls for the members.  An int32 is
\* read as unsigned, and the value of a map has the type and the length of a
\* list of half its members.
ReadOne(bytes, start) ==
  LET tag == bytes[start + 1]
      offset == start + 1
      sized == READ_LENGTH(bytes, offset)
      aligned == offset + PadSize(offset, 8)
  IN
  IF Len(bytes) - start < 1 THEN Unread
  ELSE CASE
     tag = kValueNull -> Read(offset, NoValue)
  [] tag \in {kValueTrue, kValueFalse} ->
       Read(offset, DartValue("dvBool", <<IF tag = kValueTrue THEN 1 ELSE 0>>, 0, 0))
  [] tag = kValueInt32 ->
       IF Len(bytes) - offset < 4 THEN Unread
       ELSE Read(offset + 4,
                 DartValue("dvInteger", Slice(bytes, offset, 4) \o <<0, 0, 0, 0>>, 0, 0))
  [] tag = kValueInt64 ->
       IF Len(bytes) - offset < 8 THEN Unread
       ELSE Read(offset + 8, DartValue("dvInteger", Slice(bytes, offset, 8), 0, 0))
  [] tag = kValueFloat64 ->
       IF Len(bytes) - aligned < 8 THEN Unread
       ELSE Read(aligned + 8, DartValue("dvFloat64", Slice(bytes, aligned, 8), 0, 0))
  [] tag = kValueString ->
       IF ~sized.ok \/ Len(bytes) - sized.offset < sized.length THEN Unread
       ELSE Read(sized.offset + sized.length,
                 DartValue("dvString", Slice(bytes, sized.offset, sized.length), 0, 0))
  [] tag \in Collections ->
       IF ~sized.ok THEN Unread
       ELSE Read(sized.offset,
                 DartValue("dvList", << >>, sized.length,
                           IF tag = kValueMap THEN 2 * sized.length ELSE sized.length))
  [] OTHER -> Unread

\* The recursion of message_read over the members: what is known after each
\* value, and how many are pending.  It fails as soon as one fails.
Reading(offset) == [ok |-> TRUE, offset |-> offset, pending |-> 1, values |-> << >>]
Finished(r) == r.pending = 0 \/ ~r.ok

ReadNext(bytes, r) ==
  LET one == ReadOne(bytes, r.offset)
  IN IF Finished(r) THEN r
     ELSE IF ~one.ok THEN [r EXCEPT !.ok = FALSE]
     ELSE [ok |-> TRUE, offset |-> one.offset, pending |-> r.pending - 1 + one.value.members,
           values |-> Append(r.values, one.value)]

\* Every value has a byte at least.
message_read(bytes, offset) ==
  LET read[i \in 0..Len(bytes) + 1] ==
        IF i = 0 THEN Reading(offset) ELSE ReadNext(bytes, read[i - 1])
  IN read[CHOOSE i \in 0..Len(bytes) + 1 : Finished(read[i])]

-----------------------------------------------------------------------------
(* The std values of platform_channel.c.                                   *)

advance_size_bytes(size, n) ==
  IF n < 254 THEN size + 1 ELSE IF n <= 65535 THEN size + 3 ELSE size + 5

align(size, alignment) == size + PadSize(size, alignment)

\* Mutant: the padding of an array is counted before its length.
SizeWithAlignsFirst(size, p) ==
  LET aligned == align(size + 1, Alignment(p.tag))
  IN (IF p.tag \in Counted THEN advance_size_bytes(aligned, Count(p)) ELSE aligned) + Len(p.data)

SizeWith(size, p) ==
  LET sized == IF p.tag \in Counted THEN advance_size_bytes(size + 1, Count(p)) ELSE size + 1
  IN align(sized, Alignment(p.tag)) + Len(p.data)

\* The size after adding a value, a collection's members included.
platch_calc_value_size_std(size, value) ==
  LET sum[i \in 0..Len(value)] == IF i = 0 THEN size ELSE SizeWith(sum[i - 1], value[i])
  IN sum[Len(value)]

\* Mutant: a length is one byte.
writeSizeOneByte(bytes, n) == bytes \o <<n>>

writeSize(bytes, n) ==
  IF n < 254 THEN bytes \o <<n>>
  ELSE IF n <= 65535 THEN bytes \o <<254>> \o LE16(n)
  ELSE bytes \o <<255>> \o LE32(n)

WriteWith(bytes, p) ==
  LET tagged == bytes \o <<p.tag>>
      sized == IF p.tag \in Counted THEN writeSize(tagged, Count(p)) ELSE tagged
  IN sized \o Padding(Len(sized), Alignment(p.tag)) \o p.data

platch_write_value_to_buffer_std(bytes, value) ==
  LET buf[i \in 0..Len(value)] == IF i = 0 THEN bytes ELSE WriteWith(buf[i - 1], value[i])
  IN buf[Len(value)]

\* platch_encode of a response: what is allocated, and what is written.  The
\* values are the result, or the code, the message and the details of an error.
platch_encode(success, values) ==
  [size |-> platch_calc_value_size_std(1, values),
   bytes |-> platch_write_value_to_buffer_std(<<IF success THEN 0 ELSE 1>>, values)]

\* One value of platch_decode_value_std, without its members.
DecodeOne(bytes, start) ==
  LET tag == bytes[start + 1]
      sized == READ_LENGTH(bytes, start + 1)
      at == align(IF tag \in Counted THEN sized.offset ELSE start + 1, Alignment(tag))
      size == IF tag \in Plain \cup Collections THEN 0
              ELSE IF tag \in Counted THEN sized.length * Width(tag) ELSE Width(tag)
      Bad == [ok |-> FALSE, offset |-> 0, value |-> Part(kValueNull, << >>, 0)]
  IN
  IF \/ Len(bytes) - start < 1
     \/ tag \notin 0..13
     \/ tag \in Counted /\ ~sized.ok
     \/ Len(bytes) < at + size
    THEN Bad
    ELSE [ok |-> TRUE, offset |-> at + size,
          value |-> Part(tag, Slice(bytes, at, size),
                         IF tag \in Collections THEN sized.length ELSE 0)]

DecodeNext(bytes, r) ==
  LET one == DecodeOne(bytes, r.offset)
  IN IF Finished(r) THEN r
     ELSE IF ~one.ok THEN [r EXCEPT !.ok = FALSE]
     ELSE [ok |-> TRUE, offset |-> one.offset, pending |-> r.pending - 1 + Members(one.value),
           values |-> Append(r.values, one.value)]

platch_decode_value_std(bytes, offset) ==
  LET decoded[i \in 0..Len(bytes) + 1] ==
        IF i = 0 THEN Reading(offset) ELSE DecodeNext(bytes, decoded[i - 1])
  IN decoded[CHOOSE i \in 0..Len(bytes) + 1 : Finished(decoded[i])]

\* stdmap_get_str: the string under the first key that equals `key`, of a map
\* without collections in it; << >> when there is none.
stdmap_get_str(map, key) ==
  LET hits == {i \in 1..map[1].count : map[2 * i] = Part(kValueString, key, 0)}
      first == CHOOSE i \in hits : \A j \in hits : i <= j
  IN IF hits = {} THEN << >> ELSE <<map[2 * first + 1]>>
=============================================================================
