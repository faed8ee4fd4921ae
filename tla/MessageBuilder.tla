-------------------------- MODULE MessageBuilder --------------------------
(***************************************************************************)
(* The builder of the messages the compositor sends to Dart                *)
(* (standard_message_codec.c): a buffer that grows, and one push for each  *)
(* value of the message.                                                   *)
(*                                                                         *)
(* A message is the sequence of its values in the order they are pushed; a *)
(* map or a list is followed by its members.  Such a value is a record:    *)
(* its tag, its data (the bytes of a number or of a string) and, of a map  *)
(* or a list, the number of members it announces.                          *)
(***************************************************************************)
EXTENDS Integers, Sequences

CONSTANTS
  Int64s,      \* the images in memory of the integers that are pushed
  Doubles,     \* the images of the doubles
  Names,       \* the method names and keys, which the source spells out
  Texts,       \* the strings that come from clients and hardware
  Sizes,       \* the numbers of members of maps and lists
  Garbage,     \* what four bytes of fresh memory may hold
  MaxValues    \* bound on the values of a message

Byte == 0..255

\* A name is shorter than 254 bytes: each is a literal of the source.
ASSUME BuilderAssumption ==
  /\ Int64s \subseteq [1..8 -> Byte] /\ Doubles \subseteq [1..8 -> Byte]
  /\ Names \subseteq Seq(Byte) /\ \A s \in Names : Len(s) \in 1..253
  /\ Texts \subseteq Seq(Byte)
  /\ Sizes \subseteq Nat
  /\ Garbage \subseteq [1..4 -> Byte]
  /\ MaxValues \in Nat

kValueNull == 0
kValueTrue == 1
kValueFalse == 2
kValueInt32 == 3
kValueInt64 == 4
kValueFloat64 == 6
kValueString == 7
kValueList == 12
kValueMap == 13

VARIABLES
  buffer,      \* state->buffer up to state->buffer_len
  capacity,    \* state->buffer_capacity
  segments,    \* the segments that are open, outermost first
  sent,        \* history: the values pushed
  stage        \* "none", "open" or "finished"

builderVars == <<buffer, capacity, segments, sent, stage>>

-----------------------------------------------------------------------------
(* The macros and helpers.                                                 *)

max(a, b) == IF a < b THEN b ELSE a

growth_strategy(current, required) == max(max(current * 2, required), 32)

reserve(required) ==
  IF capacity - Len(buffer) < required
    THEN growth_strategy(capacity, Len(buffer) + required)
    ELSE capacity

LengthSize(n) == IF n > 65535 THEN 5 ELSE IF n >= 254 THEN 3 ELSE 1

LE16(n) == <<n % 256, (n \div 256) % 256>>
LE32(n) == <<n % 256, (n \div 256) % 256, (n \div 65536) % 256, (n \div 16777216) % 256>>

\* Mutant: the length is not stored.
WithoutStart(bytes, start) == bytes

\* What is stored through buffer[0] lands on the first bytes of the message.
WithStart(bytes, start) ==
  [i \in 1..Len(bytes) |-> IF i \in 1..Len(start) THEN start[i] ELSE bytes[i]]

\* The buffer `bytes` after WRITE_SIZE_LEN.  A length of 254 and more is
\* stored at the start of the message; the bytes after the escape, where it
\* belongs, keep what the memory held.
WithLength(bytes, n, garbage) ==
  IF n > 65535
    THEN WithStart(bytes \o <<255>>, LE32(n)) \o garbage
  ELSE IF n >= 254
    THEN WithStart(bytes \o <<254>>, LE16(n)) \o <<garbage[1], garbage[2]>>
  ELSE bytes \o <<n>>

PadSize(n, to) == (to - (n % to)) % to
Padding(n, to) == [i \in 1..PadSize(n, to) |-> 0]

\* A push needs a segment that has values to come.  A key of a map is a name.
Top == segments[Len(segments)]
Expected == stage = "open" /\ Len(segments) > 0 /\ Top.left > 0 /\ Len(sent) < MaxValues
ExpectsName == Top.named /\ Top.left % 2 = 0
OneLess == [segments EXCEPT ![Len(segments)].left = @ - 1]
Pushed(tag, data, count) == Append(sent, [tag |-> tag, data |-> data, count |-> count])

-----------------------------------------------------------------------------
(* The operations.  The callers open two outermost segments of one value,  *)
(* one for the method's name and, once it is finished, one for the         *)
(* argument: here they are one segment of two values.                      *)

message_builder_new ==
  /\ stage = "none"
  /\ buffer' = << >>
  /\ capacity' = 32
  /\ segments' = <<[named |-> TRUE, left |-> 2]>>
  /\ sent' = << >>
  /\ stage' = "open"

\* message_builder_segment_push_null, _bool, _int32 and _int64.
push_scalar(tag, data) ==
  /\ Expected /\ ~ExpectsName
  /\ capacity' = reserve(1 + Len(data))
  /\ buffer' = (buffer \o <<tag>>) \o data
  /\ segments' = OneLess
  /\ sent' = Pushed(tag, data, 0)
  /\ UNCHANGED stage

PushInt64 == \E n \in Int64s : push_scalar(kValueInt64, n)

PushInt32 ==
  \E n \in Int64s : push_scalar(kValueInt32, <<n[1], n[2], n[3], n[4]>>)

PushPlain == \E tag \in {kValueNull, kValueTrue, kValueFalse} : push_scalar(tag, << >>)

\* Mutant: the double follows its tag at once.
push_float64Unaligned ==
  \E x \in Doubles :
    /\ Expected /\ ~ExpectsName
    /\ capacity' = reserve(1 + 8)
    /\ buffer' = (buffer \o <<kValueFloat64>>) \o x
    /\ segments' = OneLess
    /\ sent' = Pushed(kValueFloat64, x, 0)
    /\ UNCHANGED stage

\* Mutant: no room is reserved for the padding.
push_float64Unpadded ==
  \E x \in Doubles :
    /\ Expected /\ ~ExpectsName
    /\ capacity' = reserve(1 + 8)
    /\ buffer' = ((buffer \o <<kValueFloat64>>) \o Padding(Len(buffer) + 1, 8)) \o x
    /\ segments' = OneLess
    /\ sent' = Pushed(kValueFloat64, x, 0)
    /\ UNCHANGED stage

\* The double is written at a multiple of eight from the start.
push_float64 ==
  \E x \in Doubles :
    /\ Expected /\ ~ExpectsName
    /\ capacity' = reserve(1 + 8 + 8)
    /\ buffer' = ((buffer \o <<kValueFloat64>>) \o Padding(Len(buffer) + 1, 8)) \o x
    /\ segments' = OneLess
    /\ sent' = Pushed(kValueFloat64, x, 0)
    /\ UNCHANGED stage

push_string ==
  \E s \in Names \cup Texts, garbage \in Garbage :
    /\ Expected
    /\ ExpectsName => s \in Names
    /\ capacity' = reserve(1 + LengthSize(Len(s)) + Len(s))
    /\ buffer' = WithLength(buffer \o <<kValueString>>, Len(s), garbage) \o s
    /\ segments' = OneLess
    /\ sent' = Pushed(kValueString, s, 0)
    /\ UNCHANGED stage

\* message_builder_segment_push_list and _push_map: the value counts in its
\* segment, and a segment of its own is opened for the members.
push_collection(tag, size, garbage) ==
  /\ Expected /\ ~ExpectsName
  /\ capacity' = reserve(1 + LengthSize(size))
  /\ buffer' = WithLength(buffer \o <<tag>>, size, garbage)
  /\ segments' = Append(OneLess, [named |-> tag = kValueMap,
                                  left |-> IF tag = kValueMap THEN size * 2 ELSE size])
  /\ sent' = Pushed(tag, << >>, size)
  /\ UNCHANGED stage

PushList == \E n \in Sizes, garbage \in Garbage : push_collection(kValueList, n, garbage)
PushMap == \E n \in Sizes, garbage \in Garbage : push_collection(kValueMap, n, garbage)

\* message_builder_segment_finish: the callers finish a segment once all of
\* its values are pushed.
segment_finish ==
  /\ stage = "open" /\ Len(segments) > 0 /\ Top.left = 0
  /\ segments' = SubSeq(segments, 1, Len(segments) - 1)
  /\ UNCHANGED <<buffer, capacity, sent, stage>>

\* The buffer is cut to its length, unless it is full.
message_builder_finish ==
  /\ stage = "open" /\ segments = << >>
  /\ capacity' = Len(buffer)
  /\ stage' = "finished"
  /\ UNCHANGED <<buffer, segments, sent>>

BuilderInit ==
  /\ buffer = << >> /\ capacity = 0 /\ segments = << >> /\ sent = << >>
  /\ stage = "none"

BuilderNext ==
  \/ message_builder_new
  \/ PushPlain \/ PushInt32 \/ PushInt64 \/ push_float64 \/ push_string
  \/ PushList \/ PushMap
  \/ segment_finish \/ message_builder_finish

BuilderSpec == BuilderInit /\ [][BuilderNext]_builderVars

-----------------------------------------------------------------------------

\* The types of the builder's state.
BuilderTypeOK ==
  /\ buffer \in Seq(Byte)
  /\ capacity \in Nat
  /\ stage \in {"none", "open", "finished"}

\* A push writes where reserve has made room, and nowhere else: the padding
\* of doubles and the bytes of long lengths included.
CapacityOK == Len(buffer) <= capacity
=============================================================================
