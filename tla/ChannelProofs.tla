--------------------------- MODULE ChannelProofs ---------------------------
(***************************************************************************)
(* What holds of the channels for every integer, double, string, plugin's  *)
(* answer and argument of Dart: the message builder never writes behind    *)
(* its buffer, messages without long lengths are read as what was pushed,  *)
(* long lengths end up at the start of their message, a reply fills what   *)
(* was allocated for it and is read as the answer it was meant to be, and  *)
(* a handler takes of a call what Dart means by its arguments.             *)
(***************************************************************************)
EXTENDS Channel, SequenceTheorems, WellFoundedInduction, TLAPS

\* Concatenation of byte strings, in the form the steps need.
LEMMA Concat ==
  ASSUME NEW s \in Seq(Byte), NEW t \in Seq(Byte)
  PROVE  s \o t \in Seq(Byte) /\ Len(s \o t) = Len(s) + Len(t)
BY ConcatProperties

\* A function on 1..n with bytes as values is a byte string of length n.
LEMMA AsBytes ==
  ASSUME NEW n \in Nat, NEW f \in [1..n -> Byte]
  PROVE  f \in Seq(Byte) /\ Len(f) = n
<1>1. f \in Seq(Byte)
  BY IsASeq
<1>2. DOMAIN f = 1..n
  OBVIOUS
<1> QED
  BY <1>1, <1>2, LenProperties

\* The images in memory of integers and doubles are byte strings.
LEMMA EightBytes ==
  ASSUME NEW f \in [1..8 -> Byte]
  PROVE  f \in Seq(Byte) /\ Len(f) = 8
<1> DEFINE eight == 8
<1>1. eight \in Nat /\ f \in [1..eight -> Byte]
  OBVIOUS
<1> HIDE DEF eight
<1>2. f \in Seq(Byte) /\ Len(f) = eight
  BY <1>1, AsBytes
<1> QED
  BY <1>2 DEF eight

\* So is what four bytes of fresh memory hold.
LEMMA FourBytes ==
  ASSUME NEW f \in [1..4 -> Byte]
  PROVE  f \in Seq(Byte) /\ Len(f) = 4 /\ f[1] \in Byte /\ f[2] \in Byte
<1> DEFINE four == 4
<1>1. four \in Nat /\ f \in [1..four -> Byte] /\ f[1] \in Byte /\ f[2] \in Byte
  OBVIOUS
<1> HIDE DEF four
<1>2. f \in Seq(Byte) /\ Len(f) = four
  BY <1>1, AsBytes
<1> QED
  BY <1>1, <1>2 DEF four

\* A single byte as a byte string.
LEMMA OneByte ==
  ASSUME NEW b \in Byte
  PROVE  <<b>> \in Seq(Byte) /\ Len(<<b>>) = 1
OBVIOUS

\* reserve leaves room for what is asked for.
LEMMA ReserveEnough ==
  ASSUME buffer \in Seq(Byte), capacity \in Nat, Len(buffer) <= capacity, NEW n \in Nat
  PROVE  reserve(n) \in Nat /\ Len(buffer) + n <= reserve(n)
<1>1. Len(buffer) \in Nat
  BY LenProperties
<1> QED
  BY <1>1 DEF reserve, growth_strategy, max

\* Overwriting the start of a message does not change its length.
LEMMA StartLength ==
  ASSUME NEW s \in Seq(Byte), NEW t \in Seq(Byte)
  PROVE  WithStart(s, t) \in Seq(Byte) /\ Len(WithStart(s, t)) = Len(s)
<1>1. Len(s) \in Nat /\ \A i \in 1..Len(s) : s[i] \in Byte
  BY LenProperties, ElementOfSeq
<1>2. \A i \in 1..Len(t) : t[i] \in Byte
  BY ElementOfSeq
<1>3. WithStart(s, t) \in [1..Len(s) -> Byte]
  BY <1>1, <1>2 DEF WithStart
<1> QED
  BY <1>1, <1>3, AsBytes

\* The images of a length are bytes.
LEMMA LengthImages ==
  ASSUME NEW n \in Nat
  PROVE  LE16(n) \in Seq(Byte) /\ LE32(n) \in Seq(Byte)
<1>1. n % 256 \in Byte /\ (n \div 256) % 256 \in Byte
      /\ (n \div 65536) % 256 \in Byte /\ (n \div 16777216) % 256 \in Byte
  BY DEF Byte
<1> QED
  BY <1>1 DEF LE16, LE32

\* A byte string of known length is appended to another.
LEMMA Appended ==
  ASSUME NEW s \in Seq(Byte), NEW t \in Seq(Byte), NEW m \in Nat, NEW k \in Nat,
         Len(s) = m, Len(t) = k
  PROVE  s \o t \in Seq(Byte) /\ Len(s \o t) = m + k
BY Concat

\* What is overwritten at its start and then appended to.
LEMMA Restarted ==
  ASSUME NEW s \in Seq(Byte), NEW b \in Byte, NEW start \in Seq(Byte), NEW t \in Seq(Byte)
  PROVE  /\ WithStart(s \o <<b>>, start) \o t \in Seq(Byte)
         /\ Len(WithStart(s \o <<b>>, start) \o t) = Len(s) + 1 + Len(t)
<1> DEFINE tagged == s \o <<b>>
<1>1. tagged \in Seq(Byte) /\ Len(tagged) = Len(s) + 1
  BY Concat, OneByte
<1> DEFINE over == WithStart(tagged, start)
<1> HIDE DEF tagged
<1>2. over \in Seq(Byte) /\ Len(over) = Len(s) + 1
  BY <1>1, StartLength
<1> HIDE DEF over
<1>3. over \o t \in Seq(Byte) /\ Len(over \o t) = Len(over) + Len(t)
  BY <1>2, Concat, Zenon
<1>4. over \o t = WithStart(s \o <<b>>, start) \o t
  BY DEF over, tagged
<1> QED
  BY <1>2, <1>3, <1>4

\* WRITE_SIZE_LEN appends as many bytes as CALC_SIZE_LEN announces.
LEMMA LengthWritten ==
  ASSUME NEW s \in Seq(Byte), NEW n \in Nat, NEW g \in Garbage
  PROVE  /\ WithLength(s, n, g) \in Seq(Byte)
         /\ Len(WithLength(s, n, g)) = Len(s) + LengthSize(n)
         /\ LengthSize(n) \in Nat
<1>1. g \in Seq(Byte) /\ Len(g) = 4 /\ g[1] \in Byte /\ g[2] \in Byte
  BY FourBytes, BuilderAssumption
<1>2. <<g[1], g[2]>> \in Seq(Byte) /\ Len(<<g[1], g[2]>>) = 2
  BY <1>1
<1>3. Len(s) \in Nat
  BY LenProperties
<1>4. 254 \in Byte /\ 255 \in Byte
  BY DEF Byte
<1>5. CASE n > 65535
  <2> DEFINE start == LE32(n)
             escape == 255
  <2>0. start \in Seq(Byte) /\ escape \in Byte
    BY <1>4, LengthImages
  <2> HIDE DEF start, escape
  <2>1. /\ WithStart(s \o <<escape>>, start) \o g \in Seq(Byte)
        /\ Len(WithStart(s \o <<escape>>, start) \o g) = Len(s) + 1 + Len(g)
    BY <1>1, <2>0, Restarted, Zenon
  <2>2. LengthSize(n) = 5
    BY <1>5 DEF LengthSize
  <2>3. WithLength(s, n, g) = WithStart(s \o <<escape>>, start) \o g
    BY <1>5 DEF WithLength, start, escape
  <2> QED
    BY <1>1, <1>3, <2>1, <2>2, <2>3
<1>6. CASE n >= 254 /\ ~(n > 65535)
  <2> DEFINE fresh == <<g[1], g[2]>>
             start == LE16(n)
             escape == 254
  <2>0. fresh \in Seq(Byte) /\ Len(fresh) = 2 /\ start \in Seq(Byte) /\ escape \in Byte
    BY <1>2, <1>4, LengthImages
  <2>3. WithLength(s, n, g) = WithStart(s \o <<escape>>, start) \o fresh
    BY <1>6 DEF WithLength
  <2> HIDE DEF fresh, start, escape
  <2>1. /\ WithStart(s \o <<escape>>, start) \o fresh \in Seq(Byte)
        /\ Len(WithStart(s \o <<escape>>, start) \o fresh) = Len(s) + 1 + Len(fresh)
    BY <2>0, Restarted, Zenon
  <2>2. LengthSize(n) = 3
    BY <1>6 DEF LengthSize
  <2> QED
    BY <1>3, <2>0, <2>1, <2>2, <2>3
<1>7. CASE ~(n >= 254)
  <2>1. n \in Byte /\ LengthSize(n) = 1 /\ WithLength(s, n, g) = s \o <<n>>
    BY <1>7 DEF Byte, LengthSize, WithLength
  <2> QED
    BY <1>3, <2>1, Concat, OneByte
<1> QED
  BY <1>5, <1>6, <1>7

\* The padding before a double is at most seven bytes.
LEMMA PaddingLength ==
  ASSUME NEW n \in Nat
  PROVE  Padding(n, 8) \in Seq(Byte) /\ Len(Padding(n, 8)) \in Nat /\ Len(Padding(n, 8)) <= 7
<1>1. PadSize(n, 8) \in 0..7
  BY DEF PadSize
<1>2. Padding(n, 8) \in [1..PadSize(n, 8) -> Byte]
  BY DEF Padding, Byte
<1>3. PadSize(n, 8) \in Nat
  BY <1>1
<1>4. Padding(n, 8) \in Seq(Byte) /\ Len(Padding(n, 8)) = PadSize(n, 8)
  BY <1>2, <1>3, AsBytes
<1> QED
  BY <1>1, <1>4

-----------------------------------------------------------------------------

\* The invariant: the types, and the length within the capacity, without which
\* the room that is left would be negative and reserve's test pass.
BuilderInv == BuilderTypeOK /\ CapacityOK

\* Each push appends what reserve has made room for.
LEMMA BuilderStep == ASSUME BuilderInv, [BuilderNext]_builderVars PROVE BuilderInv'
<1> USE DEF BuilderInv, BuilderTypeOK, CapacityOK
<1>0. Len(buffer) \in Nat
  BY LenProperties
<1>1. ASSUME NEW tag \in Byte, NEW data \in Seq(Byte), push_scalar(tag, data) PROVE BuilderInv'
  <2>1. buffer \o <<tag>> \in Seq(Byte) /\ Len(buffer \o <<tag>>) = Len(buffer) + 1
    BY OneByte, Concat
  <2>2. buffer' \in Seq(Byte) /\ Len(buffer') = Len(buffer) + 1 + Len(data)
    BY <1>1, <2>1, Concat DEF push_scalar
  <2>3. Len(data) \in Nat
    BY LenProperties
  <2>4. capacity' \in Nat /\ Len(buffer) + (1 + Len(data)) <= capacity'
    BY <1>1, <2>3, ReserveEnough DEF push_scalar
  <2> QED
    BY <1>0, <1>1, <2>2, <2>3, <2>4 DEF push_scalar
<1>2. CASE message_builder_new
  BY <1>2, EmptySeq DEF message_builder_new
<1>3. CASE PushPlain
  <2>1. PICK tag \in {kValueNull, kValueTrue, kValueFalse} : push_scalar(tag, << >>)
    BY <1>3 DEF PushPlain
  <2>2. tag \in Byte
    BY DEF Byte, kValueNull, kValueTrue, kValueFalse
  <2> DEFINE nothing == << >>
  <2>3. nothing \in Seq(Byte)
    OBVIOUS
  <2>4. push_scalar(tag, nothing)
    BY <2>1
  <2> HIDE DEF nothing
  <2> QED
    BY <1>1, <2>2, <2>3, <2>4
<1>4. CASE PushInt32
  <2>1. PICK n \in Int64s : push_scalar(kValueInt32, <<n[1], n[2], n[3], n[4]>>)
    BY <1>4, Zenon DEF PushInt32
  <2>2. n \in [1..8 -> Byte]
    BY BuilderAssumption
  <2> DEFINE low == <<n[1], n[2], n[3], n[4]>>
             tag == kValueInt32
  <2>3. low \in Seq(Byte)
    BY <2>2
  <2>4. tag \in Byte
    BY DEF Byte, kValueInt32
  <2>5. push_scalar(tag, low)
    BY <2>1
  <2> HIDE DEF low, tag
  <2> QED
    BY <1>1, <2>3, <2>4, <2>5
<1>5. CASE PushInt64
  <2>1. PICK n \in Int64s : push_scalar(kValueInt64, n)
    BY <1>5 DEF PushInt64
  <2>2. n \in [1..8 -> Byte]
    BY BuilderAssumption
  <2>3. n \in Seq(Byte)
    BY <2>2, EightBytes
  <2>4. kValueInt64 \in Byte
    BY DEF Byte, kValueInt64
  <2> QED
    BY <1>1, <2>1, <2>3, <2>4
<1>6. CASE push_float64
  <2>1. PICK x \in Doubles :
           /\ capacity' = reserve(1 + 8 + 8)
           /\ buffer' = ((buffer \o <<kValueFloat64>>) \o Padding(Len(buffer) + 1, 8)) \o x
           /\ UNCHANGED stage
    BY <1>6, Zenon DEF push_float64
  <2>2. x \in [1..8 -> Byte]
    BY BuilderAssumption
  <2>3. x \in Seq(Byte) /\ Len(x) = 8
    BY <2>2, EightBytes
  <2>4. kValueFloat64 \in Byte
    BY DEF Byte, kValueFloat64
  <2> DEFINE tagged == buffer \o <<kValueFloat64>>
             padding == Padding(Len(buffer) + 1, 8)
             padded == tagged \o padding
  <2>5. tagged \in Seq(Byte) /\ Len(tagged) = Len(buffer) + 1
    BY <2>4, OneByte, Concat
  <2>6. padding \in Seq(Byte) /\ Len(padding) \in Nat /\ Len(padding) <= 7
    <3>1. Len(buffer) + 1 \in Nat
      BY <1>0
    <3> QED
      BY <3>1, PaddingLength
  <2>7. buffer' = padded \o x
    BY <2>1
  <2> HIDE DEF tagged, padding
  <2>8. padded \in Seq(Byte) /\ Len(padded) <= Len(buffer) + 8 /\ Len(padded) \in Nat
    <3>1. padded \in Seq(Byte) /\ Len(padded) = Len(tagged) + Len(padding)
      BY <2>5, <2>6, Concat, Zenon
    <3> HIDE DEF padded
    <3> QED
      BY <1>0, <2>5, <2>6, <3>1
  <2> HIDE DEF padded
  <2>11. buffer' \in Seq(Byte) /\ Len(buffer') <= Len(buffer) + 16
    <3>1. padded \o x \in Seq(Byte) /\ Len(padded \o x) = Len(padded) + Len(x)
      BY <2>3, <2>8, Concat, Zenon
    <3>2. buffer' \in Seq(Byte) /\ Len(buffer') = Len(padded) + Len(x)
      BY <2>7, <3>1
    <3> QED
      BY <1>0, <2>3, <2>8, <3>2
  <2>9. capacity' \in Nat /\ Len(buffer) + 17 <= capacity'
    BY <2>1, ReserveEnough
  <2>10. Len(buffer') \in Nat
    BY <2>11, LenProperties
  <2> QED
    BY <1>0, <2>1, <2>9, <2>10, <2>11
<1>7. CASE push_string
  <2>1. PICK s \in Names \cup Texts, garbage \in Garbage :
           /\ capacity' = reserve(1 + LengthSize(Len(s)) + Len(s))
           /\ buffer' = WithLength(buffer \o <<kValueString>>, Len(s), garbage) \o s
           /\ UNCHANGED stage
    BY <1>7, Zenon DEF push_string
  <2>2. s \in Seq(Byte) /\ Len(s) \in Nat
    BY LenProperties, BuilderAssumption
  <2>3. kValueString \in Byte
    BY DEF Byte, kValueString
  <2> DEFINE tagged == buffer \o <<kValueString>>
             n == Len(s)
             sized == WithLength(tagged, n, garbage)
             room == 1 + LengthSize(n) + n
  <2>4. tagged \in Seq(Byte) /\ Len(tagged) = Len(buffer) + 1
    BY <2>3, OneByte, Concat
  <2>5. n \in Nat /\ buffer' = sized \o s /\ capacity' = reserve(room)
    BY <2>1, <2>2
  <2> HIDE DEF tagged
  <2>6. /\ sized \in Seq(Byte) /\ Len(sized) = Len(buffer) + 1 + LengthSize(n)
        /\ LengthSize(n) \in Nat
    <3> HIDE DEF n
    <3> QED
      BY <2>4, <2>5, LengthWritten
  <2> HIDE DEF sized
  <2>7. buffer' \in Seq(Byte) /\ Len(buffer') = Len(sized) + Len(s)
    BY <2>2, <2>5, <2>6, Concat, Zenon
  <2>8. room \in Nat
    BY <2>5, <2>6
  <2>9. capacity' \in Nat /\ Len(buffer) + room <= capacity'
    <3> HIDE DEF room
    <3> QED
      BY <2>5, <2>8, ReserveEnough
  <2>10. Len(buffer') = Len(buffer) + room
    BY <1>0, <2>5, <2>6, <2>7
  <2>11. Len(buffer') <= capacity'
    <3> HIDE DEF room
    <3> QED
      BY <2>9, <2>10
  <2> QED
    BY <2>1, <2>7, <2>9, <2>11
<1>8. ASSUME NEW tag \in Byte, NEW n \in Nat, NEW garbage \in Garbage,
             push_collection(tag, n, garbage)
      PROVE  BuilderInv'
  <2> DEFINE tagged == buffer \o <<tag>>
             room == 1 + LengthSize(n)
  <2>1. tagged \in Seq(Byte) /\ Len(tagged) = Len(buffer) + 1
    BY OneByte, Concat
  <2>2. buffer' = WithLength(tagged, n, garbage) /\ capacity' = reserve(room) /\ UNCHANGED stage
    BY <1>8 DEF push_collection
  <2> HIDE DEF tagged
  <2>3. /\ buffer' \in Seq(Byte) /\ Len(buffer') = Len(tagged) + LengthSize(n)
        /\ LengthSize(n) \in Nat
    BY <2>1, <2>2, LengthWritten
  <2>4. room \in Nat
    BY <2>3
  <2>5. capacity' \in Nat /\ Len(buffer) + room <= capacity'
    <3> HIDE DEF room
    <3> QED
      BY <2>2, <2>4, ReserveEnough
  <2> QED
    BY <1>0, <2>1, <2>2, <2>3, <2>5
<1>9. CASE PushList \/ PushMap
  <2>1. kValueList \in Byte /\ kValueMap \in Byte
    BY DEF Byte, kValueList, kValueMap
  <2>2. PICK n \in Sizes, garbage \in Garbage :
           push_collection(kValueList, n, garbage) \/ push_collection(kValueMap, n, garbage)
    BY <1>9 DEF PushList, PushMap
  <2>3. n \in Nat
    BY BuilderAssumption
  <2> QED
    BY <1>8, <2>1, <2>2, <2>3
<1>10. CASE segment_finish
  BY <1>10 DEF segment_finish
<1>11. CASE message_builder_finish
  BY <1>0, <1>11 DEF message_builder_finish
<1>12. CASE UNCHANGED builderVars
  BY <1>12 DEF builderVars
<1> QED
  BY <1>2, <1>3, <1>4, <1>5, <1>6, <1>7, <1>9, <1>10, <1>11, <1>12 DEF BuilderNext

\* The inductive invariant holds: the builder starts without a buffer, and
\* each of its operations leaves it with one that is large enough.
THEOREM BuilderInvariantHolds == BuilderSpec => []BuilderInv
<1>1. BuilderInit => BuilderInv
  BY EmptySeq DEF BuilderInit, BuilderInv, BuilderTypeOK, CapacityOK
<1>2. BuilderInv /\ [BuilderNext]_builderVars => BuilderInv'
  BY BuilderStep
<1> QED
  BY <1>1, <1>2, PTL DEF BuilderSpec

\* What the builder holds are bytes, whatever is pushed.
THEOREM BuilderTypesHold == BuilderSpec => []BuilderTypeOK
<1>1. BuilderInv => BuilderTypeOK
  BY DEF BuilderInv
<1> QED
  BY <1>1, BuilderInvariantHolds, PTL

\* No push writes behind the end of the buffer, for any strings and numbers.
THEOREM BuilderCapacityHolds == BuilderSpec => []CapacityOK
<1>1. BuilderInv => CapacityOK
  BY DEF BuilderInv
<1> QED
  BY <1>1, BuilderInvariantHolds, PTL

-----------------------------------------------------------------------------
(* The parts of values.                                                    *)

\* Appending twice is appending what was appended.
LEMMA Regroup ==
  ASSUME NEW s \in Seq(Byte), NEW t \in Seq(Byte), NEW u \in Seq(Byte)
  PROVE  (s \o t) \o u = s \o (t \o u)
BY ConcatAssociative

\* The sizes of what follows a tag.
LEMMA PartTyped ==
  ASSUME NEW p \in Parts
  PROVE  /\ p.tag \in Byte /\ p.tag \in 0..13 /\ p.data \in Seq(Byte) /\ p.count \in Nat
         /\ Len(p.data) \in Nat
         /\ Count(p) \in Nat
         /\ Alignment(p.tag) \in {1, 4, 8}
<1>1. p.tag \in 0..13 /\ p.data \in Seq(Byte) /\ p.count \in Nat
  BY DEF Parts
<1>2. p.tag \in Byte /\ Len(p.data) \in Nat
  BY <1>1, LenProperties DEF Byte
<1>3. Width(p.tag) \in {1, 4, 8}
  BY DEF Width
<1>4. Alignment(p.tag) \in {1, 4, 8}
  BY <1>3 DEF Alignment
<1>5. Len(p.data) \div Width(p.tag) \in Nat
  BY <1>2, <1>3
<1>6. Count(p) \in Nat
  BY <1>1, <1>5 DEF Count
<1> QED BY <1>1, <1>2, <1>4, <1>6

\* A length takes as many bytes as LengthSize says.
LEMMA LengthImageTyped ==
  ASSUME NEW n \in Nat
  PROVE  LengthImage(n) \in Seq(Byte) /\ Len(LengthImage(n)) = LengthSize(n)
         /\ LengthSize(n) \in Nat
<1>1. /\ n % 256 \in Byte /\ (n \div 256) % 256 \in Byte
      /\ (n \div 65536) % 256 \in Byte /\ (n \div 16777216) % 256 \in Byte
  BY DEF Byte
<1>2. CASE n < 254
  BY <1>2 DEF LengthImage, LengthSize, Byte
<1>3. CASE n >= 254 /\ n <= 65535
  <2> DEFINE e == <<254>>   l == LE16(n)
  <2>1. e \in Seq(Byte) /\ Len(e) = 1 /\ l \in Seq(Byte) /\ Len(l) = 2
    BY <1>1 DEF LE16, Byte
  <2>2. LengthImage(n) = e \o l /\ LengthSize(n) = 3
    BY <1>3 DEF LengthImage, LengthSize
  <2> HIDE DEF e, l
  <2>3. e \o l \in Seq(Byte) /\ Len(e \o l) = Len(e) + Len(l)
    BY <2>1, Concat, Zenon
  <2> QED BY <2>1, <2>2, <2>3
<1>4. CASE n > 65535
  <2> DEFINE e == <<255>>   l == LE32(n)
  <2>1. e \in Seq(Byte) /\ Len(e) = 1 /\ l \in Seq(Byte) /\ Len(l) = 4
    BY <1>1 DEF LE32, Byte
  <2>2. LengthImage(n) = e \o l /\ LengthSize(n) = 5
    BY <1>4 DEF LengthImage, LengthSize
  <2> HIDE DEF e, l
  <2>3. e \o l \in Seq(Byte) /\ Len(e \o l) = Len(e) + Len(l)
    BY <2>1, Concat, Zenon
  <2> QED BY <2>1, <2>2, <2>3
<1> QED BY <1>2, <1>3, <1>4

\* Padding takes as many bytes as PadSize says, seven at most.
LEMMA PaddingTyped ==
  ASSUME NEW n \in Nat, NEW to \in {1, 4, 8}
  PROVE  /\ Padding(n, to) \in Seq(Byte) /\ Len(Padding(n, to)) = PadSize(n, to)
         /\ PadSize(n, to) \in 0..7
<1>1. PadSize(n, to) \in 0..7
  <2>1. CASE to = 1
    BY <2>1 DEF PadSize
  <2>2. CASE to = 4
    BY <2>2 DEF PadSize
  <2>3. CASE to = 8
    BY <2>3 DEF PadSize
  <2> QED BY <2>1, <2>2, <2>3
<1>2. PICK m \in Nat : m = PadSize(n, to)
  BY <1>1
<1>3. Padding(n, to) \in [1..m -> Byte]
  BY <1>2 DEF Padding, Byte
<1> QED BY <1>1, <1>2, <1>3, AsBytes

\* What a value's part is up to its data: the tag and the length.
Headed(bytes, p) ==
  IF p.tag \in Counted THEN (bytes \o <<p.tag>>) \o LengthImage(Count(p)) ELSE bytes \o <<p.tag>>
HeadSize(p) == IF p.tag \in Counted THEN 1 + LengthSize(Count(p)) ELSE 1

\* The tag of a value, with its length, takes HeadSize bytes.
LEMMA HeadedTyped ==
  ASSUME NEW b \in Seq(Byte), NEW p \in Parts
  PROVE  /\ Headed(b, p) \in Seq(Byte)
         /\ Len(Headed(b, p)) = Len(b) + HeadSize(p)
         /\ HeadSize(p) \in Nat /\ HeadSize(p) >= 1
<1> DEFINE t == p.tag   tagged == b \o <<t>>   n == Count(p)   l == LengthImage(n)
<1>1. t \in Byte /\ n \in Nat
  BY PartTyped
<1> HIDE DEF t, n
<1>2. tagged \in Seq(Byte) /\ Len(tagged) = Len(b) + 1
  BY <1>1, OneByte, Concat
<1>3. l \in Seq(Byte) /\ Len(l) = LengthSize(n) /\ LengthSize(n) \in Nat
  BY <1>1, LengthImageTyped, Zenon
<1>4. Headed(b, p) = IF t \in Counted THEN tagged \o l ELSE tagged
  BY DEF Headed, t, n
<1>5. HeadSize(p) = IF t \in Counted THEN 1 + LengthSize(n) ELSE 1
  BY DEF HeadSize, t, n
<1> HIDE DEF tagged, l
<1>6. tagged \o l \in Seq(Byte) /\ Len(tagged \o l) = Len(b) + 1 + LengthSize(n)
  BY <1>2, <1>3, Concat
<1>7. Len(b) \in Nat
  BY LenProperties
<1> QED BY <1>2, <1>3, <1>4, <1>5, <1>6, <1>7

\* A part appends its head, the padding and the data.
LEMMA PartImageTyped ==
  ASSUME NEW b \in Seq(Byte), NEW p \in Parts
  PROVE  LET pad == Padding(Len(Headed(b, p)), Alignment(p.tag))
         IN  /\ PartImage(b, p) = (Headed(b, p) \o pad) \o p.data
             /\ pad \in Seq(Byte) /\ Len(pad) \in Nat
             /\ Headed(b, p) \o pad \in Seq(Byte)
             /\ Len(Headed(b, p) \o pad) = Len(Headed(b, p)) + Len(pad)
             /\ PartImage(b, p) \in Seq(Byte)
             /\ Len(PartImage(b, p)) = Len(Headed(b, p)) + Len(pad) + Len(p.data)
<1> DEFINE h == Headed(b, p)   to == Alignment(p.tag)   pad == Padding(Len(h), to)   d == p.data
<1>1. PartImage(b, p) = (h \o pad) \o d
  BY DEF PartImage, Headed
<1>2. h \in Seq(Byte) /\ Len(h) \in Nat
  BY HeadedTyped, LenProperties
<1>3. to \in {1, 4, 8} /\ d \in Seq(Byte) /\ Len(d) \in Nat
  BY PartTyped
<1> HIDE DEF h, to, d
<1>4. PICK n \in Nat : n = Len(h)
  BY <1>2
<1>5. pad \in Seq(Byte) /\ Len(pad) \in Nat
  <2>1. Padding(n, to) \in Seq(Byte)
    BY <1>3, PaddingTyped, Zenon
  <2> QED BY <1>4, <2>1, LenProperties
<1> HIDE DEF pad
<1>6. h \o pad \in Seq(Byte) /\ Len(h \o pad) = Len(h) + Len(pad)
  BY <1>2, <1>5, Concat
<1>7. (h \o pad) \o d \in Seq(Byte) /\ Len((h \o pad) \o d) = Len(h \o pad) + Len(d)
  BY <1>3, <1>6, Concat
<1> QED BY <1>1, <1>2, <1>3, <1>5, <1>6, <1>7 DEF h, to, pad, d

\* platform_channel.c writes a part as Dart does.
LEMMA WritesImage ==
  ASSUME NEW b \in Seq(Byte), NEW p \in Parts
  PROVE  WriteWith(b, p) = PartImage(b, p)
<1> DEFINE t == p.tag   tagged == b \o <<t>>   n == Count(p)
<1>1. t \in Byte /\ n \in Nat
  BY PartTyped
<1> HIDE DEF t, n
<1>2. tagged \in Seq(Byte)
  BY <1>1, OneByte, Concat
<1>3. writeSize(tagged, n) = tagged \o LengthImage(n)
  <2> HIDE DEF tagged
  <2>1. LE16(n) \in Seq(Byte) /\ LE32(n) \in Seq(Byte)
    BY <1>1, LengthImages, Zenon
  <2>2. <<254>> \in Seq(Byte) /\ <<255>> \in Seq(Byte)
    BY DEF Byte
  <2>3. CASE n < 254
    BY <2>3 DEF writeSize, LengthImage
  <2>4. CASE ~(n < 254) /\ n <= 65535
    <3> DEFINE e == <<254>>   l == LE16(n)
    <3>1. e \in Seq(Byte) /\ l \in Seq(Byte)
      BY <2>1, <2>2
    <3> HIDE DEF e, l
    <3>2. (tagged \o e) \o l = tagged \o (e \o l)
      BY <1>2, <3>1, Regroup, Zenon
    <3> QED BY <2>4, <3>2 DEF writeSize, LengthImage, e, l
  <2>5. CASE ~(n < 254) /\ ~(n <= 65535)
    <3> DEFINE e == <<255>>   l == LE32(n)
    <3>1. e \in Seq(Byte) /\ l \in Seq(Byte)
      BY <2>1, <2>2
    <3> HIDE DEF e, l
    <3>2. (tagged \o e) \o l = tagged \o (e \o l)
      BY <1>2, <3>1, Regroup, Zenon
    <3> QED BY <2>5, <3>2 DEF writeSize, LengthImage, e, l
  <2> QED BY <2>3, <2>4, <2>5
<1> QED BY <1>3, Zenon DEF WriteWith, PartImage, t, n

\* It counts as many bytes as that.
LEMMA SizesImage ==
  ASSUME NEW b \in Seq(Byte), NEW p \in Parts
  PROVE  SizeWith(Len(b), p) = Len(PartImage(b, p))
<1> DEFINE h == Headed(b, p)   to == Alignment(p.tag)   n == Count(p)
<1>1. /\ Len(PartImage(b, p)) = Len(h) + Len(Padding(Len(h), to)) + Len(p.data)
      /\ Len(h) = Len(b) + HeadSize(p) /\ Len(h) \in Nat
      /\ to \in {1, 4, 8} /\ n \in Nat /\ Len(b) \in Nat /\ Len(p.data) \in Nat
  BY PartImageTyped, HeadedTyped, PartTyped, LenProperties, Zenon
<1>2. (IF p.tag \in Counted THEN advance_size_bytes(Len(b) + 1, n) ELSE Len(b) + 1) = Len(h)
  <2>1. LengthSize(n) \in Nat
    BY <1>1, LengthImageTyped, Zenon
  <2>2. advance_size_bytes(Len(b) + 1, n) = Len(b) + 1 + LengthSize(n)
    BY <1>1 DEF advance_size_bytes, LengthSize
  <2> QED BY <1>1, <2>1, <2>2 DEF HeadSize
<1> HIDE DEF h, to, n
<1>3. Len(Padding(Len(h), to)) = PadSize(Len(h), to) /\ PadSize(Len(h), to) \in Nat
  <2>1. PICK m \in Nat : m = Len(h)
    BY <1>1
  <2>2. Len(Padding(m, to)) = PadSize(m, to) /\ PadSize(m, to) \in 0..7
    BY <1>1, PaddingTyped, Zenon
  <2> QED BY <2>1, <2>2
<1>4. SizeWith(Len(b), p) = align(Len(h), to) + Len(p.data)
  BY <1>2 DEF SizeWith, to, n
<1> QED BY <1>1, <1>3, <1>4 DEF align

-----------------------------------------------------------------------------
(* Running over the parts of a value.                                      *)

\* A non-empty set of numbers has a first one.
LEMMA First ==
  ASSUME NEW S \in SUBSET Nat, S # {}
  PROVE  \E n \in S : \A m \in S : n <= m
<1>1. PICK n \in S : \A m \in S : <<m, n>> \notin OpToRel(<, Nat)
  BY WFMin, NatLessThanWellFounded, Zenon
<1>2. \A m \in S : ~(m < n)
  BY <1>1, Zenon DEF OpToRel
<1> QED BY <1>2

\* f has the results of a step F from s on, along the parts of v.
Along(F, s, v, f) ==
  f = [i \in 0..Len(v) |-> IF i = 0 THEN s ELSE F[<<f[i - 1], v[i]>>]]

\* There is such a function, whatever the step.
LEMMA AlongExists ==
  ASSUME NEW S, NEW P, NEW F \in [S \X P -> S], NEW s \in S, NEW v \in Seq(P)
  PROVE  \E f \in [0..Len(v) -> S] : Along(F, s, v, f)
<1> DEFINE To(m, f) == /\ f[0] = s
                       /\ \A i \in 1..m : f[i] = F[<<f[i - 1], v[i]>>]
           bad == {m \in 0..Len(v) : ~\E f \in [0..m -> S] : To(m, f)}
<1>1. Len(v) \in Nat /\ \A i \in 1..Len(v) : v[i] \in P
  BY LenProperties, ElementOfSeq
<1>2. bad = {}
  <2> SUFFICES ASSUME bad # {} PROVE FALSE
    OBVIOUS
  <2>1. PICK m \in bad : \A k \in bad : m <= k
    <3> bad \in SUBSET Nat
      BY <1>1
    <3> HIDE DEF bad
    <3> QED BY First
  <2>2. m \in 0..Len(v) /\ ~\E f \in [0..m -> S] : To(m, f)
    OBVIOUS
  <2>3. m # 0
    <3> SUFFICES ASSUME m = 0 PROVE FALSE
      OBVIOUS
    <3>1. [i \in 0..m |-> s] \in [0..m -> S] /\ To(m, [i \in 0..m |-> s])
      OBVIOUS
    <3> QED BY <2>2, <3>1, Zenon
  <2>4. m - 1 \in 0..Len(v) /\ m - 1 \notin bad /\ m \in 1..Len(v)
    <3>1. m - 1 \in 0..Len(v) /\ ~(m <= m - 1) /\ m \in 1..Len(v)
      BY <1>1, <2>2, <2>3
    <3> HIDE DEF bad
    <3> QED BY <2>1, <3>1
  <2>5. PICK f \in [0..m - 1 -> S] : To(m - 1, f)
    BY <2>4
  <2> DEFINE last == F[<<f[m - 1], v[m]>>]
             g == [i \in 0..m |-> IF i = m THEN last ELSE f[i]]
  <2>6. last \in S
    <3>1. f[m - 1] \in S
      BY <1>1, <2>4
    <3> QED BY <1>1, <2>4, <3>1
  <2> HIDE DEF last
  <2>7. g \in [0..m -> S]
    BY <1>1, <2>4, <2>6
  <2>8. \A i \in 0..m - 1 : g[i] = f[i]
    BY <1>1, <2>4
  <2>9. g[m] = last
    BY <1>1, <2>4
  <2> HIDE DEF g
  <2>10. To(m, g)
    <3>1. g[0] = s
      BY <1>1, <2>4, <2>5, <2>8
    <3>2. ASSUME NEW i \in 1..m
          PROVE  g[i] = F[<<g[i - 1], v[i]>>]
      <4>1. g[i - 1] = f[i - 1]
        BY <1>1, <2>4, <2>8
      <4>2. CASE i = m
        BY <2>9, <4>1, <4>2 DEF last
      <4>3. CASE i # m
        <5>1. i \in 1..m - 1 /\ i \in 0..m - 1
          BY <1>1, <2>4, <4>3
        <5> QED BY <2>5, <2>8, <4>1, <5>1
      <4> QED BY <4>2, <4>3
    <3> QED BY <3>1, <3>2
  <2> HIDE DEF To
  <2> QED BY <2>2, <2>7, <2>10
<1>3. Len(v) \in 0..Len(v)
  BY <1>1
<1>4. PICK f \in [0..Len(v) -> S] : To(Len(v), f)
  BY <1>2, <1>3, Zenon
<1>5. f = [i \in 0..Len(v) |-> IF i = 0 THEN s ELSE F[<<f[i - 1], v[i]>>]]
  <2>1. \A i \in 0..Len(v) : f[i] = IF i = 0 THEN s ELSE F[<<f[i - 1], v[i]>>]
    BY <1>1, <1>4
  <2> QED BY <2>1
<1> QED BY <1>4, <1>5, Zenon DEF Along

\* The images along a value.
Images(s, v, f) ==
  /\ f \in [0..Len(v) -> Seq(Byte)]
  /\ f[0] = s
  /\ \A i \in 1..Len(v) : f[i] = PartImage(f[i - 1], v[i])

\* The image of a value is the last of the images of its parts.
LEMMA ImageRuns ==
  ASSUME NEW s \in Seq(Byte), NEW v \in Seq(Parts)
  PROVE  \E f : Images(s, v, f) /\ Image(s, v) = f[Len(v)]
<1> DEFINE F == [x \in Seq(Byte) \X Parts |-> PartImage(x[1], x[2])]
           f == CHOOSE f : f = [i \in 0..Len(v) |->
                                  IF i = 0 THEN s ELSE PartImage(f[i - 1], v[i])]
<1>1. Len(v) \in Nat /\ \A i \in 1..Len(v) : v[i] \in Parts
  BY LenProperties, ElementOfSeq
<1>2. F \in [Seq(Byte) \X Parts -> Seq(Byte)]
  BY PartImageTyped, Zenon
<1>3. \A b \in Seq(Byte), p \in Parts : F[<<b, p>>] = PartImage(b, p)
  OBVIOUS
<1> HIDE DEF F
<1>4. PICK g \in [0..Len(v) -> Seq(Byte)] : Along(F, s, v, g)
  BY <1>2, AlongExists, Zenon
<1>5. \A i \in 1..Len(v) : F[<<g[i - 1], v[i]>>] = PartImage(g[i - 1], v[i])
  <2> TAKE i \in 1..Len(v)
  <2>1. g[i - 1] \in Seq(Byte)
    BY <1>1
  <2> QED BY <1>1, <1>3, <2>1
<1>6. g = [i \in 0..Len(v) |-> IF i = 0 THEN s ELSE PartImage(g[i - 1], v[i])]
  <2>1. \A i \in 0..Len(v) : g[i] = IF i = 0 THEN s ELSE F[<<g[i - 1], v[i]>>]
    BY <1>4, Zenon DEF Along
  <2>2. \A i \in 0..Len(v) : i # 0 => i \in 1..Len(v)
    BY <1>1
  <2>3. \A i \in 0..Len(v) : g[i] = IF i = 0 THEN s ELSE PartImage(g[i - 1], v[i])
    BY <1>5, <2>1, <2>2, Zenon
  <2> QED BY <2>3
<1>7. f = [i \in 0..Len(v) |-> IF i = 0 THEN s ELSE PartImage(f[i - 1], v[i])]
  BY <1>6, Zenon
<1>8. Image(s, v) = f[Len(v)]
  BY DEF Image
<1> HIDE DEF f
<1>9. f[0] = s /\ \A i \in 1..Len(v) : f[i] = PartImage(f[i - 1], v[i])
  BY <1>1, <1>7
<1>10. f \in [0..Len(v) -> Seq(Byte)]
  <2> DEFINE bad == {i \in 0..Len(v) : f[i] \notin Seq(Byte)}
  <2>1. ASSUME bad # {} PROVE FALSE
    <3>1. PICK i \in bad : \A k \in bad : i <= k
      <4> bad \in SUBSET Nat
        BY <1>1
      <4> HIDE DEF bad
      <4> QED BY <2>1, First, Zenon
    <3>2. i # 0
      BY <1>9
    <3>3. i \in 1..Len(v) /\ i - 1 \in 0..Len(v) /\ ~(i <= i - 1)
      BY <1>1, <3>2
    <3>4. f[i - 1] \in Seq(Byte)
      BY <3>1, <3>3
    <3>5. f[i] = PartImage(f[i - 1], v[i])
      BY <1>9, <3>3
    <3>6. v[i] \in Parts
      BY <1>1, <3>3
    <3>7. PartImage(f[i - 1], v[i]) \in Seq(Byte)
      <4>1. PICK b \in Seq(Byte), p \in Parts : b = f[i - 1] /\ p = v[i]
        BY <3>4, <3>6
      <4>2. PartImage(b, p) \in Seq(Byte)
        BY PartImageTyped, Zenon
      <4> QED BY <4>1, <4>2
    <3> QED BY <3>5, <3>7
  <2>2. f = [i \in 0..Len(v) |-> f[i]]
    BY <1>7
  <2> QED BY <2>1, <2>2
<1> QED BY <1>8, <1>9, <1>10, Zenon DEF Images

\* Values that begin alike have images that begin alike.
LEMMA SameImages ==
  ASSUME NEW s, NEW v, NEW w, NEW f, NEW g, NEW n \in Nat,
         Images(s, v, f), Images(s, w, g), Len(v) \in Nat, Len(w) \in Nat,
         n <= Len(v), n <= Len(w), \A i \in 1..n : v[i] = w[i]
  PROVE  f[n] = g[n]
<1> DEFINE bad == {i \in 0..n : f[i] # g[i]}
<1>1. ASSUME bad # {} PROVE FALSE
  <2>1. PICK i \in bad : \A k \in bad : i <= k
    <3> bad \in SUBSET Nat
      OBVIOUS
    <3> HIDE DEF bad
    <3> QED BY <1>1, First
  <2>2. i # 0
    BY DEF Images
  <2>3. i \in 1..n /\ i - 1 \in 0..n /\ ~(i <= i - 1) /\ i \in 1..Len(v) /\ i \in 1..Len(w)
    BY <2>2
  <2>4. f[i - 1] = g[i - 1]
    BY <2>1, <2>3
  <2>5. f[i] = PartImage(f[i - 1], v[i]) /\ g[i] = PartImage(g[i - 1], w[i])
    BY <2>3 DEF Images
  <2>6. v[i] = w[i]
    BY <2>3
  <2> QED BY <2>4, <2>5, <2>6
<1> QED BY <1>1

\* One part more is written behind what is there.
LEMMA ImageAppend ==
  ASSUME NEW s \in Seq(Byte), NEW v \in Seq(Parts), NEW p \in Parts
  PROVE  Image(s, Append(v, p)) = PartImage(Image(s, v), p)
<1> DEFINE n == Len(v)   w == Append(v, p)
<1>1. /\ w \in Seq(Parts) /\ n \in Nat /\ Len(w) = n + 1 /\ w[n + 1] = p
      /\ \A i \in 1..n : v[i] = w[i]
  <2> HIDE DEF Parts
  <2> QED OBVIOUS
<1> HIDE DEF w
<1>2. PICK f : Images(s, v, f) /\ Image(s, v) = f[n]
  BY ImageRuns
<1>3. PICK g : Images(s, w, g) /\ Image(s, w) = g[Len(w)]
  BY <1>1, ImageRuns
<1>4. f[n] = g[n]
  BY <1>1, <1>2, <1>3, SameImages
<1>5. g[n + 1] = PartImage(g[n], w[n + 1])
  <2>1. n + 1 \in 1..Len(w) /\ (n + 1) - 1 = n
    BY <1>1
  <2> QED BY <1>3, <2>1 DEF Images
<1> QED BY <1>1, <1>2, <1>3, <1>4, <1>5 DEF w

\* No parts, no bytes.
LEMMA ImageOfNothing ==
  ASSUME NEW s \in Seq(Byte)
  PROVE  Image(s, << >>) = s
<1> DEFINE v == << >>
<1>1. v \in Seq(Parts) /\ Len(v) = 0
  BY EmptySeq
<1> HIDE DEF v
<1>2. PICK f : Images(s, v, f) /\ Image(s, v) = f[Len(v)]
  BY <1>1, ImageRuns, Zenon
<1> QED BY <1>1, <1>2 DEF Images, v

\* The image of a value is a byte string.
LEMMA ImageTyped ==
  ASSUME NEW s \in Seq(Byte), NEW v \in Seq(Parts)
  PROVE  Image(s, v) \in Seq(Byte)
<1>1. PICK f : Images(s, v, f) /\ Image(s, v) = f[Len(v)]
  BY ImageRuns
<1>2. Len(v) \in 0..Len(v)
  BY LenProperties
<1> QED BY <1>1, <1>2 DEF Images

\* What platform_channel.c writes is the image, and it allocates as much.
LEMMA WritesImages ==
  ASSUME NEW s \in Seq(Byte), NEW v \in Seq(Parts)
  PROVE  platch_write_value_to_buffer_std(s, v) = Image(s, v)
<1> DEFINE n == Len(v)
           h == CHOOSE h : h = [i \in 0..n |-> IF i = 0 THEN s ELSE WriteWith(h[i - 1], v[i])]
<1>1. n \in Nat /\ \A i \in 1..n : v[i] \in Parts
  BY LenProperties, ElementOfSeq
<1>2. PICK f : Images(s, v, f) /\ Image(s, v) = f[n]
  BY ImageRuns
<1>3. \A i \in 1..n : f[i] = WriteWith(f[i - 1], v[i])
  <2> TAKE i \in 1..n
  <2>1. i - 1 \in 0..n
    BY <1>1
  <2>2. PICK b \in Seq(Byte), p \in Parts : b = f[i - 1] /\ p = v[i]
    BY <1>1, <1>2, <2>1, Zenon DEF Images
  <2>3. WriteWith(b, p) = PartImage(b, p)
    BY WritesImage
  <2> QED BY <1>2, <2>2, <2>3 DEF Images
<1>4. f = [i \in 0..n |-> IF i = 0 THEN s ELSE WriteWith(f[i - 1], v[i])]
  <2>1. \A i \in 0..n : f[i] = IF i = 0 THEN s ELSE WriteWith(f[i - 1], v[i])
    BY <1>1, <1>2, <1>3 DEF Images
  <2> QED BY <1>2, <2>1 DEF Images
<1>5. h = [i \in 0..n |-> IF i = 0 THEN s ELSE WriteWith(h[i - 1], v[i])]
  BY <1>4, Zenon
<1>6. platch_write_value_to_buffer_std(s, v) = h[n]
  BY DEF platch_write_value_to_buffer_std
<1> HIDE DEF h
<1>7. ASSUME h[n] # f[n] PROVE FALSE
  <2> DEFINE bad == {i \in 0..n : h[i] # f[i]}
  <2>1. PICK i \in bad : \A k \in bad : i <= k
    <3>1. bad \in SUBSET Nat /\ n \in bad
      BY <1>1, <1>7
    <3> HIDE DEF bad
    <3> QED BY <3>1, First, Zenon
  <2>2. i # 0
    BY <1>1, <1>4, <1>5
  <2>3. i \in 0..n /\ i - 1 \in 0..n /\ ~(i <= i - 1)
    BY <1>1, <2>2
  <2>4. h[i - 1] = f[i - 1]
    BY <2>1, <2>3
  <2>5. h[i] = WriteWith(h[i - 1], v[i]) /\ f[i] = WriteWith(f[i - 1], v[i])
    BY <1>4, <1>5, <2>2, <2>3, Zenon
  <2> QED BY <2>1, <2>4, <2>5
<1> QED BY <1>2, <1>6, <1>7

\* What platform_channel.c computes beforehand is the size of the image.
LEMMA SizesImages ==
  ASSUME NEW s \in Seq(Byte), NEW v \in Seq(Parts)
  PROVE  platch_calc_value_size_std(Len(s), v) = Len(Image(s, v))
<1> DEFINE n == Len(v)
           h == CHOOSE h : h = [i \in 0..n |-> IF i = 0 THEN Len(s) ELSE SizeWith(h[i - 1], v[i])]
<1>1. n \in Nat /\ \A i \in 1..n : v[i] \in Parts
  BY LenProperties, ElementOfSeq
<1>2. PICK f : Images(s, v, f) /\ Image(s, v) = f[n]
  BY ImageRuns
<1> DEFINE l == [i \in 0..n |-> Len(f[i])]
<1>3. \A i \in 1..n : Len(f[i]) = SizeWith(Len(f[i - 1]), v[i])
  <2> TAKE i \in 1..n
  <2>1. i - 1 \in 0..n
    BY <1>1
  <2>2. PICK b \in Seq(Byte), p \in Parts : b = f[i - 1] /\ p = v[i]
    BY <1>1, <1>2, <2>1, Zenon DEF Images
  <2>3. SizeWith(Len(b), p) = Len(PartImage(b, p))
    BY SizesImage
  <2> QED BY <1>2, <2>2, <2>3 DEF Images
<1>4. l = [i \in 0..n |-> IF i = 0 THEN Len(s) ELSE SizeWith(l[i - 1], v[i])]
  <2>1. \A i \in 0..n : l[i] = IF i = 0 THEN Len(s) ELSE SizeWith(l[i - 1], v[i])
    <3> TAKE i \in 0..n
    <3>1. CASE i = 0
      BY <1>2, <3>1 DEF Images
    <3>2. CASE i # 0
      <4>1. i \in 1..n /\ i - 1 \in 0..n
        BY <1>1, <3>2
      <4> QED BY <1>3, <3>2, <4>1
    <3> QED BY <3>1, <3>2
  <2>2. l = [i \in 0..n |-> l[i]]
    OBVIOUS
  <2> HIDE DEF l
  <2> QED BY <2>1, <2>2, Zenon
<1>5. h = [i \in 0..n |-> IF i = 0 THEN Len(s) ELSE SizeWith(h[i - 1], v[i])]
  <2> HIDE DEF l
  <2> QED BY <1>4, Zenon
<1>6. platch_calc_value_size_std(Len(s), v) = h[n]
  BY DEF platch_calc_value_size_std
<1>7. l[n] = Len(f[n])
  BY <1>1
<1> HIDE DEF h, l
<1>8. ASSUME h[n] # l[n] PROVE FALSE
  <2> DEFINE bad == {i \in 0..n : h[i] # l[i]}
  <2>1. PICK i \in bad : \A k \in bad : i <= k
    <3>1. bad \in SUBSET Nat /\ n \in bad
      BY <1>1, <1>8
    <3> HIDE DEF bad
    <3> QED BY <3>1, First, Zenon
  <2>2. i # 0
    BY <1>1, <1>4, <1>5
  <2>3. i \in 0..n /\ i - 1 \in 0..n /\ ~(i <= i - 1)
    BY <1>1, <2>2
  <2>4. h[i - 1] = l[i - 1]
    BY <2>1, <2>3
  <2>5. h[i] = SizeWith(h[i - 1], v[i]) /\ l[i] = SizeWith(l[i - 1], v[i])
    BY <1>4, <1>5, <2>2, <2>3, Zenon
  <2> QED BY <2>1, <2>4, <2>5
<1> QED BY <1>2, <1>6, <1>7, <1>8

\* A reply of platform_channel.c fills what is allocated for it, and is the
\* image of its values behind the byte that tells success from an error.
LEMMA Encoded ==
  ASSUME NEW success \in BOOLEAN, NEW values \in Seq(Parts)
  PROVE  LET start == <<IF success THEN 0 ELSE 1>>
         IN  /\ platch_encode(success, values).bytes = Image(start, values)
             /\ platch_encode(success, values).size = Len(Image(start, values))
<1> DEFINE start == <<IF success THEN 0 ELSE 1>>
<1>1. start \in Seq(Byte) /\ Len(start) = 1
  BY DEF Byte
<1>2. /\ platch_encode(success, values).bytes = platch_write_value_to_buffer_std(start, values)
      /\ platch_encode(success, values).size = platch_calc_value_size_std(1, values)
  BY DEF platch_encode
<1> HIDE DEF start
<1>3. platch_write_value_to_buffer_std(start, values) = Image(start, values)
  BY <1>1, WritesImages
<1>4. platch_calc_value_size_std(Len(start), values) = Len(Image(start, values))
  BY <1>1, SizesImages, Zenon
<1> QED BY <1>1, <1>2, <1>3, <1>4 DEF start

-----------------------------------------------------------------------------
(* Where the bytes of a part are.                                          *)

\* What a part appends to a message of n bytes.
PartHead(p) == IF p.tag \in Counted THEN <<p.tag>> \o LengthImage(Count(p)) ELSE <<p.tag>>
PartBytes(n, p) ==
  (PartHead(p) \o Padding(n + HeadSize(p), Alignment(p.tag))) \o p.data

\* The tag of a part, with its length, is a byte string.
LEMMA PartHeadTyped ==
  ASSUME NEW p \in Parts
  PROVE  /\ PartHead(p) \in Seq(Byte) /\ Len(PartHead(p)) = HeadSize(p)
         /\ HeadSize(p) \in Nat /\ HeadSize(p) >= 1
<1> DEFINE t == p.tag   one == <<t>>   n == Count(p)   l == LengthImage(n)
<1>1. t \in Byte /\ n \in Nat
  BY PartTyped
<1> HIDE DEF t, n
<1>2. one \in Seq(Byte) /\ Len(one) = 1
  BY <1>1, OneByte
<1>3. l \in Seq(Byte) /\ Len(l) = LengthSize(n) /\ LengthSize(n) \in Nat
  BY <1>1, LengthImageTyped
<1>4. PartHead(p) = IF t \in Counted THEN one \o l ELSE one
  BY DEF PartHead, t, n
<1>5. HeadSize(p) = IF t \in Counted THEN 1 + LengthSize(n) ELSE 1
  BY DEF HeadSize, t, n
<1> HIDE DEF one, l
<1>6. one \o l \in Seq(Byte) /\ Len(one \o l) = 1 + LengthSize(n)
  BY <1>2, <1>3, Concat, Zenon
<1> QED BY <1>2, <1>3, <1>4, <1>5, <1>6

\* So are the bytes of a part, and there are as many as its size says.
LEMMA PartBytesTyped ==
  ASSUME NEW n \in Nat, NEW p \in Parts
  PROVE  /\ PartBytes(n, p) \in Seq(Byte)
         /\ Len(PartBytes(n, p)) =
              HeadSize(p) + PadSize(n + HeadSize(p), Alignment(p.tag)) + Len(p.data)
         /\ PadSize(n + HeadSize(p), Alignment(p.tag)) \in 0..7
<1> DEFINE h == PartHead(p)   m == n + HeadSize(p)   to == Alignment(p.tag)
           pad == Padding(m, to)   d == p.data
<1>1. h \in Seq(Byte) /\ Len(h) = HeadSize(p) /\ m \in Nat /\ HeadSize(p) \in Nat
  BY PartHeadTyped
<1>2. to \in {1, 4, 8} /\ d \in Seq(Byte) /\ Len(d) \in Nat
  BY PartTyped
<1> HIDE DEF h, m, to, d
<1>3. pad \in Seq(Byte) /\ Len(pad) = PadSize(m, to) /\ PadSize(m, to) \in 0..7
  BY <1>1, <1>2, PaddingTyped, Zenon
<1>4. PartBytes(n, p) = (h \o pad) \o d
  BY DEF PartBytes, h, m, to, d
<1> HIDE DEF pad
<1>5. h \o pad \in Seq(Byte) /\ Len(h \o pad) = Len(h) + Len(pad)
  BY <1>1, <1>3, Concat, Zenon
<1>6. (h \o pad) \o d \in Seq(Byte) /\ Len((h \o pad) \o d) = Len(h \o pad) + Len(d)
  BY <1>2, <1>5, Concat
<1> QED BY <1>1, <1>2, <1>3, <1>4, <1>5, <1>6 DEF m, to, d

\* A part is appended: its image begins with what was there.
LEMMA PartAppends ==
  ASSUME NEW b \in Seq(Byte), NEW p \in Parts
  PROVE  PartImage(b, p) = b \o PartBytes(Len(b), p)
<1> DEFINE t == p.tag   one == <<t>>   l == LengthImage(Count(p))   h == PartHead(p)
           to == Alignment(p.tag)   d == p.data   hb == Headed(b, p)
           pad == Padding(Len(hb), to)
<1>1. one \in Seq(Byte) /\ l \in Seq(Byte) /\ h \in Seq(Byte) /\ d \in Seq(Byte)
  BY PartTyped, OneByte, LengthImageTyped, PartHeadTyped
<1>2. hb = b \o h
  <2>1. hb = IF t \in Counted THEN (b \o one) \o l ELSE b \o one
    BY DEF Headed
  <2>2. h = IF t \in Counted THEN one \o l ELSE one
    BY DEF PartHead
  <2> HIDE DEF hb, h, one, l
  <2>3. (b \o one) \o l = b \o (one \o l)
    BY <1>1, Regroup, Zenon
  <2> QED BY <2>1, <2>2, <2>3
<1>3. PartImage(b, p) = (hb \o pad) \o d /\ pad \in Seq(Byte)
  BY PartImageTyped, Zenon
<1>4. Len(hb) = Len(b) + HeadSize(p)
  BY HeadedTyped
<1>5. PartBytes(Len(b), p) = (h \o pad) \o d
  BY <1>4 DEF PartBytes
<1> HIDE DEF t, one, l, h, to, d, hb, pad
<1>6. h \o pad \in Seq(Byte)
  BY <1>1, <1>3, Concat
<1>7. (b \o h) \o pad = b \o (h \o pad)
  BY <1>1, <1>3, Regroup, Zenon
<1>8. (b \o (h \o pad)) \o d = b \o ((h \o pad) \o d)
  <2>1. PICK u \in Seq(Byte) : u = h \o pad
    BY <1>6, Zenon
  <2>2. (b \o u) \o d = b \o (u \o d)
    BY <1>1, Regroup, Zenon
  <2> QED BY <2>1, <2>2
<1> QED BY <1>2, <1>3, <1>5, <1>7, <1>8

-----------------------------------------------------------------------------
(* Long lengths.                                                           *)

\* The last long length of the values v is what the message b begins with.
IsLastLong(v, i) ==
  Count(v[i]) >= 254 /\ \A j \in DOMAIN v : j > i => Count(v[j]) < 254
StartsWith(b, n) == Len(b) >= 2 /\ b[1] = n % 256 /\ b[2] = (n \div 256) % 256
Starts(v, b) == \A i \in DOMAIN v : IsLastLong(v, i) => StartsWith(b, Count(v[i]))

\* What is appended leaves the start as it is.
LEMMA AppendKeepsStart ==
  ASSUME NEW b \in Seq(Byte), NEW t \in Seq(Byte), NEW n, StartsWith(b, n)
  PROVE  StartsWith(b \o t, n)
<1>1. Len(b) \in Nat /\ Len(t) \in Nat /\ Len(b) >= 2
  BY LenProperties DEF StartsWith
<1>2. /\ Len(b \o t) = Len(b) + Len(t)
      /\ \A k \in 1..Len(b) + Len(t) :
           (b \o t)[k] = IF k <= Len(b) THEN b[k] ELSE t[k - Len(b)]
  BY ConcatProperties
<1>3. 1 \in 1..Len(b) + Len(t) /\ 2 \in 1..Len(b) + Len(t)
  BY <1>1
<1>4. (b \o t)[1] = b[1] /\ (b \o t)[2] = b[2] /\ Len(b \o t) >= 2
  BY <1>1, <1>2, <1>3
<1> QED BY <1>4 DEF StartsWith

\* A push appends to the buffer, or stores a long length at its start.
LEMMA PushKeepsStart ==
  ASSUME NEW v \in Seq(Parts), NEW b \in Seq(Byte), Starts(v, b),
         NEW p \in Parts, NEW c \in Seq(Byte),
         Count(p) < 254 => \E t \in Seq(Byte) : c = b \o t,
         Count(p) >= 254 => StartsWith(c, Count(p))
  PROVE  Starts(Append(v, p), c)
<1> DEFINE n == Len(v)   w == Append(v, p)
<1>1. /\ n \in Nat /\ DOMAIN w = 1..n + 1 /\ DOMAIN v = 1..n
      /\ w[n + 1] = p /\ \A i \in 1..n : w[i] = v[i]
  <2> HIDE DEF Parts
  <2> QED OBVIOUS
<1>2. Count(p) \in Nat
  BY PartTyped
<1> HIDE DEF w, n
<1>3. ASSUME NEW i \in 1..n + 1, IsLastLong(w, i)
      PROVE  StartsWith(c, Count(w[i]))
  <2>1. CASE i = n + 1
    BY <1>1, <1>3, <2>1 DEF IsLastLong
  <2>2. CASE i # n + 1
    <3>1. i \in 1..n /\ n + 1 \in 1..n + 1 /\ n + 1 > i
      BY <1>1, <2>2
    <3>2. Count(p) < 254
      BY <1>1, <1>3, <3>1, Zenon DEF IsLastLong
    <3>3. PICK t \in Seq(Byte) : c = b \o t
      BY <3>2
    <3>4. w[i] = v[i] /\ Count(v[i]) >= 254
      BY <1>1, <1>3, <3>1 DEF IsLastLong
    <3>5. \A j \in 1..n : j > i => Count(v[j]) < 254
      <4> TAKE j \in 1..n
      <4>1. j \in 1..n + 1 /\ w[j] = v[j]
        BY <1>1
      <4> QED BY <1>1, <1>3, <4>1, Zenon DEF IsLastLong
    <3>6. IsLastLong(v, i)
      BY <1>1, <3>4, <3>5 DEF IsLastLong
    <3>7. StartsWith(b, Count(v[i]))
      BY <1>1, <3>1, <3>6, Zenon DEF Starts
    <3>8. PICK m : m = Count(v[i])
      OBVIOUS
    <3>9. StartsWith(b \o t, m)
      BY <3>7, <3>8, AppendKeepsStart
    <3> QED BY <3>3, <3>4, <3>8, <3>9
  <2> QED BY <2>1, <2>2
<1> QED BY <1>1, <1>3 DEF Starts, w

\* What is stored at the start of a message of two bytes at least.
LEMMA StoredAtStart ==
  ASSUME NEW s \in Seq(Byte), Len(s) >= 1, NEW e \in Byte, NEW start \in Seq(Byte),
         NEW rest \in Seq(Byte), NEW n, StartsWith(start, n)
  PROVE  StartsWith(WithStart(s \o <<e>>, start) \o rest, n)
<1> DEFINE tagged == s \o <<e>>   over == WithStart(tagged, start)
<1>1. tagged \in Seq(Byte) /\ Len(tagged) = Len(s) + 1 /\ Len(s) \in Nat
  BY OneByte, Concat, LenProperties
<1>2. Len(start) \in Nat /\ Len(start) >= 2
  BY LenProperties DEF StartsWith
<1>3. 1 \in 1..Len(tagged) /\ 2 \in 1..Len(tagged) /\ 1 \in 1..Len(start) /\ 2 \in 1..Len(start)
  BY <1>1, <1>2
<1> HIDE DEF tagged
<1>4. over \in Seq(Byte) /\ Len(over) = Len(tagged)
  BY <1>1, StartLength
<1>5. over[1] = start[1] /\ over[2] = start[2]
  BY <1>3 DEF WithStart
<1> HIDE DEF over
<1>6. StartsWith(over, n)
  BY <1>1, <1>4, <1>5 DEF StartsWith
<1>7. StartsWith(over \o rest, n)
  BY <1>4, <1>6, AppendKeepsStart
<1> QED BY <1>7 DEF over, tagged

\* A long length starts the message.
LEMMA LongLength ==
  ASSUME NEW s \in Seq(Byte), Len(s) >= 1, NEW n \in Nat, n >= 254,
         NEW g \in Garbage, NEW data \in Seq(Byte)
  PROVE  StartsWith(WithLength(s, n, g) \o data, n)
<1> DEFINE w == WithLength(s, n, g)
<1>1. w \in Seq(Byte)
  BY LengthWritten
<1>2. g \in Seq(Byte) /\ g[1] \in Byte /\ g[2] \in Byte
  BY FourBytes, BuilderAssumption
<1>3. /\ LE16(n) \in Seq(Byte) /\ LE32(n) \in Seq(Byte)
      /\ StartsWith(LE16(n), n) /\ StartsWith(LE32(n), n)
  <2>1. LE16(n) \in Seq(Byte) /\ LE32(n) \in Seq(Byte)
    BY LengthImages, Zenon
  <2>2. StartsWith(LE16(n), n)
    BY DEF StartsWith, LE16
  <2>3. StartsWith(LE32(n), n)
    BY DEF StartsWith, LE32
  <2> QED BY <2>1, <2>2, <2>3
<1>4. 254 \in Byte /\ 255 \in Byte
  BY DEF Byte
<1>5. CASE n > 65535
  <2> DEFINE start == LE32(n)   e == 255
  <2>1. w = WithStart(s \o <<e>>, start) \o g
    BY <1>5 DEF WithLength
  <2> HIDE DEF w
  <2>2. start \in Seq(Byte) /\ StartsWith(start, n) /\ e \in Byte
    BY <1>3, <1>4
  <2> HIDE DEF start, e
  <2>3. StartsWith(w, n)
    BY <1>2, <2>1, <2>2, StoredAtStart
  <2> QED BY <1>1, <2>3, AppendKeepsStart DEF w
<1>6. CASE ~(n > 65535)
  <2> DEFINE start == LE16(n)   e == 254   fresh == <<g[1], g[2]>>
  <2>1. w = WithStart(s \o <<e>>, start) \o fresh
    BY <1>6 DEF WithLength
  <2> HIDE DEF w
  <2>2. start \in Seq(Byte) /\ StartsWith(start, n) /\ e \in Byte
    BY <1>3, <1>4
  <2>3. fresh \in Seq(Byte)
    BY <1>2
  <2> HIDE DEF start, e, fresh
  <2>4. StartsWith(w, n)
    BY <2>1, <2>2, <2>3, StoredAtStart
  <2> QED BY <1>1, <2>4, AppendKeepsStart DEF w
<1> QED BY <1>5, <1>6

-----------------------------------------------------------------------------
(* What the builder builds.                                                *)

\* A message without long strings and collections is the image of what was
\* pushed: the lengths are where Dart looks for them.
AllShort(parts) == \A i \in DOMAIN parts : Count(parts[i]) < 254
SentInv ==
  /\ buffer \in Seq(Byte)
  /\ sent \in Seq(Parts)
  /\ AllShort(sent) => buffer = Image(<< >>, sent)
  /\ Starts(sent, buffer)

\* No bytes are a byte string.
LEMMA Nothing == << >> \in Seq(Byte) /\ Len(<< >>) = 0
BY EmptySeq

\* What the tags say of their values.
LEMMA DoubleTag ==
  /\ kValueFloat64 \in 0..13 /\ kValueFloat64 \in Byte
  /\ kValueFloat64 \notin Plain /\ kValueFloat64 \notin Collections
  /\ kValueFloat64 \notin Arrays /\ kValueFloat64 \notin Counted
  /\ Width(kValueFloat64) = 8 /\ Alignment(kValueFloat64) = 8
<1>1. Width(kValueFloat64) = 8
  BY DEF Width, kValueNull, kValueTrue, kValueFalse, kValueInt32, kValueInt64, kValueFloat64,
     kValueString, kValueList, kValueMap, kStdLargeInt, kStdUInt8Array, kStdInt32Array,
     kStdInt64Array, kStdFloat64Array
<1> QED
  BY <1>1 DEF Plain, Collections, Arrays, Counted, Strings, Alignment, Byte,
     kValueNull, kValueTrue, kValueFalse, kValueInt32, kValueInt64, kValueFloat64,
     kValueString, kValueList, kValueMap, kStdLargeInt, kStdUInt8Array, kStdInt32Array,
     kStdInt64Array, kStdFloat64Array

\* The widths of integers.
LEMMA IntTags ==
  /\ kValueInt32 \notin Plain /\ Width(kValueInt32) = 4
  /\ kValueInt64 \notin Plain /\ Width(kValueInt64) = 8
BY DEF Plain, Width, kValueNull, kValueTrue, kValueFalse, kValueInt32, kValueInt64,
   kValueFloat64, kStdInt32Array, kStdInt64Array, kStdFloat64Array

\* Strings, lists and maps have a length and no alignment.
LEMMA SizedTag ==
  ASSUME NEW tag \in {kValueString, kValueList, kValueMap}
  PROVE  /\ tag \in 0..13 /\ tag \in Byte
         /\ tag \notin Plain /\ tag \notin Arrays /\ tag \in Counted
         /\ (tag \in Collections <=> tag # kValueString)
         /\ tag \notin {kValueInt32, kValueInt64, kValueFloat64}
         /\ Width(tag) = 1 /\ Alignment(tag) = 1
<1>1. Width(tag) = 1
  BY DEF Width, kValueNull, kValueTrue, kValueFalse, kValueInt32, kValueInt64, kValueFloat64,
     kValueString, kValueList, kValueMap, kStdLargeInt, kStdUInt8Array, kStdInt32Array,
     kStdInt64Array, kStdFloat64Array
<1> QED
  BY <1>1 DEF Plain, Collections, Arrays, Counted, Strings, Alignment, Byte,
     kValueNull, kValueTrue, kValueFalse, kValueInt32, kValueInt64, kValueFloat64,
     kValueString, kValueList, kValueMap, kStdLargeInt, kStdUInt8Array, kStdInt32Array,
     kStdInt64Array, kStdFloat64Array

\* A push appends a part to the message, and its image, if it is short, to the
\* buffer.
LEMMA PushKeeps ==
  ASSUME SentInv, NEW p \in Parts, sent' = Append(sent, p), buffer' \in Seq(Byte),
         Count(p) < 254 => buffer' = PartImage(buffer, p),
         Count(p) >= 254 => StartsWith(buffer', Count(p))
  PROVE  SentInv'
<1> DEFINE n == Len(sent)
<1>1. /\ sent' \in Seq(Parts) /\ n \in Nat /\ DOMAIN sent' = 1..n + 1 /\ DOMAIN sent = 1..n
      /\ sent'[n + 1] = p /\ \A i \in 1..n : sent'[i] = sent[i]
  <2> HIDE DEF Parts
  <2> QED BY DEF SentInv
<1>2. ASSUME AllShort(sent') PROVE buffer' = Image(<< >>, sent')
  <2>1. \A i \in 1..n : i \in 1..n + 1
    BY <1>1
  <2>2. AllShort(sent) /\ Count(p) < 254
    BY <1>1, <1>2, <2>1 DEF AllShort
  <2>3. << >> \in Seq(Byte)
    OBVIOUS
  <2>4. PICK none \in Seq(Byte) : none = << >>
    BY <2>3, Zenon
  <2>5. Image(none, Append(sent, p)) = PartImage(Image(none, sent), p)
    BY ImageAppend DEF SentInv
  <2> QED BY <2>2, <2>4, <2>5 DEF SentInv
<1>3. (AllShort(sent) => buffer = Image(<< >>, sent))'
  BY <1>2
<1>4. Starts(sent', buffer')
  <2>1. PICK c \in Seq(Byte) : c = buffer'
    OBVIOUS
  <2>2. Count(p) < 254 => \E t \in Seq(Byte) : c = buffer \o t
    <3>1. buffer \in Seq(Byte) /\ Len(buffer) \in Nat
      BY LenProperties DEF SentInv
    <3>2. PartBytes(Len(buffer), p) \in Seq(Byte)
      BY <3>1, PartBytesTyped
    <3>3. PartImage(buffer, p) = buffer \o PartBytes(Len(buffer), p)
      BY <3>1, PartAppends
    <3> QED BY <2>1, <3>2, <3>3, Zenon
  <2>3. Starts(Append(sent, p), c)
    BY <2>1, <2>2, PushKeepsStart, Zenon DEF SentInv
  <2> QED BY <2>1, <2>3
<1> QED BY <1>1, <1>3, <1>4 DEF SentInv

\* Numbers and what has no data: no length is written, and only doubles are
\* padded.
LEMMA ScalarPart ==
  ASSUME SentInv, NEW tag \in {kValueNull, kValueTrue, kValueFalse, kValueInt32, kValueInt64},
         NEW data \in Seq(Byte), push_scalar(tag, data),
         tag \in Plain => data = << >>, tag \notin Plain => Len(data) = Width(tag)
  PROVE  SentInv'
<1> DEFINE p == [tag |-> tag, data |-> data, count |-> 0]
<1> USE DEF kValueNull, kValueTrue, kValueFalse, kValueInt32, kValueInt64, kValueFloat64,
            kValueString, kValueList, kValueMap, kStdLargeInt, kStdUInt8Array, kStdInt32Array,
            kStdInt64Array, kStdFloat64Array
<1>1. p \in Parts
  BY DEF Parts, Plain, Collections, Arrays
<1>2. sent' = Append(sent, p) /\ buffer' = (buffer \o <<tag>>) \o data
  BY DEF push_scalar, Pushed
<1>3. tag \notin Counted /\ Alignment(tag) = 1 /\ tag \in Byte
  BY DEF Counted, Strings, Arrays, Collections, Alignment, Byte
<1>4. p.tag = tag /\ p.data = data
  OBVIOUS
<1>14. tag \in Plain => Width(tag) = 1
  BY DEF Plain, Width
<1>13. tag \notin Plain => Width(tag) \in {4, 8}
  BY DEF Plain, Width
<1>12. Count(p) < 254
  <2>1. Count(p) = Len(data) \div Width(tag)
    BY <1>3, <1>4 DEF Count, Counted
  <2>2. Len(data) = 0 \/ Len(data) = Width(tag)
    BY Nothing
  <2> HIDE DEF p, kValueNull, kValueTrue, kValueFalse, kValueInt32, kValueInt64
  <2> QED BY <1>14, <1>13, <2>1, <2>2
<1> HIDE DEF p, kValueNull, kValueTrue, kValueFalse, kValueInt32, kValueInt64
<1> DEFINE tagged == buffer \o <<tag>>
<1>5. tagged \in Seq(Byte) /\ Len(tagged) \in Nat
  BY <1>3, OneByte, Concat, LenProperties DEF SentInv
<1>6. Padding(Len(tagged), 1) = << >>
  <2>1. PICK n \in Nat : n = Len(tagged)
    BY <1>5
  <2>2. PadSize(n, 1) = 0
    BY DEF PadSize
  <2> QED BY <2>1, <2>2 DEF Padding
<1>7. PartImage(buffer, p) = (tagged \o << >>) \o data
  BY <1>3, <1>4, <1>6, Zenon DEF PartImage
<1> HIDE DEF tagged
<1>8. tagged \o << >> = tagged
  BY <1>5, ConcatEmptySeq
<1>9. tagged \o data \in Seq(Byte)
  BY <1>5, Concat
<1>10. buffer' \in Seq(Byte) /\ buffer' = PartImage(buffer, p)
  BY <1>2, <1>7, <1>8, <1>9 DEF tagged
<1>11. ~(Count(p) >= 254)
  <2>1. Count(p) \in Nat
    BY <1>1, PartTyped
  <2> QED BY <1>12, <2>1
<1> QED BY <1>1, <1>2, <1>10, <1>11, PushKeeps, Zenon

\* push_float64 appends the image of its double, padding included.
LEMMA DoublePart ==
  ASSUME SentInv, push_float64
  PROVE  SentInv'
<1>1. PICK x \in Doubles :
         /\ buffer' = ((buffer \o <<kValueFloat64>>) \o Padding(Len(buffer) + 1, 8)) \o x
         /\ sent' = Pushed(kValueFloat64, x, 0)
  BY Zenon DEF push_float64
<1>2. x \in Seq(Byte) /\ Len(x) = 8
  BY EightBytes, BuilderAssumption
<1> DEFINE p == [tag |-> kValueFloat64, data |-> x, count |-> 0]   tag == kValueFloat64
<1>11. p.tag = tag /\ p.data = x /\ p.count = 0
  OBVIOUS
<1>12. p \in [tag : 0..13, data : Seq(Byte), count : Nat]
  BY <1>2, DoubleTag
<1>13. p \in Parts
  <2> HIDE DEF p
  <2> QED BY <1>2, <1>11, <1>12, DoubleTag, Zenon DEF Parts
<1>3. /\ p \in Parts /\ tag \notin Counted /\ Alignment(tag) = 8 /\ tag \in Byte
      /\ p.tag = tag /\ p.data = x
  BY <1>11, <1>13, DoubleTag
<1>4. sent' = Append(sent, p)
  BY <1>1 DEF Pushed
<1> HIDE DEF p
<1>5. buffer' = ((buffer \o <<tag>>) \o Padding(Len(buffer) + 1, 8)) \o x
  BY <1>1
<1> HIDE DEF tag
<1>6. Len(buffer \o <<tag>>) = Len(buffer) + 1
  BY <1>3, OneByte, Concat DEF SentInv
<1>7. PartImage(buffer, p) = buffer'
  BY <1>3, <1>5, <1>6 DEF PartImage
<1>8. PartImage(buffer, p) \in Seq(Byte)
  BY <1>3, PartImageTyped, Zenon DEF SentInv
<1>9. Count(p) < 254
  <2>1. Len(x) \div 8 = 1
    BY <1>2
  <2> QED BY <1>3, <2>1, DoubleTag DEF Count, tag
<1>10. ~(Count(p) >= 254)
  <2>1. Count(p) \in Nat
    BY <1>3, PartTyped
  <2> QED BY <1>9, <2>1
<1> QED BY <1>3, <1>4, <1>7, <1>8, <1>10, PushKeeps

\* Strings and collections: a length below 254 is one byte behind the tag.
LEMMA LengthPart ==
  ASSUME SentInv, NEW tag \in {kValueString, kValueList, kValueMap},
         NEW data \in Seq(Byte), NEW n \in Nat, NEW g \in Garbage,
         tag = kValueString => n = 0, tag # kValueString => data = << >>,
         sent' = Pushed(tag, data, n),
         buffer' = WithLength(buffer \o <<tag>>, IF tag = kValueString THEN Len(data) ELSE n, g)
                     \o data
  PROVE  SentInv'
<1> DEFINE p == [tag |-> tag, data |-> data, count |-> n]
           m == IF tag = kValueString THEN Len(data) ELSE n
<1>11. p.tag = tag /\ p.data = data /\ p.count = n
  OBVIOUS
<1>12. p \in [tag : 0..13, data : Seq(Byte), count : Nat]
  BY SizedTag
<1>13. p \in Parts
  <2> HIDE DEF p
  <2> QED BY <1>11, <1>12, SizedTag DEF Parts
<1>1. /\ p \in Parts /\ tag \in Counted /\ Alignment(tag) = 1 /\ tag \in Byte
      /\ Width(tag) = 1
      /\ p.tag = tag /\ p.data = data /\ p.count = n
      /\ tag \in Collections <=> tag # kValueString
  BY <1>11, <1>13, SizedTag
<1>2. sent' = Append(sent, p)
  BY DEF Pushed
<1> HIDE DEF p
<1>3. m \in Nat /\ Len(data) \in Nat
  BY LenProperties
<1>4. Count(p) = m
  <2>1. Len(data) \div 1 = Len(data)
    BY <1>3
  <2> QED BY <1>1, <2>1 DEF Count
<1> DEFINE tagged == buffer \o <<tag>>
<1>5. tagged \in Seq(Byte)
  BY <1>1, OneByte, Concat DEF SentInv
<1>6. buffer' = WithLength(tagged, m, g) \o data
  OBVIOUS
<1> HIDE DEF m, tagged
<1>7. WithLength(tagged, m, g) \in Seq(Byte)
  BY <1>3, <1>5, LengthWritten
<1>8. buffer' \in Seq(Byte)
  <2>1. PICK w \in Seq(Byte) : w = WithLength(tagged, m, g)
    BY <1>7
  <2>2. w \o data \in Seq(Byte)
    BY Concat
  <2> QED BY <1>6, <2>1, <2>2, Zenon
<1>9. ASSUME m < 254 PROVE buffer' = PartImage(buffer, p)
  <2> DEFINE sized == tagged \o <<m>>
  <2>1. m \in Byte
    BY <1>3, <1>9 DEF Byte
  <2>2. sized \in Seq(Byte) /\ Len(sized) \in Nat
    BY <1>5, <2>1, OneByte, Concat, LenProperties
  <2>3. WithLength(tagged, m, g) = sized /\ LengthImage(m) = <<m>>
    BY <1>3, <1>9 DEF WithLength, LengthImage
  <2>4. PartImage(buffer, p) = (sized \o Padding(Len(sized), 1)) \o data
    BY <1>1, <1>4, <2>3, Zenon DEF PartImage, tagged
  <2> HIDE DEF sized
  <2>5. Padding(Len(sized), 1) = << >>
    <3>1. PICK k \in Nat : k = Len(sized)
      BY <2>2
    <3>2. PadSize(k, 1) = 0
      BY DEF PadSize
    <3> QED BY <3>1, <3>2 DEF Padding
  <2>6. sized \o << >> = sized
    BY <2>2, ConcatEmptySeq
  <2> QED BY <1>6, <2>3, <2>4, <2>5, <2>6, Zenon
<1>10. ASSUME m >= 254 PROVE StartsWith(buffer', m)
  <2>1. Len(tagged) >= 1
    <3>1. Len(tagged) = Len(buffer) + 1
      BY <1>1, OneByte, Concat DEF SentInv, tagged
    <3> QED BY <3>1, LenProperties DEF SentInv
  <2>2. StartsWith(WithLength(tagged, m, g) \o data, m)
    BY <1>3, <1>5, <1>10, <2>1, LongLength, Zenon
  <2> QED BY <1>6, <2>2, Zenon
<1> QED BY <1>1, <1>2, <1>4, <1>8, <1>9, <1>10, PushKeeps, Zenon

\* Each operation of the builder keeps what is said of its messages.
LEMMA SentStep ==
  ASSUME SentInv, [BuilderNext]_builderVars
  PROVE  SentInv'
<1>1. ASSUME UNCHANGED <<buffer, sent>> PROVE SentInv'
  BY <1>1 DEF SentInv, AllShort
<1>2. CASE UNCHANGED builderVars \/ segment_finish \/ message_builder_finish
  BY <1>1, <1>2 DEF builderVars, segment_finish, message_builder_finish
<1>3. CASE message_builder_new
  <2>1. buffer' = << >> /\ sent' = << >>
    BY <1>3 DEF message_builder_new
  <2>2. PICK none \in Seq(Byte) : none = << >>
    BY Nothing, Zenon
  <2>3. Image(none, << >>) = none
    BY ImageOfNothing
  <2>4. PICK v \in Seq(Parts) : v = << >>
    BY EmptySeq, Zenon
  <2>5. Starts(v, none)
    BY <2>4 DEF Starts
  <2> QED BY <2>1, <2>2, <2>3, <2>4, <2>5 DEF SentInv
<1>4. CASE PushPlain
  <2>1. PICK tag \in {kValueNull, kValueTrue, kValueFalse} : push_scalar(tag, << >>)
    BY <1>4 DEF PushPlain
  <2>2. PICK data \in Seq(Byte) : data = << >>
    BY Nothing, Zenon
  <2>3. /\ tag \in Plain
        /\ tag \in {kValueNull, kValueTrue, kValueFalse, kValueInt32, kValueInt64}
    BY DEF Plain
  <2>4. push_scalar(tag, data)
    BY <2>1, <2>2
  <2> QED BY <2>2, <2>3, <2>4, ScalarPart, Zenon
<1>5. CASE PushInt32
  <2>1. PICK n \in Int64s : push_scalar(kValueInt32, <<n[1], n[2], n[3], n[4]>>)
    BY <1>5 DEF PushInt32
  <2>2. n \in [1..8 -> Byte]
    BY BuilderAssumption
  <2>6. n[1] \in Byte /\ n[2] \in Byte /\ n[3] \in Byte /\ n[4] \in Byte
    BY <2>2
  <2> HIDE DEF Byte
  <2>7. <<n[1], n[2], n[3], n[4]>> \in Seq(Byte) /\ Len(<<n[1], n[2], n[3], n[4]>>) = 4
    BY <2>6
  <2>3. PICK data \in Seq(Byte) : data = <<n[1], n[2], n[3], n[4]>> /\ Len(data) = 4
    BY <2>7, Zenon
  <2>8. push_scalar(kValueInt32, data)
    BY <2>1, <2>3
  <2> QED BY <2>3, <2>8, IntTags, ScalarPart, Zenon
<1>6. CASE PushInt64
  <2>1. PICK n \in Int64s : push_scalar(kValueInt64, n)
    BY <1>6 DEF PushInt64
  <2>2. n \in Seq(Byte) /\ Len(n) = 8
    BY EightBytes, BuilderAssumption
  <2> QED BY <2>1, <2>2, IntTags, ScalarPart
<1>7. CASE push_string
  <2>1. PICK s \in Names \cup Texts, g \in Garbage :
           /\ buffer' = WithLength(buffer \o <<kValueString>>, Len(s), g) \o s
           /\ sent' = Pushed(kValueString, s, 0)
    BY <1>7, Zenon DEF push_string
  <2>2. s \in Seq(Byte)
    BY BuilderAssumption
  <2> QED BY <2>1, <2>2, LengthPart, Zenon
<1>8. ASSUME NEW tag \in {kValueList, kValueMap}, NEW n \in Sizes, NEW g \in Garbage,
             push_collection(tag, n, g)
      PROVE  SentInv'
  <2>1. buffer' = WithLength(buffer \o <<tag>>, n, g) /\ sent' = Pushed(tag, << >>, n)
    BY <1>8 DEF push_collection
  <2>2. n \in Nat /\ tag # kValueString /\ tag \in Byte
    BY BuilderAssumption DEF kValueList, kValueMap, kValueString, Byte
  <2>3. PICK none \in Seq(Byte) : none = << >>
    BY Nothing, Zenon
  <2> DEFINE sized == WithLength(buffer \o <<tag>>, n, g)
  <2>4. sized \in Seq(Byte)
    <3>1. PICK t \in Seq(Byte) : t = buffer \o <<tag>>
      BY <2>2, OneByte, Concat, Zenon DEF SentInv
    <3>2. WithLength(t, n, g) \in Seq(Byte)
      BY <2>2, LengthWritten
    <3> QED BY <3>1, <3>2
  <2>5. sized \o none = sized
    <3> HIDE DEF sized
    <3> QED BY <2>3, <2>4, ConcatEmptySeq
  <2> QED BY <2>1, <2>2, <2>3, <2>5, LengthPart, Zenon
<1>9. CASE PushList \/ PushMap
  BY <1>8, <1>9 DEF PushList, PushMap
<1>10. CASE push_float64
  BY <1>10, DoublePart, Zenon
<1> QED BY <1>2, <1>3, <1>4, <1>5, <1>6, <1>7, <1>9, <1>10 DEF BuilderNext

-----------------------------------------------------------------------------
(* The values of this module.                                              *)

\* A string is a value.
LEMMA TextTyped ==
  ASSUME NEW s \in Seq(Byte)
  PROVE  Text(s) \in Seq(Parts) /\ Part(kValueString, s, 0) \in Parts
<1> DEFINE p == Part(kValueString, s, 0)
<1>1. p.tag = kValueString /\ p.data = s /\ p.count = 0
  BY DEF Part
<1>2. p \in [tag : 0..13, data : Seq(Byte), count : Nat]
  BY SizedTag DEF Part
<1> HIDE DEF p
<1>3. p \in Parts
  BY <1>1, <1>2, SizedTag DEF Parts
<1>4. <<p>> \in Seq(Parts)
  <2> HIDE DEF Parts
  <2> QED BY <1>3
<1> QED BY <1>3, <1>4 DEF Text, p

\* The null of a reply is a value.
LEMMA NullTyped == Null \in Seq(Parts) /\ Part(kValueNull, << >>, 0) \in Parts
<1> DEFINE p == Part(kValueNull, << >>, 0)
<1>1. p.tag = kValueNull /\ p.data = << >> /\ p.count = 0
  BY DEF Part
<1>2. /\ kValueNull \in 0..13 /\ kValueNull \notin Arrays
      /\ kValueNull \notin {kValueInt32, kValueInt64, kValueFloat64}
      /\ kValueNull \in Plain
  BY DEF Arrays, Plain, kValueNull, kValueInt32, kValueInt64, kValueFloat64,
     kStdUInt8Array, kStdInt32Array, kStdInt64Array, kStdFloat64Array
<1>3. p \in [tag : 0..13, data : Seq(Byte), count : Nat]
  BY <1>2, Nothing DEF Part
<1> HIDE DEF p
<1>4. p \in Parts
  BY <1>1, <1>2, <1>3 DEF Parts
<1>5. <<p>> \in Seq(Parts)
  <2> HIDE DEF Parts
  <2> QED BY <1>4
<1> QED BY <1>4, <1>5 DEF Null, p

\* A list or a map with its members behind it.
LEMMA CollectionTyped ==
  ASSUME NEW tag \in Collections, NEW n \in Nat
  PROVE  Part(tag, << >>, n) \in Parts /\ <<Part(tag, << >>, n)>> \in Seq(Parts)
<1> DEFINE p == Part(tag, << >>, n)
<1>1. p.tag = tag /\ p.data = << >> /\ p.count = n
  BY DEF Part
<1>2. tag \in {kValueString, kValueList, kValueMap} /\ tag # kValueString
  BY DEF Collections, kValueString, kValueList, kValueMap
<1>3. p \in [tag : 0..13, data : Seq(Byte), count : Nat]
  BY <1>2, SizedTag, Nothing DEF Part
<1> HIDE DEF p
<1>4. p \in Parts
  BY <1>1, <1>2, <1>3, SizedTag DEF Parts
<1>5. <<p>> \in Seq(Parts)
  <2> HIDE DEF Parts
  <2> QED BY <1>4
<1> QED BY <1>4, <1>5 DEF p

\* Values behind each other are parts behind each other.
LEMMA ConcatParts ==
  ASSUME NEW v \in Seq(Parts), NEW w \in Seq(Parts)
  PROVE  v \o w \in Seq(Parts) /\ Len(v \o w) = Len(v) + Len(w)
BY ConcatProperties

-----------------------------------------------------------------------------
(* Replies.                                                                *)

\* What ReplyUnderstood says of a reply that is sent, with the types.
Replied ==
  /\ answer.kind \in {"success", "error", "missing"}
  /\ reply.bytes \in Seq(Byte)
  /\ reply.size = Len(reply.bytes)
  /\ reply.bytes =
       CASE answer.kind = "missing" -> << >>
         [] answer.kind = "success" -> Image(<<0>>, answer.values)
         [] answer.kind = "error" -> Image(<<1>>, answer.values)

\* platch_respond sends the image of its answer in a buffer of its size.
LEMMA PlatchReplied ==
  ASSUME NEW what, what.kind \in {"success", "error"}, what.values \in Seq(Parts),
         platch_respond(what)
  PROVE  Replied'
<1> DEFINE success == what.kind = "success"   v == what.values
           start == <<IF success THEN 0 ELSE 1>>
<1>1. success \in BOOLEAN /\ v \in Seq(Parts)
  OBVIOUS
<1>2. answer' = what /\ reply' = platch_encode(success, v)
  BY DEF platch_respond, Send
<1>3. start \in Seq(Byte)
  BY DEF Byte
<1> HIDE DEF success, v
<1>4. /\ platch_encode(success, v).bytes = Image(start, v)
      /\ platch_encode(success, v).size = Len(Image(start, v))
  BY <1>1, Encoded
<1>5. Image(start, v) \in Seq(Byte)
  <2> HIDE DEF start
  <2> QED BY <1>1, <1>3, ImageTyped
<1>6. what.kind = "success" => start = <<0>>
  BY DEF success
<1>7. what.kind = "error" => start = <<1>>
  BY DEF success
<1> HIDE DEF start
<1>8. /\ reply'.bytes = Image(start, v) /\ reply'.bytes \in Seq(Byte)
      /\ reply'.size = Len(reply'.bytes)
      /\ answer'.kind = what.kind /\ answer'.values = v
  BY <1>2, <1>4, <1>5 DEF v
<1> QED BY <1>6, <1>7, <1>8 DEF Replied

\* method_call_null_success is the image of a null.
LEMMA NullReplied == ASSUME RespondNullSuccess PROVE Replied'
<1>1. answer' = Success /\ reply' = NullSuccess
  BY DEF RespondNullSuccess, Send
<1>2. <<0, 0>> \in Seq(Byte) /\ Len(<<0, 0>>) = 2 /\ <<0>> \in Seq(Byte) /\ Len(<<0>>) = 1
  BY DEF Byte
<1>3. Image(<<0>>, Null) = <<0, 0>>
  <2> DEFINE p == Part(kValueNull, << >>, 0)
  <2>1. PICK start \in Seq(Byte) : start = <<0>> /\ Len(start) = 1
    BY <1>2, Zenon
  <2>2. PICK none \in Seq(Parts) : none = << >>
    BY EmptySeq, Zenon
  <2>3. Null = Append(none, p)
    BY <2>2 DEF Null
  <2>4. p \in Parts
    BY NullTyped
  <2>5. p.tag = 0 /\ p.data = << >> /\ p.tag \notin Counted /\ Alignment(p.tag) = 1
    BY DEF Part, kValueNull, Counted, Strings, Arrays, Collections, Alignment, kValueString,
       kStdLargeInt, kStdUInt8Array, kStdInt32Array, kStdInt64Array, kStdFloat64Array,
       kValueList, kValueMap, kValueFloat64
  <2> HIDE DEF p
  <2>6. Image(start, Null) = PartImage(Image(start, none), p)
    BY <2>3, <2>4, ImageAppend
  <2>7. Image(start, none) = start
    BY <2>2, ImageOfNothing
  <2>8. PICK two \in Seq(Byte) : two = <<0, 0>> /\ Len(two) = 2
    BY <1>2, Zenon
  <2>9. start \o <<0>> = two
    <3>1. /\ Len(start \o start) = 2 /\ start \o start \in Seq(Byte)
          /\ (start \o start)[1] = 0 /\ (start \o start)[2] = 0
      BY <2>1, ConcatProperties
    <3>2. two[1] = 0 /\ two[2] = 0
      BY <2>8
    <3>3. \A i \in 1..2 : (start \o start)[i] = two[i]
      BY <3>1, <3>2
    <3> QED BY <2>1, <2>8, <3>1, <3>3, SeqEqual, Zenon
  <2>10. Padding(2, 1) = << >>
    BY DEF Padding, PadSize
  <2>11. PartImage(start, p) = (two \o << >>) \o << >>
    BY <2>5, <2>8, <2>9, <2>10, Zenon DEF PartImage
  <2>12. two \o << >> = two
    BY ConcatEmptySeq
  <2> QED BY <2>1, <2>6, <2>7, <2>8, <2>11, <2>12
<1> QED BY <1>1, <1>2, <1>3 DEF Success, NullSuccess, Replied

\* An empty response is one too.
LEMMA MissingReplied == ASSUME RespondNull PROVE Replied'
BY Nothing DEF RespondNull, Send, Missing, NoReply, Replied

\* The values of an error.
LEMMA ErrorTyped ==
  ASSUME NEW v \in Seq(Parts)
  PROVE  Error(v).kind = "error" /\ Error(v).values \in Seq(Parts)
<1>1. Spell["error"] \in Seq(Byte) /\ Spell["Failed"] \in Seq(Byte)
  BY ChannelAssumption DEF Spelled
<1>2. Text(Spell["error"]) \in Seq(Parts) /\ Text(Spell["Failed"]) \in Seq(Parts)
  BY <1>1, TextTyped
<1>3. (Text(Spell["error"]) \o Text(Spell["Failed"])) \o v \in Seq(Parts)
  BY <1>2, ConcatParts
<1> QED BY <1>3 DEF Error

-----------------------------------------------------------------------------
(* Calls.                                                                  *)

\* The arguments of a method are numbered from one.
LEMMA ArgsNumbered ==
  ASSUME NEW m \in DOMAIN DartArgs
  PROVE  \E n \in Nat : DOMAIN DartArgs[m] = 1..n
<1>1. DOMAIN Handle = 1..1
  BY DEF Handle
<1>2. DOMAIN PointerArgs = 1..31
  BY DEF PointerArgs
<1>3. \A a, b, c, d :
         /\ DOMAIN <<a>> = 1..1 /\ DOMAIN <<a, b>> = 1..2
         /\ DOMAIN <<a, b, c>> = 1..3 /\ DOMAIN <<a, b, c, d>> = 1..4
  OBVIOUS
<1>4. DOMAIN DartArgs[m] \in {1..1, 1..2, 1..3, 1..4, 1..31}
  BY <1>1, <1>2, <1>3 DEF DartArgs
<1> QED BY <1>4, Zenon

\* The bytes of a call.
LEMMA Requested ==
  ASSUME NEW m \in Spelled, NEW args \in Seq(Parts)
  PROVE  Image(Image(<< >>, Text(Spell[m])), args) \in Seq(Byte)
<1>1. Spell[m] \in Seq(Byte)
  BY ChannelAssumption
<1>2. PICK text \in Seq(Parts) : text = Text(Spell[m])
  BY <1>1, TextTyped
<1>3. PICK none \in Seq(Byte) : none = << >>
  BY Nothing, Zenon
<1>4. PICK name \in Seq(Byte) : name = Image(none, text)
  BY ImageTyped
<1>5. Image(name, args) \in Seq(Byte)
  BY ImageTyped
<1> QED BY <1>2, <1>3, <1>4, <1>5

\* The arguments of a call, by their numbers.
Given(m, values) == [i \in DOMAIN DartArgs[m] |-> values[DartArgs[m][i]]]

\* A call with arguments sends them in a list.
LEMMA ListTyped ==
  ASSUME NEW m \in DOMAIN DartArgs, NEW values \in ArgValues
  PROVE  LET args == Given(m, values)
         IN  /\ args \in Seq(Parts) /\ Len(args) \in Nat
             /\ DOMAIN DartArgs[m] = 1..Len(args)
             /\ List(args) = <<Part(kValueList, << >>, Len(args))>> \o args
             /\ Part(kValueList, << >>, Len(args)) \in Parts
             /\ <<Part(kValueList, << >>, Len(args))>> \in Seq(Parts)
             /\ List(args) \in Seq(Parts)
<1> DEFINE args == Given(m, values)
<1>1. PICK n \in Nat : DOMAIN DartArgs[m] = 1..n
  BY ArgsNumbered
<1>2. \A i \in DOMAIN DartArgs[m] : values[DartArgs[m][i]] \in Parts
  BY ChannelAssumption DEF Sendable
<1>3. args \in [1..n -> Parts]
  BY <1>1, <1>2 DEF Given
<1>4. args \in Seq(Parts) /\ DOMAIN args = 1..n
  <2> HIDE DEF args
  <2> QED BY <1>3, IsASeq
<1>5. Len(args) = n
  <2> HIDE DEF args
  <2> QED BY <1>4, LenProperties
<1>6. kValueList \in Collections
  BY DEF Collections
<1>7. /\ Part(kValueList, << >>, n) \in Parts
      /\ <<Part(kValueList, << >>, n)>> \in Seq(Parts)
  BY <1>6, CollectionTyped
<1>8. List(args) = <<Part(kValueList, << >>, n)>> \o args
  BY <1>5 DEF List
<1>9. List(args) \in Seq(Parts)
  <2> PICK head \in Seq(Parts) : head = <<Part(kValueList, << >>, n)>>
    BY <1>7, Zenon
  <2> HIDE DEF args
  <2>1. head \o args \in Seq(Parts)
    BY <1>4, ConcatParts
  <2> QED BY <1>8, <2>1
<1> HIDE DEF args
<1>10. /\ args \in Seq(Parts) /\ Len(args) \in Nat
       /\ DOMAIN DartArgs[m] = 1..Len(args)
       /\ List(args) = <<Part(kValueList, << >>, Len(args))>> \o args
       /\ Part(kValueList, << >>, Len(args)) \in Parts
       /\ <<Part(kValueList, << >>, Len(args))>> \in Seq(Parts)
       /\ List(args) \in Seq(Parts)
  BY <1>1, <1>4, <1>5, <1>7, <1>8, <1>9
<1> QED BY <1>10 DEF args

\* The arguments of the cursor's methods are a map.
LEMMA CursorTyped ==
  ASSUME NEW kind \in Kinds
  PROVE  CursorArgs(kind) \in Seq(Parts)
<1> DEFINE map == <<Part(kValueMap, << >>, 2)>>
           device == Text(Spell["device"])   one == Part(kValueInt32, <<1, 0, 0, 0>>, 0)
           key == Text(Spell["kind"])   value == Text(kind)
<1>1. map \in Seq(Parts)
  BY CollectionTyped DEF Collections
<1>2. device \in Seq(Parts) /\ key \in Seq(Parts) /\ value \in Seq(Parts)
  BY TextTyped, ChannelAssumption DEF Spelled
<1>3. one \in Parts
  <2>1. one.tag = kValueInt32 /\ one.data = <<1, 0, 0, 0>> /\ one.count = 0
    BY DEF Part
  <2>2. <<1, 0, 0, 0>> \in Seq(Byte) /\ Len(<<1, 0, 0, 0>>) = 4
    BY DEF Byte
  <2>3. /\ kValueInt32 \in 0..13 /\ kValueInt32 \notin Plain /\ kValueInt32 \notin Arrays
        /\ kValueInt32 \notin Collections
    BY DEF Plain, Arrays, Collections, kValueNull, kValueTrue, kValueFalse, kValueInt32,
       kStdUInt8Array, kStdInt32Array, kStdInt64Array, kStdFloat64Array, kValueList, kValueMap
  <2>4. one \in [tag : 0..13, data : Seq(Byte), count : Nat]
    BY <2>2, <2>3 DEF Part
  <2> HIDE DEF one
  <2> QED BY <2>1, <2>2, <2>3, <2>4, IntTags, Zenon DEF Parts
<1>4. <<one>> \in Seq(Parts)
  <2> HIDE DEF one, Parts
  <2> QED BY <1>3
<1> DEFINE number == <<one>>
<1>5. CursorArgs(kind) = (((map \o device) \o number) \o key) \o value
  BY DEF CursorArgs
<1> HIDE DEF map, device, number, key, value
<1>6. map \o device \in Seq(Parts)
  BY <1>1, <1>2, ConcatParts
<1>7. (map \o device) \o number \in Seq(Parts)
  BY <1>4, <1>6, ConcatParts DEF number
<1>8. ((map \o device) \o number) \o key \in Seq(Parts)
  BY <1>2, <1>7, ConcatParts
<1> QED BY <1>2, <1>5, <1>8, ConcatParts

\* The reply to get_socket_paths.
LEMMA SocketTyped ==
  ASSUME NEW path \in SocketPaths
  PROVE  SocketMap(path) \in Seq(Parts)
<1> DEFINE map == <<Part(kValueMap, << >>, 2)>>
           key == Text(Spell["wayland"])   value == Text(path)
           other == Text(Spell["x"])   nothing == Text(<< >>)
<1>1. map \in Seq(Parts)
  BY CollectionTyped DEF Collections
<1>2. key \in Seq(Parts) /\ other \in Seq(Parts) /\ value \in Seq(Parts)
  BY TextTyped, ChannelAssumption DEF Spelled
<1>3. nothing \in Seq(Parts)
  BY TextTyped, Nothing, Zenon
<1>4. SocketMap(path) = (((map \o key) \o value) \o other) \o nothing
  BY DEF SocketMap
<1> HIDE DEF map, key, value, other, nothing
<1>5. map \o key \in Seq(Parts)
  BY <1>1, <1>2, ConcatParts
<1>6. (map \o key) \o value \in Seq(Parts)
  BY <1>2, <1>5, ConcatParts
<1>7. ((map \o key) \o value) \o other \in Seq(Parts)
  BY <1>2, <1>6, ConcatParts
<1> QED BY <1>3, <1>4, <1>7, ConcatParts

-----------------------------------------------------------------------------
(* The first invariant: the builder's, bytes in both directions, and a     *)
(* reply that is the image of its answer.                                  *)

ReplyInv == \/ answer = NoAnswer /\ reply = NoReply
            \/ Replied
Inv ==
  /\ BuilderInv /\ SentInv
  /\ request \in Seq(Byte)
  /\ ReplyInv

\* A call that Dart makes.
LEMMA InvokeKeeps ==
  ASSUME Inv, NEW channel, NEW m \in Spelled, NEW args \in Seq(Parts),
         Invoke(channel, m, args)
  PROVE  Inv'
<1>1. request' \in Seq(Byte)
  BY Requested DEF Invoke
<1>2. UNCHANGED <<buffer, capacity, segments, sent, stage, answer, reply>>
  BY DEF Invoke, builderVars
<1>3. BuilderInv' /\ SentInv'
  BY <1>2 DEF Inv, BuilderInv, BuilderTypeOK, CapacityOK, SentInv, AllShort
<1>4. ReplyInv'
  BY <1>2 DEF Inv, ReplyInv, Replied
<1> QED BY <1>1, <1>3, <1>4 DEF Inv

\* An answer of the compositor.
LEMMA AnswerKeeps ==
  ASSUME Inv, UNCHANGED <<builderVars, call, request>>, Replied'
  PROVE  Inv'
<1>1. UNCHANGED <<buffer, capacity, segments, sent, stage, request>>
  BY DEF builderVars
<1>2. BuilderInv' /\ SentInv'
  BY <1>1 DEF Inv, BuilderInv, BuilderTypeOK, CapacityOK, SentInv, AllShort
<1> QED BY <1>1, <1>2 DEF Inv, ReplyInv

\* Each message of the platform thread keeps the invariant.
LEMMA Step ==
  ASSUME Inv, [Next]_channelVars
  PROVE  Inv'
<1>1. CASE Build
  <2>1. [BuilderNext]_builderVars /\ UNCHANGED <<request, answer, reply>>
    BY <1>1 DEF Build, callVars
  <2>2. BuilderInv' /\ SentInv'
    BY <2>1, BuilderStep, SentStep DEF Inv
  <2> QED BY <2>1, <2>2 DEF Inv, ReplyInv, Replied
<1>2. CASE DartReceivesMessage
  <2>1. /\ buffer' = << >> /\ capacity' = 0 /\ sent' = << >> /\ stage' = "none"
        /\ UNCHANGED <<request, answer, reply>>
    BY <1>2 DEF DartReceivesMessage, callVars
  <2>2. PICK none \in Seq(Byte) : none = << >>
    BY Nothing, Zenon
  <2>3. PICK v \in Seq(Parts) : v = << >>
    BY EmptySeq, Zenon
  <2>4. Image(none, << >>) = none
    BY ImageOfNothing
  <2>5. Starts(v, none)
    BY <2>3 DEF Starts
  <2>6. SentInv'
    BY <2>1, <2>2, <2>3, <2>4, <2>5 DEF SentInv
  <2>7. BuilderInv'
    BY <2>1, <2>2, Nothing DEF BuilderInv, BuilderTypeOK, CapacityOK
  <2> QED BY <2>1, <2>6, <2>7 DEF Inv, ReplyInv, Replied
<1>3. CASE InvokeWithArgs
  <2>1. PICK m \in DOMAIN DartArgs, values \in ArgValues :
           Invoke("wlroots", m, List([i \in DOMAIN DartArgs[m] |-> values[DartArgs[m][i]]]))
    BY <1>3, Zenon DEF InvokeWithArgs
  <2>2. m \in Spelled
    BY DEF Spelled
  <2>3. PICK args \in Seq(Parts) :
           args = List([i \in DOMAIN DartArgs[m] |-> values[DartArgs[m][i]]])
    BY ListTyped, Zenon DEF Given
  <2> QED BY <2>1, <2>2, <2>3, InvokeKeeps
<1>4. CASE InvokeBare \/ InvokeUnknown \/ InvokePlugin \/ InvokeOther
  <2>1. PICK m \in BareMethods \cup {"unknown"}, channel \in {"wlroots", "plugin", "other"} :
           Invoke(channel, m, Null)
    BY <1>4 DEF InvokeBare, InvokeUnknown, InvokePlugin, InvokeOther
  <2>2. m \in Spelled
    BY DEF Spelled
  <2> QED BY <2>1, <2>2, NullTyped, InvokeKeeps
<1>5. CASE InvokeCursor
  <2>1. PICK m \in CursorMethods, kind \in Kinds :
           Invoke("flutter/mousecursor", m, CursorArgs(kind))
    BY <1>5 DEF InvokeCursor
  <2>2. m \in Spelled
    BY DEF Spelled
  <2> QED BY <2>1, <2>2, CursorTyped, InvokeKeeps
<1>6. CASE DispatchUndecodable \/ DispatchOther
  <2>1. RespondNull /\ UNCHANGED <<builderVars, call, request>>
    BY <1>6 DEF DispatchUndecodable, DispatchOther
  <2> QED BY <2>1, MissingReplied, AnswerKeeps
<1>7. CASE DispatchDecoded
  <2>1. (RespondNullSuccess \/ RespondNull) /\ UNCHANGED <<builderVars, call, request>>
    BY <1>7 DEF DispatchDecoded
  <2> QED BY <2>1, NullReplied, MissingReplied, AnswerKeeps
<1>8. CASE DispatchInline
  <2>1. /\ RespondNullSuccess \/ RespondNull \/ platch_respond(Error(Null))
        /\ UNCHANGED <<builderVars, call, request>>
    BY <1>8 DEF DispatchInline
  <2>2. platch_respond(Error(Null)) => Replied'
    BY NullTyped, ErrorTyped, PlatchReplied
  <2> QED BY <2>1, <2>2, NullReplied, MissingReplied, AnswerKeeps
<1>9. CASE DispatchBare
  <2>1. UNCHANGED <<builderVars, call, request>>
    BY <1>9 DEF DispatchBare
  <2>2. ASSUME NEW path \in SocketPaths,
               platch_respond([kind |-> "success", values |-> SocketMap(path)])
        PROVE  Replied'
    <3>1. PICK what : what = [kind |-> "success", values |-> SocketMap(path)]
      BY Zenon
    <3>2. what.kind = "success" /\ what.values \in Seq(Parts)
      BY <3>1, SocketTyped
    <3> QED BY <2>2, <3>1, <3>2, PlatchReplied
  <2>3. \/ RespondNullSuccess
        \/ \E path \in SocketPaths :
             platch_respond([kind |-> "success", values |-> SocketMap(path)])
    BY <1>9, Zenon DEF DispatchBare
  <2> QED BY <2>1, <2>2, <2>3, NullReplied, AnswerKeeps, Zenon
<1>10. CASE cursor_handle_message
  <2>1. (platch_respond(Success) \/ RespondNull) /\ UNCHANGED <<builderVars, call, request>>
    BY <1>10 DEF cursor_handle_message
  <2>2. platch_respond(Success) => Replied'
    <3>1. Success.kind = "success" /\ Success.values \in Seq(Parts)
      BY NullTyped DEF Success
    <3> QED BY <3>1, PlatchReplied
  <2> QED BY <2>1, <2>2, MissingReplied, AnswerKeeps
<1>11. CASE PluginAnswers
  <2>1. UNCHANGED <<builderVars, call, request>>
    BY <1>11 DEF PluginAnswers
  <2>2. PICK v \in Answers :
           \/ platch_respond([kind |-> "success", values |-> v])
           \/ platch_respond(Error(v))
    BY <1>11 DEF PluginAnswers
  <2>3. v \in Seq(Parts)
    BY ChannelAssumption
  <2>4. platch_respond(Error(v)) => Replied'
    BY <2>3, ErrorTyped, PlatchReplied
  <2>5. platch_respond([kind |-> "success", values |-> v]) => Replied'
    <3>1. PICK what : what = [kind |-> "success", values |-> v]
      BY Zenon
    <3>2. what.kind = "success" /\ what.values \in Seq(Parts)
      BY <2>3, <3>1
    <3> QED BY <3>1, <3>2, PlatchReplied
  <2> QED BY <2>1, <2>2, <2>4, <2>5, AnswerKeeps
<1>12. CASE DartReceivesReply
  <2>1. /\ UNCHANGED <<buffer, capacity, segments, sent, stage>>
        /\ request' = << >> /\ answer' = NoAnswer /\ reply' = NoReply
    BY <1>12 DEF DartReceivesReply, builderVars
  <2>2. BuilderInv' /\ SentInv'
    BY <2>1 DEF Inv, BuilderInv, BuilderTypeOK, CapacityOK, SentInv, AllShort
  <2> QED BY <2>1, <2>2, Nothing DEF Inv, ReplyInv
<1>13. CASE UNCHANGED channelVars
  <2>1. UNCHANGED <<buffer, capacity, segments, sent, stage, request, answer, reply>>
    BY <1>13 DEF channelVars, callVars, builderVars
  <2>2. BuilderInv' /\ SentInv'
    BY <2>1 DEF Inv, BuilderInv, BuilderTypeOK, CapacityOK, SentInv, AllShort
  <2> QED BY <2>1, <2>2 DEF Inv, ReplyInv, Replied
<1> QED BY <1>1, <1>2, <1>3, <1>4, <1>5, <1>6, <1>7, <1>8, <1>9, <1>10, <1>11, <1>12, <1>13
        DEF Next

\* The inductive invariant holds: what is built, asked and answered are bytes
\* of the format, from the start and after each step.
THEOREM InvariantHolds == Spec => []Inv
<1>1. Init => Inv
  <2> SUFFICES ASSUME Init PROVE Inv
    OBVIOUS
  <2>1. /\ buffer = << >> /\ capacity = 0 /\ sent = << >> /\ stage = "none"
        /\ request = << >> /\ answer = NoAnswer /\ reply = NoReply
    BY DEF Init, BuilderInit
  <2>2. PICK none \in Seq(Byte) : none = << >>
    BY Nothing, Zenon
  <2>3. PICK v \in Seq(Parts) : v = << >>
    BY EmptySeq, Zenon
  <2>4. Image(none, << >>) = none
    BY ImageOfNothing
  <2>5. Starts(v, none)
    BY <2>3 DEF Starts
  <2>6. SentInv
    BY <2>1, <2>2, <2>3, <2>4, <2>5 DEF SentInv
  <2>7. BuilderInv
    BY <2>1, <2>2, Nothing DEF BuilderInv, BuilderTypeOK, CapacityOK
  <2> QED BY <2>1, <2>2, <2>6, <2>7 DEF Inv, ReplyInv
<1>2. Inv /\ [Next]_channelVars => Inv'
  BY Step
<1> QED BY <1>1, <1>2, PTL DEF Spec

\* Requests and replies are bytes, and so is what is built.
THEOREM TypeOKHolds == Spec => []TypeOK
<1>1. Inv => TypeOK
  <2> SUFFICES ASSUME Inv PROVE TypeOK
    OBVIOUS
  <2>1. BuilderTypeOK /\ request \in Seq(Byte)
    BY DEF Inv, BuilderInv
  <2>2. CASE answer = NoAnswer /\ reply = NoReply
    BY <2>1, <2>2, Nothing DEF TypeOK, NoAnswer, NoReply
  <2>3. CASE Replied
    <3>1. Len(reply.bytes) \in Nat
      BY <2>3, LenProperties DEF Replied
    <3> QED BY <2>1, <2>3, <3>1 DEF TypeOK, Replied
  <2> QED BY <2>2, <2>3 DEF Inv, ReplyInv
<1> QED BY <1>1, InvariantHolds, PTL

\* No message is written behind the end of its buffer, whatever is pushed
\* between the calls of Dart.
THEOREM CapacityOKHolds == Spec => []CapacityOK
<1>1. Inv => CapacityOK
  BY DEF Inv, BuilderInv
<1> QED BY <1>1, InvariantHolds, PTL

\* Whatever is pushed in whatever order, Dart reads a message without strings
\* and collections of 254 or more as what was pushed.
THEOREM ShortMessagesReadHolds == Spec => []ShortMessagesRead
<1>1. Inv => ShortMessagesRead
  BY DEF Inv, SentInv, AllShort, ShortMessagesRead
<1> QED BY <1>1, InvariantHolds, PTL

\* The last long length, of 16 or of 32 bits, is what the message begins with.
THEOREM LongLengthsAtStartHolds == Spec => []LongLengthsAtStart
<1>1. Inv => LongLengthsAtStart
  <2> SUFFICES ASSUME Inv, NEW i \in DOMAIN sent, IsLastLong(sent, i)
               PROVE  SubSeq(buffer, 1, 2) = LE16(Count(sent[i]))
    BY DEF LongLengthsAtStart, IsLastLong
  <2>1. StartsWith(buffer, Count(sent[i]))
    BY DEF Inv, SentInv, Starts
  <2>2. \A k \in 1..2 : buffer[k] \in Byte
    <3>1. buffer \in Seq(Byte) /\ Len(buffer) \in Nat /\ Len(buffer) >= 2
      BY <2>1, LenProperties DEF Inv, SentInv, StartsWith
    <3>2. \A k \in 1..Len(buffer) : buffer[k] \in Byte
      BY <3>1, ElementOfSeq
    <3> QED BY <3>1, <3>2
  <2>3. /\ SubSeq(buffer, 1, 2) \in Seq(Byte) /\ Len(SubSeq(buffer, 1, 2)) = 2
        /\ \A k \in 1..2 : SubSeq(buffer, 1, 2)[k] = buffer[k]
    BY <2>2, SubSeqProperties
  <2>4. PICK n : n = Count(sent[i])
    OBVIOUS
  <2>5. n \in Nat
    <3>1. sent[i] \in Parts
      BY ElementOfSeq, LenProperties DEF Inv, SentInv
    <3> QED BY <2>4, <3>1, PartTyped
  <2>6. LE16(n) \in Seq(Byte) /\ Len(LE16(n)) = 2
        /\ LE16(n)[1] = n % 256 /\ LE16(n)[2] = (n \div 256) % 256
    <3>1. LE16(n) \in Seq(Byte)
      BY <2>5, LengthImages
    <3> QED BY <3>1 DEF LE16
  <2>7. \A k \in 1..2 : SubSeq(buffer, 1, 2)[k] = LE16(n)[k]
    BY <2>1, <2>3, <2>4, <2>6 DEF StartsWith
  <2> QED BY <2>3, <2>4, <2>6, <2>7, SeqEqual
<1> QED BY <1>1, InvariantHolds, PTL

\* Each reply fills what was allocated for it and is read as the answer that
\* was meant, whatever a plugin answers with.
THEOREM ReplyUnderstoodHolds == Spec => []ReplyUnderstood
<1>1. Inv => ReplyUnderstood
  BY DEF Inv, ReplyInv, Replied, ReplyUnderstood
<1> QED BY <1>1, InvariantHolds, PTL

-----------------------------------------------------------------------------
(* Reading what was written.                                               *)

\* What is in front keeps its place.
LEMMA FrontByte ==
  ASSUME NEW s \in Seq(Byte), NEW t \in Seq(Byte), NEW i \in 1..Len(s)
  PROVE  (s \o t)[i] = s[i]
<1>1. Len(s) \in Nat /\ Len(t) \in Nat
  BY LenProperties
<1>2. i \in 1..Len(s) + Len(t) /\ i <= Len(s)
  BY <1>1
<1> QED BY <1>2, ConcatProperties

\* What is behind is moved by what is in front.
LEMMA BackByte ==
  ASSUME NEW s \in Seq(Byte), NEW t \in Seq(Byte), NEW i \in 1..Len(t)
  PROVE  (s \o t)[Len(s) + i] = t[i]
<1>1. Len(s) \in Nat /\ Len(t) \in Nat
  BY LenProperties
<1>2. Len(s) + i \in 1..Len(s) + Len(t) /\ ~(Len(s) + i <= Len(s)) /\ (Len(s) + i) - Len(s) = i
  BY <1>1
<1> QED BY <1>2, ConcatProperties

\* A slice of what was written between two others.
LEMMA SliceOf ==
  ASSUME NEW s \in Seq(Byte), NEW d \in Seq(Byte), NEW t \in Seq(Byte)
  PROVE  Slice((s \o d) \o t, Len(s), Len(d)) = d
<1> DEFINE b == (s \o d) \o t   m == Len(s) + 1   n == Len(s) + Len(d)
<1>1. Len(s) \in Nat /\ Len(d) \in Nat
  BY LenProperties
<1>2. s \o d \in Seq(Byte) /\ Len(s \o d) = Len(s) + Len(d)
  BY Concat
<1>3. \A i \in 1..Len(d) : b[Len(s) + i] = d[i]
  <2> TAKE i \in 1..Len(d)
  <2>1. (s \o d)[Len(s) + i] = d[i]
    BY BackByte
  <2>2. PICK k \in 1..Len(s \o d) : k = Len(s) + i
    BY <1>1, <1>2
  <2>3. ((s \o d) \o t)[k] = (s \o d)[k]
    <3> PICK u \in Seq(Byte) : u = s \o d
      BY <1>2, Zenon
    <3>1. (u \o t)[k] = u[k]
      BY <2>2, FrontByte
    <3> QED BY <3>1
  <2> QED BY <2>1, <2>2, <2>3
<1>4. \A j \in m..n : b[j] \in Byte
  <2> TAKE j \in m..n
  <2>1. PICK i \in 1..Len(d) : j = Len(s) + i
    <3>1. j - Len(s) \in 1..Len(d) /\ j = Len(s) + (j - Len(s))
      BY <1>1
    <3> QED BY <3>1, Zenon
  <2>2. d[i] \in Byte
    BY ElementOfSeq
  <2> QED BY <1>3, <2>1, <2>2
<1>5. m \in Int /\ n \in Int
  BY <1>1
<1> HIDE DEF b
<1>6. /\ SubSeq(b, m, n) \in Seq(Byte)
      /\ Len(SubSeq(b, m, n)) = IF m <= n THEN n - m + 1 ELSE 0
      /\ \A i \in 1..n - m + 1 : SubSeq(b, m, n)[i] = b[m + i - 1]
  <2> HIDE DEF m, n
  <2> QED BY <1>4, <1>5, SubSeqProperties
<1>7. Len(SubSeq(b, m, n)) = Len(d)
  BY <1>1, <1>6
<1>8. \A i \in 1..Len(d) : SubSeq(b, m, n)[i] = d[i]
  <2> TAKE i \in 1..Len(d)
  <2>1. i \in 1..n - m + 1 /\ m + i - 1 = Len(s) + i
    BY <1>1
  <2> QED BY <1>3, <1>6, <2>1
<1>9. SubSeq(b, m, n) = d
  BY <1>6, <1>7, <1>8, SeqEqual, Zenon
<1> QED BY <1>9 DEF Slice, b

\* Division and remainder by 256.
LEMMA Halves ==
  ASSUME NEW n \in Nat
  PROVE  /\ n \div 256 \in Nat /\ n % 256 \in Nat /\ n % 256 < 256
         /\ n = 256 * (n \div 256) + (n % 256)
BY SMT

\* The bytes of a length add up to it.
LEMMA LengthBytes ==
  ASSUME NEW n \in Nat, Sized(n)
  PROVE  /\ n < 65536 => n = (n % 256) + 256 * ((n \div 256) % 256)
         /\ n = (n % 256) + 256 * ((n \div 256) % 256) + 65536 * ((n \div 65536) % 256)
                  + 16777216 * ((n \div 16777216) % 256)
<1>1. PICK q \in Nat, e \in Nat : n = 256 * q + e /\ e < 256 /\ q = n \div 256 /\ e = n % 256
  BY Halves
<1>2. PICK a \in Nat, d \in Nat : q = 256 * a + d /\ d < 256 /\ d = q % 256
  BY Halves
<1>3. PICK b \in Nat, c \in Nat : a = 256 * b + c /\ c < 256 /\ c = a % 256
  BY Halves
<1>4. n = 65536 * a + (256 * d + e)
  BY <1>1, <1>2, SMT
<1>5. n \div 65536 = a
  BY <1>1, <1>2, <1>4, SMT
<1>6. n \div 16777216 = b
  <2>1. 16777216 * b <= n /\ n < 16777216 * b + 16777216
    BY <1>1, <1>2, <1>3, <1>4, SMT
  <2> QED BY <2>1, SMT
<1>7. b < 256
  BY <1>3, <1>5, SMT DEF Sized
<1>8. b % 256 = b
  BY <1>7, SMT
<1>9. n < 65536 => a = 0
  BY <1>4, SMT
<1>10. /\ n % 256 = e /\ (n \div 256) % 256 = d /\ (n \div 65536) % 256 = c
       /\ (n \div 16777216) % 256 = b
  BY <1>1, <1>2, <1>3, <1>5, <1>6, <1>8
<1>11. n < 65536 => n = e + 256 * d
  BY <1>4, <1>9, SMT
<1>12. n = e + 256 * d + 65536 * c + 16777216 * b
  <2>1. a = 256 * b + c
    BY <1>3
  <2>2. 65536 * a = 16777216 * b + 65536 * c
    BY <2>1, SMT
  <2> QED BY <1>4, <2>2, SMT
<1> QED BY <1>10, <1>11, <1>12, SMT

\* What is behind a first byte.
LEMMA BehindOne ==
  ASSUME NEW e \in Seq(Byte), NEW w \in Seq(Byte), Len(e) = 1
  PROVE  (e \o w)[1] = e[1] /\ \A i \in 1..Len(w) : (e \o w)[i + 1] = w[i]
<1>1. \A i \in 1..Len(w) : (e \o w)[i + 1] = w[i]
  <2> TAKE i \in 1..Len(w)
  <2>1. (e \o w)[Len(e) + i] = w[i]
    BY BackByte, Zenon
  <2>2. Len(e) + i = i + 1
    OBVIOUS
  <2> QED BY <2>1, <2>2, Zenon
<1>2. PICK k \in 1..Len(e) : k = 1
  OBVIOUS
<1>3. (e \o w)[k] = e[k]
  BY FrontByte, Zenon
<1> QED BY <1>1, <1>2, <1>3, Zenon

\* The numbers of two and four bytes behind an escape.
LEMMA Reads16 ==
  ASSUME NEW b, NEW m \in Nat, NEW n \in Nat, Sized(n), n < 65536,
         b[m + 2] = n % 256, b[m + 3] = (n \div 256) % 256
  PROVE  Number16(b, m + 1) = n
<1>1. (m + 1) + 1 = m + 2 /\ (m + 1) + 2 = m + 3
  OBVIOUS
<1>2. PICK x, y : x = n % 256 /\ y = (n \div 256) % 256
  OBVIOUS
<1>3. n = x + 256 * y
  BY <1>2, LengthBytes, SMT
<1>4. b[m + 2] = x /\ b[m + 3] = y
  BY <1>2
<1> QED BY <1>1, <1>3, <1>4 DEF Number16

\* What READ_LENGTH loads of the four bytes of a length.
LEMMA Reads32 ==
  ASSUME NEW b, NEW m \in Nat, NEW n \in Nat, Sized(n),
         b[m + 2] = n % 256, b[m + 3] = (n \div 256) % 256,
         b[m + 4] = (n \div 65536) % 256, b[m + 5] = (n \div 16777216) % 256
  PROVE  Number32(b, m + 1) = n
<1>1. (m + 1) + 1 = m + 2 /\ (m + 1) + 2 = m + 3 /\ (m + 1) + 3 = m + 4 /\ (m + 1) + 4 = m + 5
  OBVIOUS
<1>2. PICK x, y, z, u : /\ x = n % 256 /\ y = (n \div 256) % 256 /\ z = (n \div 65536) % 256
                        /\ u = (n \div 16777216) % 256
  BY SMT
<1>3. n = x + 256 * y + 65536 * z + 16777216 * u
  BY <1>2, LengthBytes, SMT
<1>4. b[m + 2] = x /\ b[m + 3] = y /\ b[m + 4] = z /\ b[m + 5] = u
  BY <1>2, SMT
<1> QED BY <1>1, <1>3, <1>4, SMT DEF Number32

\* What READ_LENGTH does after each first byte.
LEMMA ReadsEscaped ==
  ASSUME NEW b, NEW m \in Nat, NEW n \in Nat, NEW k \in Nat, k = Len(b),
         NEW first \in Nat, b[m + 1] = first, NEW z \in Nat,
         z = IF first = 255 THEN 4 ELSE IF first = 254 THEN 2 ELSE 0,
         k >= m + 1 + z,
         first = 255 => Number32(b, m + 1) = n, first = 254 => Number16(b, m + 1) = n,
         first \notin {254, 255} => n = first
  PROVE  READ_LENGTH(b, m) = [ok |-> TRUE, offset |-> m + 1 + z, length |-> n]
<1>1. ~(Len(b) - m < 1) /\ ~((Len(b) - m) - 1 < z)
  OBVIOUS
<1> QED BY <1>1, Zenon DEF READ_LENGTH

\* Reading a length of one byte.
LEMMA ReadsShort ==
  ASSUME NEW b, NEW m \in Nat, NEW n \in Nat, n < 254, Len(b) \in Nat, Len(b) >= m + 1,
         b[m + 1] = n
  PROVE  READ_LENGTH(b, m) = [ok |-> TRUE, offset |-> m + 1, length |-> n]
<1>1. PICK z \in Nat, k \in Nat : z = 0 /\ k = Len(b)
  OBVIOUS
<1>2. z = IF n = 255 THEN 4 ELSE IF n = 254 THEN 2 ELSE 0
  BY <1>1
<1>3. n = 255 => Number32(b, m + 1) = n
  OBVIOUS
<1>4. n = 254 => Number16(b, m + 1) = n
  OBVIOUS
<1>5. k >= m + 1 + z
  BY <1>1
<1>6. READ_LENGTH(b, m) = [ok |-> TRUE, offset |-> m + 1 + z, length |-> n]
  BY <1>1, <1>2, <1>3, <1>4, <1>5, ReadsEscaped
<1> QED BY <1>1, <1>6

\* Reading a length of two bytes.
LEMMA ReadsTwo ==
  ASSUME NEW b, NEW m \in Nat, NEW n \in Nat, Len(b) \in Nat, Len(b) >= m + 3,
         b[m + 1] = 254, Number16(b, m + 1) = n
  PROVE  READ_LENGTH(b, m) = [ok |-> TRUE, offset |-> m + 3, length |-> n]
<1>1. PICK z \in Nat, k \in Nat, f \in Nat : z = 2 /\ k = Len(b) /\ f = 254
  OBVIOUS
<1>2. z = IF f = 255 THEN 4 ELSE IF f = 254 THEN 2 ELSE 0
  BY <1>1
<1>3. f = 255 => Number32(b, m + 1) = n
  BY <1>1
<1>4. f = 254 => Number16(b, m + 1) = n
  OBVIOUS
<1>5. k >= m + 1 + z /\ b[m + 1] = f
  BY <1>1
<1>6. f \notin {254, 255} => n = f
  BY <1>1
<1>7. READ_LENGTH(b, m) = [ok |-> TRUE, offset |-> m + 1 + z, length |-> n]
  BY <1>1, <1>2, <1>3, <1>4, <1>5, <1>6, ReadsEscaped
<1> QED BY <1>1, <1>7

\* Reading a length of four bytes.
LEMMA ReadsFour ==
  ASSUME NEW b, NEW m \in Nat, NEW n \in Nat, Len(b) \in Nat, Len(b) >= m + 5,
         b[m + 1] = 255, Number32(b, m + 1) = n
  PROVE  READ_LENGTH(b, m) = [ok |-> TRUE, offset |-> m + 5, length |-> n]
<1>1. PICK z \in Nat, k \in Nat, f \in Nat : z = 4 /\ k = Len(b) /\ f = 255
  OBVIOUS
<1>2. z = IF f = 255 THEN 4 ELSE IF f = 254 THEN 2 ELSE 0
  BY <1>1
<1>3. f = 255 => Number32(b, m + 1) = n
  OBVIOUS
<1>4. f = 254 => Number16(b, m + 1) = n
  BY <1>1
<1>5. k >= m + 1 + z /\ b[m + 1] = f
  BY <1>1
<1>6. f \notin {254, 255} => n = f
  BY <1>1
<1>7. READ_LENGTH(b, m) = [ok |-> TRUE, offset |-> m + 1 + z, length |-> n]
  BY <1>1, <1>2, <1>3, <1>4, <1>5, <1>6, ReadsEscaped
<1> QED BY <1>1, <1>7

\* READ_LENGTH finds the length that was written, and what is behind it.
LEMMA ReadsLength ==
  ASSUME NEW h \in Seq(Byte), NEW n \in Nat, Sized(n), NEW t \in Seq(Byte)
  PROVE  READ_LENGTH((h \o LengthImage(n)) \o t, Len(h)) =
           [ok |-> TRUE, offset |-> Len(h) + LengthSize(n), length |-> n]
<1> DEFINE l == LengthImage(n)   b == (h \o l) \o t   m == Len(h)
<1>1. l \in Seq(Byte) /\ Len(l) = LengthSize(n) /\ LengthSize(n) \in Nat
  BY LengthImageTyped
<1>2. m \in Nat /\ Len(t) \in Nat
  BY LenProperties
<1> HIDE DEF l, m
<1>3. h \o l \in Seq(Byte) /\ Len(h \o l) = m + Len(l)
  BY <1>1, Concat, Zenon DEF m
<1>4. Len(b) = m + Len(l) + Len(t)
  <2>1. PICK u \in Seq(Byte) : u = h \o l
    BY <1>3, Zenon
  <2>2. Len(u \o t) = Len(u) + Len(t)
    BY Concat
  <2> QED BY <1>3, <2>1, <2>2
<1>5. \A i \in 1..Len(l) : b[m + i] = l[i]
  <2> TAKE i \in 1..Len(l)
  <2>1. (h \o l)[m + i] = l[i]
    BY <1>1, BackByte DEF m
  <2>2. PICK u \in Seq(Byte) : u = h \o l
    BY <1>3, Zenon
  <2>3. PICK k \in 1..Len(u) : k = m + i
    BY <1>1, <1>2, <1>3, <2>2
  <2>4. (u \o t)[k] = u[k]
    BY FrontByte
  <2> QED BY <2>1, <2>2, <2>3, <2>4
<1> HIDE DEF b
<1>9. PICK k \in Nat : k = Len(b) /\ k = m + Len(l) + Len(t)
  BY <1>1, <1>2, <1>4
<1>6. CASE n < 254
  <2>1. l = <<n>> /\ LengthSize(n) = 1
    BY <1>6 DEF l, LengthImage, LengthSize
  <2>2. b[m + 1] = n
    BY <1>5, <2>1
  <2>3. Len(b) \in Nat /\ Len(b) >= m + 1
    BY <1>9, <1>2, <2>1, <1>1
  <2>4. READ_LENGTH(b, m) = [ok |-> TRUE, offset |-> m + 1, length |-> n]
    BY <1>2, <1>6, <2>2, <2>3, ReadsShort
  <2> QED BY <1>2, <2>1, <2>4 DEF b, l, m
<1>7. CASE ~(n < 254) /\ n < 65536
  <2> DEFINE e == <<254>>   w == LE16(n)
  <2>1. l = e \o w /\ LengthSize(n) = 3
    BY <1>7 DEF l, LengthImage, LengthSize
  <2>2. e \in Seq(Byte) /\ w \in Seq(Byte) /\ Len(e) = 1 /\ Len(w) = 2
        /\ e[1] = 254 /\ w[1] = n % 256 /\ w[2] = (n \div 256) % 256
    <3>1. w \in Seq(Byte)
      BY LengthImages
    <3> QED BY <3>1 DEF LE16, Byte
  <2> HIDE DEF e, w
  <2>3. l[1] = e[1] /\ l[1 + 1] = w[1] /\ l[2 + 1] = w[2]
    <3>1. (e \o w)[1] = e[1] /\ \A i \in 1..Len(w) : (e \o w)[i + 1] = w[i]
      <4>1. e \in Seq(Byte) /\ w \in Seq(Byte) /\ Len(e) = 1
        BY <2>2
      <4> QED BY <4>1, BehindOne
    <3>2. l[1] = e[1] /\ \A i \in 1..Len(w) : l[i + 1] = w[i]
      BY <2>1, <3>1, Zenon
    <3> QED BY <2>2, <3>2
  <2>4. b[m + 1] = l[1] /\ b[m + 2] = l[2] /\ b[m + 3] = l[3]
    BY <1>1, <1>5, <2>1
  <2>5. b[m + 1] = 254 /\ b[m + 2] = n % 256 /\ b[m + 3] = (n \div 256) % 256
    BY <2>2, <2>3, <2>4
  <2>6. Number16(b, m + 1) = n
    BY <1>2, <1>7, <2>5, Reads16
  <2>7. Len(b) \in Nat /\ Len(b) >= m + 3
    BY <1>1, <1>9, <1>2, <2>1
  <2>8. READ_LENGTH(b, m) = [ok |-> TRUE, offset |-> m + 3, length |-> n]
    <3>1. m \in Nat
      BY <1>2
    <3>2. b[m + 1] = 254
      BY <2>5
    <3> QED BY <2>6, <2>7, <3>1, <3>2, ReadsTwo
  <2>9. m + 3 = m + LengthSize(n)
    BY <1>2, <2>1
  <2> QED BY <2>8, <2>9, Zenon DEF b, l, m
<1>8. CASE ~(n < 254) /\ ~(n < 65536)
  <2> DEFINE e == <<255>>   w == LE32(n)
  <2>1. l = e \o w /\ LengthSize(n) = 5
    BY <1>8 DEF l, LengthImage, LengthSize
  <2>2. /\ e \in Seq(Byte) /\ w \in Seq(Byte) /\ Len(e) = 1 /\ Len(w) = 4
        /\ e[1] = 255 /\ w[1] = n % 256 /\ w[2] = (n \div 256) % 256
        /\ w[3] = (n \div 65536) % 256 /\ w[4] = (n \div 16777216) % 256
    <3>1. w \in Seq(Byte)
      BY LengthImages
    <3>2. e \in Seq(Byte) /\ Len(e) = 1 /\ e[1] = 255
      BY DEF Byte
    <3>3. /\ Len(w) = 4 /\ w[1] = n % 256 /\ w[2] = (n \div 256) % 256
          /\ w[3] = (n \div 65536) % 256 /\ w[4] = (n \div 16777216) % 256
      BY SMT DEF LE32
    <3> QED BY <3>1, <3>2, <3>3, SMT
  <2> HIDE DEF e, w
  <2>3. l[1] = e[1] /\ l[1 + 1] = w[1] /\ l[2 + 1] = w[2] /\ l[3 + 1] = w[3] /\ l[4 + 1] = w[4]
    <3>1. (e \o w)[1] = e[1] /\ \A i \in 1..Len(w) : (e \o w)[i + 1] = w[i]
      <4>1. e \in Seq(Byte) /\ w \in Seq(Byte) /\ Len(e) = 1
        BY <2>2, SMT
      <4> QED BY <4>1, BehindOne
    <3>2. l[1] = e[1] /\ \A i \in 1..Len(w) : l[i + 1] = w[i]
      BY <2>1, <3>1, Zenon
    <3>3. Len(w) = 4
      BY <2>2, SMT
    <3> QED BY <3>2, <3>3
  <2>4. /\ b[m + 1] = l[1] /\ b[m + 2] = l[2] /\ b[m + 3] = l[3] /\ b[m + 4] = l[4]
        /\ b[m + 5] = l[5]
    <3>1. Len(l) = 5
      BY <1>1, <2>1
    <3> QED BY <1>5, <3>1
  <2>5. /\ b[m + 1] = 255 /\ b[m + 2] = n % 256 /\ b[m + 3] = (n \div 256) % 256
        /\ b[m + 4] = (n \div 65536) % 256 /\ b[m + 5] = (n \div 16777216) % 256
    BY <2>2, <2>3, <2>4, SMT
  <2>6. Number32(b, m + 1) = n
    BY <1>2, <2>5, Reads32, SMT
  <2>7. Len(b) \in Nat /\ Len(b) >= m + 5
    BY <1>1, <1>9, <1>2, <2>1
  <2>8. b[m + 1] = 255
    BY <2>5, SMT
  <2>10. READ_LENGTH(b, m) = [ok |-> TRUE, offset |-> m + 5, length |-> n]
    BY <1>2, <2>6, <2>7, <2>8, ReadsFour
  <2>9. m + 5 = m + LengthSize(n)
    BY <1>2, <2>1
  <2> QED BY <2>10, <2>9, Zenon DEF b, l, m
<1> QED BY <1>6, <1>7, <1>8

\* Behind the tag and the length of a part are padding and data.
LEMMA PartEnd ==
  ASSUME NEW b \in Seq(Byte), NEW p \in Parts
  PROVE  \E v \in Seq(Byte) : PartImage(b, p) = Headed(b, p) \o v
<1> DEFINE H == Headed(b, p)   pad == Padding(Len(H), Alignment(p.tag))
<1>1. PartImage(b, p) = (H \o pad) \o p.data /\ pad \in Seq(Byte)
  BY PartImageTyped, Zenon
<1>2. H \in Seq(Byte)
  BY HeadedTyped
<1>3. p.data \in Seq(Byte)
  BY PartTyped
<1> HIDE DEF H, pad
<1>4. PICK h \in Seq(Byte) : h = H
  BY <1>2
<1>5. PICK w \in Seq(Byte) : w = pad
  BY <1>1
<1>6. PICK d \in Seq(Byte) : d = p.data
  BY <1>3
<1>7. (h \o w) \o d = h \o (w \o d)
  BY Regroup
<1>8. w \o d \in Seq(Byte)
  BY Concat
<1> QED BY <1>1, <1>4, <1>5, <1>6, <1>7, <1>8, Zenon DEF H

\* Behind the head of a part there are bytes.
LEMMA PartTail ==
  ASSUME NEW b \in Seq(Byte), NEW p \in Parts, NEW t \in Seq(Byte)
  PROVE  \E v \in Seq(Byte) : PartImage(b, p) \o t = Headed(b, p) \o v
<1>1. PICK u \in Seq(Byte) : PartImage(b, p) = Headed(b, p) \o u
  BY PartEnd, Zenon
<1>2. PICK h \in Seq(Byte) : h = Headed(b, p)
  BY HeadedTyped
<1>3. (h \o u) \o t = h \o (u \o t)
  BY Regroup, Zenon
<1>4. u \o t \in Seq(Byte)
  BY Concat
<1> QED BY <1>1, <1>2, <1>3, <1>4, Zenon

\* A part in the middle of a message.
LEMMA Layout ==
  ASSUME NEW b \in Seq(Byte), NEW p \in Parts, NEW t \in Seq(Byte)
  PROVE  LET bytes == PartImage(b, p) \o t
             head == Len(Headed(b, p))
             at == head + PadSize(head, Alignment(p.tag))
         IN  /\ Len(b) \in Nat /\ head \in Nat /\ at \in Nat /\ Len(t) \in Nat
             /\ head = Len(b) + HeadSize(p) /\ HeadSize(p) \in Nat /\ HeadSize(p) >= 1
             /\ at >= head
             /\ Len(bytes) = Len(PartImage(b, p)) + Len(t)
             /\ Len(PartImage(b, p)) = at + Len(p.data)
             /\ bytes[Len(b) + 1] = p.tag
             /\ Slice(bytes, at, Len(p.data)) = p.data
             /\ (p.tag \in Counted /\ Sized(Count(p))) =>
                  READ_LENGTH(bytes, Len(b) + 1) =
                    [ok |-> TRUE, offset |-> head, length |-> Count(p)]
<1> DEFINE H == Headed(b, p)   head == Len(H)   to == Alignment(p.tag)
           at == head + PadSize(head, to)   pad == Padding(head, to)
           d == p.data   q == PartImage(b, p)   bytes == q \o t
           one == <<p.tag>>   tagged == b \o one   n == Count(p)   l == LengthImage(n)
<1>1. /\ q = (H \o pad) \o d /\ pad \in Seq(Byte) /\ H \o pad \in Seq(Byte)
      /\ q \in Seq(Byte) /\ Len(q) = head + Len(pad) + Len(d)
      /\ Len(H \o pad) = head + Len(pad)
  BY PartImageTyped, Zenon
<1>2. H \in Seq(Byte) /\ head = Len(b) + HeadSize(p) /\ HeadSize(p) \in Nat /\ HeadSize(p) >= 1
  BY HeadedTyped
<1>3. /\ d \in Seq(Byte) /\ Len(d) \in Nat /\ to \in {1, 4, 8} /\ p.tag \in Byte /\ n \in Nat
      /\ Len(b) \in Nat /\ Len(t) \in Nat /\ head \in Nat
  BY <1>2, PartTyped, LenProperties
<1>4. /\ Len(pad) = PadSize(head, to) /\ PadSize(head, to) \in 0..7
  <2>1. PICK k \in Nat : k = head
    BY <1>3
  <2> HIDE DEF to
  <2>2. Len(Padding(k, to)) = PadSize(k, to) /\ PadSize(k, to) \in 0..7
    BY <1>3, PaddingTyped, Zenon
  <2> QED BY <2>1, <2>2
<1>5. one \in Seq(Byte) /\ Len(one) = 1 /\ one[1] = p.tag /\ l \in Seq(Byte)
  BY <1>3, OneByte, LengthImageTyped
<1>6. H = IF p.tag \in Counted THEN tagged \o l ELSE tagged
  BY DEF Headed
<1>7. HeadSize(p) = IF p.tag \in Counted THEN 1 + LengthSize(n) ELSE 1
  BY DEF HeadSize
<1> HIDE DEF H, to, pad, d, q, one, n, l
<1>8. tagged \in Seq(Byte) /\ Len(tagged) = Len(b) + 1 /\ tagged[Len(b) + 1] = p.tag
  <2>1. tagged \in Seq(Byte) /\ Len(tagged) = Len(b) + 1
    BY <1>5, Concat, Zenon
  <2>2. PICK k \in 1..Len(one) : k = 1
    BY <1>5
  <2>3. (b \o one)[Len(b) + k] = one[k]
    BY <1>5, BackByte, Zenon
  <2> QED BY <1>5, <2>1, <2>2, <2>3
<1> HIDE DEF tagged
<1>9. H[Len(b) + 1] = p.tag
  <2>1. PICK k \in 1..Len(tagged) : k = Len(b) + 1
    BY <1>3, <1>8
  <2>2. (tagged \o l)[k] = tagged[k]
    BY <1>5, <1>8, FrontByte
  <2> QED BY <1>6, <1>8, <2>1, <2>2
<1>10. bytes[Len(b) + 1] = p.tag
  <2>1. PICK k \in 1..Len(H) : k = Len(b) + 1
    BY <1>2, <1>3
  <2>2. (H \o pad)[k] = H[k]
    BY <1>1, <1>2, FrontByte, Zenon
  <2>3. PICK u \in Seq(Byte) : u = H \o pad
    BY <1>1, Zenon
  <2>4. k \in 1..Len(u)
    BY <1>1, <1>3, <1>4, <2>1, <2>3
  <2>5. (u \o d)[k] = u[k]
    BY <1>3, <2>4, FrontByte
  <2>6. k \in 1..Len(q)
    BY <1>1, <1>3, <1>4, <2>1
  <2>7. (q \o t)[k] = q[k]
    BY <1>1, <2>6, FrontByte
  <2> QED BY <1>1, <1>9, <2>1, <2>2, <2>3, <2>5, <2>7
<1>11. Len(bytes) = Len(q) + Len(t)
  BY <1>1, Concat
<1>12. Slice(bytes, at, Len(d)) = d
  <2>1. PICK u \in Seq(Byte) : u = H \o pad /\ Len(u) = at
    BY <1>1, <1>4, Zenon
  <2>2. Slice((u \o d) \o t, Len(u), Len(d)) = d
    BY <1>3, SliceOf
  <2> QED BY <1>1, <2>1, <2>2
<1>13. ASSUME p.tag \in Counted, Sized(n)
       PROVE  READ_LENGTH(bytes, Len(b) + 1) = [ok |-> TRUE, offset |-> head, length |-> n]
  <2>1. PICK v \in Seq(Byte) : bytes = H \o v
    BY PartTail, Zenon DEF q, H
  <2>6. bytes = (tagged \o l) \o v
    BY <1>6, <1>13, <2>1, Zenon
  <2>7. READ_LENGTH((tagged \o LengthImage(n)) \o v, Len(tagged)) =
          [ok |-> TRUE, offset |-> Len(tagged) + LengthSize(n), length |-> n]
    BY <1>3, <1>8, <1>13, ReadsLength, Zenon
  <2>8. LengthSize(n) \in Nat
    BY <1>3, LengthImageTyped, Zenon
  <2>9. Len(tagged) + LengthSize(n) = head
    BY <1>2, <1>3, <1>7, <1>8, <1>13, <2>8
  <2> QED BY <1>8, <2>6, <2>7, <2>9, Zenon DEF l
<1>14. at \in Nat /\ at >= head /\ Len(q) = at + Len(d)
  BY <1>1, <1>3, <1>4
<1> HIDE DEF bytes, at
<1>15. /\ Len(b) \in Nat /\ head \in Nat /\ at \in Nat /\ Len(t) \in Nat
       /\ head = Len(b) + HeadSize(p) /\ HeadSize(p) \in Nat /\ HeadSize(p) >= 1
       /\ at >= head
       /\ Len(bytes) = Len(q) + Len(t)
       /\ Len(q) = at + Len(d)
       /\ bytes[Len(b) + 1] = p.tag
       /\ Slice(bytes, at, Len(d)) = d
       /\ (p.tag \in Counted /\ Sized(n)) =>
            READ_LENGTH(bytes, Len(b) + 1) = [ok |-> TRUE, offset |-> head, length |-> n]
  BY <1>2, <1>3, <1>10, <1>11, <1>12, <1>13, <1>14
<1> QED BY <1>15 DEF bytes, at, H, to, d, q, n

-----------------------------------------------------------------------------
(* One part, read by either decoder.                                       *)

\* What message_read makes of a part.  It has no arrays.
Got(p) ==
  CASE p.tag = kValueNull -> NoValue
    [] p.tag \in {kValueTrue, kValueFalse} ->
         DartValue("dvBool", <<IF p.tag = kValueTrue THEN 1 ELSE 0>>, 0, 0)
    [] p.tag = kValueInt32 -> DartValue("dvInteger", p.data \o <<0, 0, 0, 0>>, 0, 0)
    [] p.tag = kValueInt64 -> DartValue("dvInteger", p.data, 0, 0)
    [] p.tag = kValueFloat64 -> DartValue("dvFloat64", p.data, 0, 0)
    [] p.tag = kValueString -> DartValue("dvString", p.data, 0, 0)
    [] p.tag \in Collections -> DartValue("dvList", << >>, p.count, Members(p))

Readable(p) ==
  /\ p \in Parts
  /\ p.tag \in Plain \cup Collections \cup {kValueInt32, kValueInt64, kValueFloat64, kValueString}
  /\ p.tag \in Counted => Sized(Count(p))

\* Nothing stands before what is not aligned.
LEMMA NoPadding ==
  ASSUME NEW n \in Nat
  PROVE  PadSize(n, 1) = 0
BY DEF PadSize

\* message_read reads a part off its image.
LEMMA ReadsPart ==
  ASSUME NEW b \in Seq(Byte), NEW p, Readable(p), NEW t \in Seq(Byte)
  PROVE  ReadOne(PartImage(b, p) \o t, Len(b)) = Read(Len(PartImage(b, p)), Got(p))
<1>1. PICK q : q = PartImage(b, p)
  OBVIOUS
<1>2. PICK bytes : bytes = q \o t
  BY Zenon
<1>3. PICK head : head = Len(Headed(b, p))
  BY Zenon
<1>4. PICK at : at = head + PadSize(head, Alignment(p.tag))
  OBVIOUS
<1>5. PICK m : m = Len(b)
  OBVIOUS
<1>6. PICK l : l = Len(p.data)
  BY Zenon
<1>7. p \in Parts
  BY DEF Readable
<1>8. /\ m \in Nat /\ head \in Nat /\ at \in Nat /\ Len(t) \in Nat
      /\ head = m + HeadSize(p)
      /\ at >= head
      /\ Len(bytes) = Len(q) + Len(t)
      /\ Len(q) = at + l
      /\ bytes[m + 1] = p.tag
      /\ Slice(bytes, at, l) = p.data
      /\ (p.tag \in Counted /\ Sized(Count(p))) =>
           READ_LENGTH(bytes, m + 1) = [ok |-> TRUE, offset |-> head, length |-> Count(p)]
  BY <1>1, <1>2, <1>3, <1>4, <1>5, <1>6, <1>7, Layout, Zenon
<1>9. /\ p.tag \in Byte /\ p.data \in Seq(Byte) /\ p.count \in Nat /\ l \in Nat
      /\ Count(p) \in Nat
  BY <1>6, <1>7, PartTyped
<1>10. ~(Len(bytes) - m < 1) /\ Len(bytes) \in Nat
  <2>1. HeadSize(p) \in Nat /\ HeadSize(p) >= 1
    BY <1>7, HeadedTyped
  <2> QED BY <1>8, <1>9, <2>1
<1> DEFINE R == ReadOne(bytes, m)
<1>11. CASE p.tag \in Plain
  <2>0. m \in Nat /\ Len(bytes) \in Nat /\ ~(Len(bytes) - m < 1) /\ bytes[m + 1] = p.tag
    BY <1>8, <1>10
  <2>1. head = m + 1 /\ at = head /\ l = 0
    <3>1. p.tag \notin Counted /\ Alignment(p.tag) = 1
      BY <1>11 DEF Plain, Counted, Strings, Arrays, Collections, Alignment, kValueNull, kValueTrue,
         kValueFalse, kValueString, kStdLargeInt, kStdUInt8Array, kStdInt32Array, kStdInt64Array,
         kStdFloat64Array, kValueList, kValueMap, kValueFloat64
    <3>2. HeadSize(p) = 1
      BY <3>1 DEF HeadSize
    <3>3. p.data = << >>
      BY <1>7, <1>11 DEF Parts
    <3> QED BY <1>4, <1>6, <1>8, <3>1, <3>2, <3>3, NoPadding, EmptySeq
  <2>2. R = Read(m + 1, Got(p))
    <3>1. CASE p.tag = kValueNull
      <4>1. R = Read(m + 1, NoValue)
        BY <2>0, <3>1 DEF ReadOne, kValueNull, kValueTrue, kValueFalse, kValueInt32, kValueInt64,
                              kValueFloat64, kValueString, Collections, kValueList, kValueMap
      <4> QED BY <3>1, <4>1 DEF Got, kValueNull, kValueTrue, kValueFalse, kValueInt32, kValueInt64,
                                 kValueFloat64, kValueString, Collections, kValueList, kValueMap
    <3>2. CASE p.tag \in {kValueTrue, kValueFalse}
      <4>1. R = Read(m + 1, DartValue("dvBool", <<IF p.tag = kValueTrue THEN 1 ELSE 0>>, 0, 0))
        BY <2>0, <3>2 DEF ReadOne, kValueNull, kValueTrue, kValueFalse, kValueInt32, kValueInt64,
                              kValueFloat64, kValueString, Collections, kValueList, kValueMap
      <4> QED BY <3>2, <4>1 DEF Got, kValueNull, kValueTrue, kValueFalse, kValueInt32, kValueInt64,
                                 kValueFloat64, kValueString, Collections, kValueList, kValueMap
    <3> QED BY <1>11, <3>1, <3>2 DEF Plain
  <2> QED BY <1>1, <1>2, <1>5, <1>8, <2>1, <2>2
<1>12. CASE p.tag \in {kValueInt32, kValueInt64}
  <2>0. m \in Nat /\ Len(bytes) \in Nat /\ ~(Len(bytes) - m < 1) /\ bytes[m + 1] = p.tag
    BY <1>8, <1>10
  <2>1. head = m + 1 /\ at = head /\ l = Width(p.tag)
    <3>1. p.tag \notin Counted /\ Alignment(p.tag) = 1
      BY <1>12 DEF Counted, Strings, Arrays, Collections, Alignment, kValueInt32, kValueInt64,
         kValueString, kStdLargeInt, kStdUInt8Array, kStdInt32Array, kStdInt64Array,
         kStdFloat64Array, kValueList, kValueMap, kValueFloat64
    <3>2. HeadSize(p) = 1
      BY <3>1 DEF HeadSize
    <3>3. l = Width(p.tag)
      BY <1>6, <1>7, <1>12 DEF Parts
    <3> QED BY <1>4, <1>8, <3>1, <3>2, <3>3, NoPadding
  <2>2. CASE p.tag = kValueInt32
    <3>1. l = 4
      BY <2>1, <2>2, IntTags
    <3>2. Slice(bytes, m + 1, 4) = p.data /\ ~(Len(bytes) - (m + 1) < 4)
      BY <1>8, <2>1, <3>1
    <3>3. R = Read((m + 1) + 4,
                   DartValue("dvInteger", Slice(bytes, m + 1, 4) \o <<0, 0, 0, 0>>, 0, 0))
      BY <2>0, <2>2, <3>2 DEF ReadOne, kValueNull, kValueTrue, kValueFalse, kValueInt32,
         kValueInt64,
                              kValueFloat64, kValueString, Collections, kValueList, kValueMap
    <3>4. R = Read((m + 1) + 4, Got(p))
      BY <2>2, <3>2, <3>3 DEF Got, kValueNull, kValueTrue, kValueFalse, kValueInt32, kValueInt64,
                              kValueFloat64, kValueString, Collections, kValueList, kValueMap
    <3> QED BY <1>1, <1>2, <1>5, <1>8, <2>1, <3>1, <3>4
  <2>3. CASE p.tag = kValueInt64
    <3>1. l = 8
      BY <2>1, <2>3, IntTags
    <3>2. Slice(bytes, m + 1, 8) = p.data /\ ~(Len(bytes) - (m + 1) < 8)
      BY <1>8, <2>1, <3>1
    <3>3. R = Read((m + 1) + 8, DartValue("dvInteger", Slice(bytes, m + 1, 8), 0, 0))
      BY <2>0, <2>3, <3>2 DEF ReadOne, kValueNull, kValueTrue, kValueFalse, kValueInt32,
         kValueInt64,
                              kValueFloat64, kValueString, Collections, kValueList, kValueMap
    <3>4. R = Read((m + 1) + 8, Got(p))
      BY <2>3, <3>2, <3>3 DEF Got, kValueNull, kValueTrue, kValueFalse, kValueInt32, kValueInt64,
                              kValueFloat64, kValueString, Collections, kValueList, kValueMap
    <3> QED BY <1>1, <1>2, <1>5, <1>8, <2>1, <3>1, <3>4
  <2> QED BY <1>12, <2>2, <2>3
<1>13. CASE p.tag = kValueFloat64
  <2>0. m \in Nat /\ Len(bytes) \in Nat /\ ~(Len(bytes) - m < 1) /\ bytes[m + 1] = p.tag
    BY <1>8, <1>10
  <2>1. head = m + 1 /\ at = head + PadSize(head, 8) /\ l = 8
    <3>1. p.tag \notin Counted /\ Alignment(p.tag) = 8 /\ Width(p.tag) = 8
      BY <1>13 DEF Counted, Strings, Arrays, Collections, Alignment, Width, kValueInt32,
         kValueInt64, kValueString, kStdLargeInt, kStdUInt8Array, kStdInt32Array, kStdInt64Array,
         kStdFloat64Array, kValueList, kValueMap, kValueFloat64
    <3>2. HeadSize(p) = 1
      BY <3>1 DEF HeadSize
    <3>3. l = Width(p.tag)
      BY <1>6, <1>7, <1>13 DEF Parts
    <3> QED BY <1>4, <1>8, <3>1, <3>2, <3>3
  <2>2. at = (m + 1) + PadSize(m + 1, 8)
    BY <2>1
  <2>3. Slice(bytes, at, 8) = p.data /\ ~(Len(bytes) - at < 8)
    BY <1>8, <2>1
  <2>4. R = Read(at + 8, DartValue("dvFloat64", Slice(bytes, at, 8), 0, 0))
    BY <2>0, <1>13, <2>2, <2>3 DEF ReadOne, kValueNull, kValueTrue, kValueFalse, kValueInt32,
       kValueInt64,
                              kValueFloat64, kValueString, Collections, kValueList, kValueMap
  <2>5. R = Read(at + 8, Got(p))
    BY <1>13, <2>3, <2>4 DEF Got, kValueNull, kValueTrue, kValueFalse, kValueInt32, kValueInt64,
                              kValueFloat64, kValueString, Collections, kValueList, kValueMap
  <2> QED BY <1>1, <1>2, <1>5, <1>8, <2>1, <2>5
<1>14. CASE p.tag = kValueString
  <2>0. m \in Nat /\ Len(bytes) \in Nat /\ ~(Len(bytes) - m < 1) /\ bytes[m + 1] = p.tag
    BY <1>8, <1>10
  <2>1. p.tag \in Counted /\ p.tag \notin Collections /\ Alignment(p.tag) = 1 /\ Width(p.tag) = 1
    BY <1>14, SizedTag
  <2>2. Count(p) = l
    <3>1. Count(p) = l \div 1
      BY <1>6, <2>1 DEF Count
    <3>2. l \div 1 = l
      BY <1>9
    <3> QED BY <3>1, <3>2
  <2>3. at = head
    BY <1>4, <1>8, <2>1, NoPadding
  <2>4. READ_LENGTH(bytes, m + 1) = [ok |-> TRUE, offset |-> head, length |-> l]
    BY <1>8, <2>1, <2>2 DEF Readable
  <2>5. Slice(bytes, head, l) = p.data /\ ~(Len(bytes) - head < l)
    BY <1>8, <1>9, <2>3
  <2>6. R = Read(head + l, DartValue("dvString", Slice(bytes, head, l), 0, 0))
    BY <2>0, <1>14, <2>4, <2>5 DEF ReadOne, kValueNull, kValueTrue, kValueFalse, kValueInt32,
       kValueInt64,
                              kValueFloat64, kValueString, Collections, kValueList, kValueMap
  <2>7. R = Read(head + l, Got(p))
    BY <1>14, <2>5, <2>6 DEF Got, kValueNull, kValueTrue, kValueFalse, kValueInt32, kValueInt64,
                              kValueFloat64, kValueString, Collections, kValueList, kValueMap
  <2> QED BY <1>1, <1>2, <1>5, <1>8, <2>3, <2>7
<1>15. CASE p.tag \in Collections
  <2>0. m \in Nat /\ Len(bytes) \in Nat /\ ~(Len(bytes) - m < 1) /\ bytes[m + 1] = p.tag
    BY <1>8, <1>10
  <2>1. p.tag \in Counted /\ Alignment(p.tag) = 1 /\ p.tag \in {kValueList, kValueMap}
    BY <1>15, SizedTag DEF Collections
  <2>2. Count(p) = p.count
    BY <1>15 DEF Count
  <2>3. at = head
    BY <1>4, <1>8, <2>1, NoPadding
  <2>4. READ_LENGTH(bytes, m + 1) = [ok |-> TRUE, offset |-> head, length |-> p.count]
    BY <1>8, <2>1, <2>2 DEF Readable
  <2>5. l = 0
    <3>1. p.data = << >>
      BY <1>7, <1>15 DEF Parts
    <3> QED BY <1>6, <3>1, EmptySeq
  <2>6. R = Read(head, DartValue("dvList", << >>, p.count,
                                 IF p.tag = kValueMap THEN 2 * p.count ELSE p.count))
    BY <2>0, <2>1, <2>4 DEF ReadOne, kValueNull, kValueTrue, kValueFalse, kValueInt32, kValueInt64,
                              kValueFloat64, kValueString, Collections, kValueList, kValueMap
  <2>7. Members(p) = IF p.tag = kValueMap THEN 2 * p.count ELSE p.count
    BY <2>1 DEF Members, kValueList, kValueMap
  <2>8. R = Read(head, Got(p))
    BY <2>1, <2>6, <2>7 DEF Got, kValueNull, kValueTrue, kValueFalse, kValueInt32, kValueInt64,
                              kValueFloat64, kValueString, Collections, kValueList, kValueMap
  <2> QED BY <1>1, <1>2, <1>5, <1>8, <2>3, <2>5, <2>8
<1> QED BY <1>11, <1>12, <1>13, <1>14, <1>15 DEF Readable

\* A part without a length of its own has the size its tag says; one with a
\* length has as many elements.
LEMMA DataSize ==
  ASSUME NEW p \in Parts
  PROVE  Len(p.data) = IF p.tag \in Plain \cup Collections THEN 0
                       ELSE IF p.tag \in Counted THEN Count(p) * Width(p.tag) ELSE Width(p.tag)
<1>1. PICK l \in Nat, w \in {1, 4, 8} : l = Len(p.data) /\ w = Width(p.tag)
  BY PartTyped DEF Width
<1>2. CASE p.tag \in Plain \cup Collections
  <2>1. p.data = << >>
    BY <1>2 DEF Parts
  <2> QED BY <1>2, <2>1, EmptySeq
<1>3. CASE p.tag \notin Plain \cup Collections /\ p.tag \in Counted
  <2>1. Count(p) = l \div w
    BY <1>1, <1>3 DEF Count
  <2>2. l % w = 0
    <3>1. CASE p.tag \in Arrays
      BY <1>1, <3>1 DEF Parts
    <3>2. CASE p.tag \notin Arrays
      <4>1. w = 1
        BY <1>1, <1>3, <3>2 DEF Counted, Strings, Width, kValueString, kStdLargeInt,
           kValueInt32, kValueInt64, kValueFloat64, kStdInt32Array, kStdInt64Array,
           kStdFloat64Array
      <4> QED BY <4>1
    <3> QED BY <3>1, <3>2
  <2>3. (l \div w) * w = l
    BY <2>2
  <2> QED BY <1>1, <1>3, <2>1, <2>3
<1>4. CASE p.tag \notin Plain \cup Collections /\ p.tag \notin Counted
  <2>1. p.tag \in {kValueInt32, kValueInt64, kValueFloat64}
    <3>1. p.tag \in 0..13
      BY PartTyped
    <3> QED BY <1>4, <3>1 DEF Plain, Collections, Counted, Strings, Arrays, kValueNull, kValueTrue,
            kValueFalse, kValueInt32, kValueInt64, kValueFloat64, kValueString, kStdLargeInt,
            kStdUInt8Array, kStdInt32Array, kStdInt64Array, kStdFloat64Array, kValueList, kValueMap
  <2> QED BY <1>4, <2>1 DEF Parts
<1> QED BY <1>2, <1>3, <1>4

\* platch_decode_value_std reads a part off its image.
LEMMA DecodesPart ==
  ASSUME NEW b \in Seq(Byte), NEW p \in Parts, p.tag \in Counted => Sized(Count(p)),
         NEW t \in Seq(Byte)
  PROVE  DecodeOne(PartImage(b, p) \o t, Len(b)) =
           [ok |-> TRUE, offset |-> Len(PartImage(b, p)), value |-> p]
<1>1. PICK q : q = PartImage(b, p)
  OBVIOUS
<1>2. PICK bytes : bytes = q \o t
  BY Zenon
<1>3. PICK head : head = Len(Headed(b, p))
  BY Zenon
<1>4. PICK at : at = head + PadSize(head, Alignment(p.tag))
  OBVIOUS
<1>5. PICK m : m = Len(b)
  OBVIOUS
<1>6. PICK l : l = Len(p.data)
  BY Zenon
<1>8. /\ m \in Nat /\ head \in Nat /\ at \in Nat /\ Len(t) \in Nat
      /\ head = m + HeadSize(p)
      /\ at >= head
      /\ Len(bytes) = Len(q) + Len(t)
      /\ Len(q) = at + l
      /\ bytes[m + 1] = p.tag
      /\ Slice(bytes, at, l) = p.data
      /\ (p.tag \in Counted /\ Sized(Count(p))) =>
           READ_LENGTH(bytes, m + 1) = [ok |-> TRUE, offset |-> head, length |-> Count(p)]
  BY <1>1, <1>2, <1>3, <1>4, <1>5, <1>6, Layout, Zenon
<1>9. /\ p.tag \in 0..13 /\ p.data \in Seq(Byte) /\ p.count \in Nat /\ l \in Nat
      /\ Count(p) \in Nat
  BY <1>6, PartTyped
<1>10. ~(Len(bytes) - m < 1) /\ Len(bytes) \in Nat /\ ~(Len(bytes) < at + l)
  <2>1. HeadSize(p) \in Nat /\ HeadSize(p) >= 1
    BY HeadedTyped
  <2> QED BY <1>8, <1>9, <2>1
<1>11. PICK sized : sized = READ_LENGTH(bytes, m + 1)
  OBVIOUS
<1>12. p.tag \in Counted => sized.ok /\ sized.offset = head /\ sized.length = Count(p)
  BY <1>8, <1>11
<1>13. p.tag \notin Counted => head = m + 1
  BY <1>8 DEF HeadSize
<1>14. at = align(IF p.tag \in Counted THEN sized.offset ELSE m + 1, Alignment(p.tag))
  BY <1>4, <1>12, <1>13 DEF align
<1>15. l = IF p.tag \in Plain \cup Collections THEN 0
           ELSE IF p.tag \in Counted THEN sized.length * Width(p.tag) ELSE Width(p.tag)
  BY <1>6, <1>12, DataSize
<1>16. p = Part(p.tag, Slice(bytes, at, l), IF p.tag \in Collections THEN sized.length ELSE 0)
  <2>1. p.count = IF p.tag \in Collections THEN sized.length ELSE 0
    <3>1. CASE p.tag \in Collections
      <4>1. p.tag \in Counted /\ Count(p) = p.count
        BY <3>1 DEF Counted, Count
      <4> QED BY <1>12, <3>1, <4>1
    <3>2. CASE p.tag \notin Collections
      BY <3>2 DEF Parts
    <3> QED BY <3>1, <3>2
  <2>2. p = [tag |-> p.tag, data |-> p.data, count |-> p.count]
    BY DEF Parts
  <2> QED BY <1>8, <2>1, <2>2 DEF Part
<1>17. DecodeOne(bytes, m) = [ok |-> TRUE, offset |-> at + l, value |-> p]
  <2>1. ~(\/ Len(bytes) - m < 1
          \/ bytes[m + 1] \notin 0..13
          \/ bytes[m + 1] \in Counted /\ ~READ_LENGTH(bytes, m + 1).ok
          \/ Len(bytes) < at + l)
    BY <1>8, <1>9, <1>10, <1>11, <1>12, Zenon
  <2>2. bytes[m + 1] = p.tag
    BY <1>8
  <2> QED BY <1>11, <1>14, <1>15, <1>16, <2>1, <2>2, Zenon DEF DecodeOne
<1> QED BY <1>1, <1>2, <1>5, <1>8, <1>17

-----------------------------------------------------------------------------
(* Several parts, read by either decoder.                                  *)

\* Of two byte strings, the second begins with the first.
Begins(x, y) == \E t \in Seq(Byte) : y = x \o t

\* A byte string begins with itself.
LEMMA BeginsItself ==
  ASSUME NEW x \in Seq(Byte)
  PROVE  Begins(x, x)
<1>1. x \o << >> = x
  BY ConcatEmptySeq
<1> QED BY <1>1, Nothing, Zenon DEF Begins

\* To begin with is transitive.
LEMMA BeginsOn ==
  ASSUME NEW x \in Seq(Byte), NEW y, Begins(x, y), NEW z, Begins(y, z)
  PROVE  Begins(x, z)
<1>1. PICK t \in Seq(Byte) : y = x \o t
  BY Zenon DEF Begins
<1>2. PICK u \in Seq(Byte) : z = y \o u
  BY Zenon DEF Begins
<1>3. (x \o t) \o u = x \o (t \o u)
  BY Regroup, Zenon
<1>4. t \o u \in Seq(Byte)
  BY Concat
<1>5. z = x \o (t \o u)
  BY <1>1, <1>2, <1>3
<1> QED BY <1>4, <1>5, Zenon DEF Begins

\* Writing a part appends.
LEMMA PartBegins ==
  ASSUME NEW b \in Seq(Byte), NEW p \in Parts
  PROVE  Begins(b, PartImage(b, p))
<1>1. Len(b) \in Nat
  BY LenProperties
<1>2. PartBytes(Len(b), p) \in Seq(Byte)
  BY <1>1, PartBytesTyped
<1> QED BY <1>2, PartAppends DEF Begins

\* A message begins with each of its images.
LEMMA ImagesBegin ==
  ASSUME NEW s \in Seq(Byte), NEW v \in Seq(Parts), NEW f, Images(s, v, f),
         NEW i \in 0..Len(v), NEW k \in i..Len(v)
  PROVE  Begins(f[i], f[k])
<1> DEFINE bad == {j \in i..Len(v) : ~Begins(f[i], f[j])}
<1>1. Len(v) \in Nat /\ \A j \in 0..Len(v) : f[j] \in Seq(Byte)
  BY LenProperties, Zenon DEF Images
<1>2. SUFFICES ASSUME k \in bad PROVE FALSE
  OBVIOUS
<1>3. PICK j \in bad : \A m \in bad : j <= m
  <2>1. bad \in SUBSET Nat
    BY <1>1
  <2> HIDE DEF bad
  <2> QED BY <1>2, <2>1, First, Zenon
<1>4. j \in i..Len(v) /\ ~Begins(f[i], f[j])
  OBVIOUS
<1>5. j # i
  <2>1. f[i] \in Seq(Byte)
    BY <1>1
  <2> QED BY <1>4, <2>1, BeginsItself
<1>6. j \in 1..Len(v) /\ j - 1 \in i..Len(v) /\ ~(j <= j - 1) /\ j - 1 \in 0..Len(v)
  BY <1>1, <1>4, <1>5
<1>7. Begins(f[i], f[j - 1])
  BY <1>3, <1>6
<1>8. PICK b \in Seq(Byte), p \in Parts : b = f[j - 1] /\ p = v[j] /\ f[j] = PartImage(b, p)
  BY <1>1, <1>6, ElementOfSeq DEF Images
<1>9. Begins(f[j - 1], f[j])
  BY <1>8, PartBegins
<1>10. f[i] \in Seq(Byte)
  BY <1>1
<1> QED BY <1>4, <1>7, <1>9, <1>10, BeginsOn

\* Each part has a byte at least.
LEMMA ImagesGrow ==
  ASSUME NEW s \in Seq(Byte), NEW v \in Seq(Parts), NEW f, Images(s, v, f)
  PROVE  \A i \in 0..Len(v) : Len(f[i]) \in Nat /\ Len(f[i]) >= i
<1> DEFINE good(j) == Len(f[j]) \in Nat /\ Len(f[j]) >= j
           bad == {j \in 0..Len(v) : ~good(j)}
<1>1. Len(v) \in Nat /\ \A j \in 0..Len(v) : f[j] \in Seq(Byte)
  BY LenProperties, Zenon DEF Images
<1>2. SUFFICES ASSUME bad # {} PROVE FALSE
  OBVIOUS
<1>3. PICK j \in bad : \A m \in bad : j <= m
  <2>1. bad \in SUBSET Nat
    BY <1>1
  <2> HIDE DEF bad
  <2> QED BY <1>2, <2>1, First, Zenon
<1>4. j \in 0..Len(v) /\ ~good(j) /\ Len(f[j]) \in Nat
  BY <1>1, LenProperties
<1>5. j # 0
  BY <1>4
<1>6. j \in 1..Len(v) /\ j - 1 \in 0..Len(v) /\ ~(j <= j - 1)
  BY <1>1, <1>4, <1>5
<1>7. good(j - 1)
  BY <1>3, <1>6
<1>8. PICK b \in Seq(Byte), p \in Parts : b = f[j - 1] /\ p = v[j] /\ f[j] = PartImage(b, p)
  BY <1>1, <1>6, ElementOfSeq DEF Images
<1>9. Len(PartImage(b, p)) >= Len(b) + 1
  <2>1. PICK t \in Seq(Byte) : t = << >>
    BY Nothing, Zenon
  <2>2. PICK head, at, to : head = Len(Headed(b, p)) /\ to = Alignment(p.tag)
                            /\ at = head + PadSize(head, to)
    BY Zenon
  <2>3. /\ head = Len(b) + HeadSize(p) /\ HeadSize(p) \in Nat /\ HeadSize(p) >= 1
        /\ at \in Nat /\ at >= head /\ Len(PartImage(b, p)) = at + Len(p.data)
    BY <2>2, Layout, Zenon
  <2>4. Len(p.data) \in Nat /\ Len(b) \in Nat
    BY PartTyped, LenProperties
  <2> QED BY <2>3, <2>4
<1>10. Len(b) >= j - 1 /\ Len(b) \in Nat
  BY <1>7, <1>8
<1> QED BY <1>4, <1>6, <1>8, <1>9, <1>10

\* The state of a decoder after i of n values W, for the images f.
At(f, n, W, i) ==
  [ok |-> TRUE, offset |-> Len(f[i]), pending |-> IF i = 0 THEN 1 ELSE n - i,
   values |-> [j \in 1..i |-> W[j]]]

\* One more value of a list of values.
LEMMA AppendsOne ==
  ASSUME NEW n \in Nat, NEW W, NEW i \in 1..n
  PROVE  Append([j \in 1..i - 1 |-> W[j]], W[i]) = [j \in 1..i |-> W[j]]
<1> DEFINE S == {W[j] : j \in 1..n}   a == [j \in 1..i - 1 |-> W[j]]   z == [j \in 1..i |-> W[j]]
<1>1. i - 1 \in Nat /\ i \in Nat /\ (i - 1) + 1 = i
  OBVIOUS
<1>2. a \in [1..i - 1 -> S] /\ z \in [1..i -> S] /\ W[i] \in S
  OBVIOUS
<1>3. \A j \in 1..i - 1 : a[j] = W[j]
  OBVIOUS
<1>4. \A j \in 1..i : z[j] = W[j]
  OBVIOUS
<1>5. a \in Seq(S) /\ Len(a) = i - 1 /\ z \in Seq(S) /\ Len(z) = i
  <2>1. DOMAIN a = 1..i - 1 /\ DOMAIN z = 1..i
    OBVIOUS
  <2> HIDE DEF S, a, z
  <2>2. a \in Seq(S)
    BY <1>1, <1>2, IsASeq
  <2>3. z \in Seq(S)
    BY <1>1, <1>2, IsASeq
  <2> QED BY <1>1, <2>1, <2>2, <2>3, LenProperties
<1> HIDE DEF S, a, z
<1>6. /\ Append(a, W[i]) \in Seq(S) /\ Len(Append(a, W[i])) = Len(a) + 1
      /\ \A j \in 1..Len(a) : Append(a, W[i])[j] = a[j]
      /\ Append(a, W[i])[Len(a) + 1] = W[i]
  BY <1>2, <1>5, AppendProperties
<1>7. \A j \in 1..i : Append(a, W[i])[j] = z[j]
  <2> TAKE j \in 1..i
  <2>1. CASE j = i
    BY <1>1, <1>4, <1>5, <1>6, <2>1
  <2>2. CASE j # i
    <3>1. j \in 1..i - 1
      BY <2>2
    <3> QED BY <1>3, <1>4, <1>5, <1>6, <3>1
  <2> QED BY <2>1, <2>2, Zenon
<1>8. Append(a, W[i]) = z
  BY <1>1, <1>5, <1>6, <1>7, SeqEqual
<1> QED BY <1>8 DEF a, z

\* A run h of a decoder, of N steps at most, goes through these states.
GoesThrough(h, N, f, n, W) ==
  /\ h[0] = At(f, n, W, 0)
  /\ \A i \in 1..n : h[i - 1] = At(f, n, W, i - 1) => h[i] = At(f, n, W, i)
  /\ \A i \in 1..N : Finished(h[i - 1]) => h[i] = h[i - 1]

\* Then it is done at the last of them.
LEMMA Scanned ==
  ASSUME NEW n \in Nat, n > 0, NEW N \in Nat, n <= N, NEW f, NEW W, NEW h,
         GoesThrough(h, N, f, n, W)
  PROVE  h[CHOOSE i \in 0..N : Finished(h[i])] = At(f, n, W, n)
<1> DEFINE wrong == {i \in 0..N : h[i] # At(f, n, W, IF i <= n THEN i ELSE n)}
<1>0. /\ h[0] = At(f, n, W, 0)
      /\ \A i \in 1..n : h[i - 1] = At(f, n, W, i - 1) => h[i] = At(f, n, W, i)
      /\ \A i \in 1..N : Finished(h[i - 1]) => h[i] = h[i - 1]
  BY DEF GoesThrough
<1>1. Finished(At(f, n, W, n))
  BY DEF Finished, At
<1>2. \A i \in 0..n : i # n => ~Finished(At(f, n, W, i))
  BY DEF Finished, At
<1>3. ASSUME wrong # {} PROVE FALSE
  <2>1. PICK i \in wrong : \A m \in wrong : i <= m
    <3>1. wrong \in SUBSET Nat
      OBVIOUS
    <3> HIDE DEF wrong
    <3> QED BY <1>3, <3>1, First, Zenon
  <2>2. i \in 0..N /\ h[i] # At(f, n, W, IF i <= n THEN i ELSE n)
    OBVIOUS
  <2>3. i # 0
    BY <1>0, <2>2
  <2>4. i \in 1..N /\ i - 1 \in 0..N /\ ~(i <= i - 1)
    BY <2>2, <2>3
  <2>5. h[i - 1] = At(f, n, W, IF i - 1 <= n THEN i - 1 ELSE n)
    BY <2>1, <2>4
  <2>6. CASE i <= n
    <3>1. i \in 1..n /\ i - 1 <= n
      BY <2>4, <2>6
    <3> QED BY <1>0, <2>2, <2>5, <2>6, <3>1
  <2>7. CASE ~(i <= n)
    <3>1. h[i - 1] = At(f, n, W, n)
      <4>1. CASE i - 1 = n
        BY <2>5, <4>1
      <4>2. CASE i - 1 # n
        <5>1. ~(i - 1 <= n)
          BY <2>4, <2>7, <4>2
        <5> QED BY <2>5, <5>1
      <4> QED BY <4>1, <4>2
    <3>2. h[i] = h[i - 1]
      BY <1>0, <1>1, <2>4, <3>1
    <3> QED BY <2>2, <2>7, <3>1, <3>2
  <2> QED BY <2>6, <2>7
<1>4. \A i \in 0..N : h[i] = At(f, n, W, IF i <= n THEN i ELSE n)
  BY <1>3
<1>5. PICK c : c = CHOOSE i \in 0..N : Finished(h[i])
  OBVIOUS
<1>6. c \in 0..N /\ Finished(h[c])
  <2>1. n \in 0..N /\ Finished(h[n])
    BY <1>1, <1>4
  <2> QED BY <1>5, <2>1
<1>7. ~(c <= n /\ c # n)
  <2> SUFFICES ASSUME c <= n, c # n PROVE FALSE
    OBVIOUS
  <2>1. c \in 0..n /\ h[c] = At(f, n, W, c)
    BY <1>4, <1>6
  <2> QED BY <1>2, <1>6, <2>1
<1>8. h[c] = At(f, n, W, n)
  <2>1. CASE c = n
    BY <1>4, <1>6, <2>1
  <2>2. CASE ~(c <= n)
    BY <1>4, <1>6, <2>2
  <2> QED BY <1>6, <1>7, <2>1, <2>2
<1> QED BY <1>5, <1>8

\* A value without collections in it: one part, or a collection and its members.
Flat(v) ==
  /\ v \in Seq(Parts) /\ Len(v) \in Nat /\ Len(v) >= 1
  /\ \A i \in 1..Len(v) : Members(v[i]) = IF i = 1 THEN Len(v) - 1 ELSE 0

\* The values that are pending after a part, with its members.
LEMMA PendingAfter ==
  ASSUME NEW n \in Nat, NEW i \in 1..n, NEW m, m = IF i = 1 THEN n - 1 ELSE 0
  PROVE  (IF i - 1 = 0 THEN 1 ELSE n - (i - 1)) - 1 + m = (IF i = 0 THEN 1 ELSE n - i)
OBVIOUS

\* What is not finished yet goes on to the next part.
LEMMA GoesOn ==
  ASSUME NEW f, NEW n \in Nat, NEW W, NEW i \in 1..n
  PROVE  /\ ~Finished(At(f, n, W, i - 1))
         /\ At(f, n, W, i - 1).offset = Len(f[i - 1])
         /\ At(f, n, W, i - 1).pending = IF i - 1 = 0 THEN 1 ELSE n - (i - 1)
         /\ Append(At(f, n, W, i - 1).values, W[i]) = At(f, n, W, i).values
<1>1. Append([j \in 1..i - 1 |-> W[j]], W[i]) = [j \in 1..i |-> W[j]]
  BY AppendsOne
<1> QED BY <1>1 DEF Finished, At

\* Reading starts in the first of the states.
LEMMA StartsReading ==
  ASSUME NEW f, NEW n, NEW W
  PROVE  At(f, n, W, 0) = Reading(Len(f[0]))
<1>1. [j \in 1..0 |-> W[j]] = << >>
  OBVIOUS
<1> QED BY <1>1 DEF At, Reading

\* A part has as many members when it is read.
LEMMA GotMembers ==
  ASSUME NEW p, Readable(p)
  PROVE  Got(p).members = Members(p)
BY DEF Got, Readable, Members, NoValue, DartValue, Plain, Collections, kValueNull, kValueTrue,
   kValueFalse, kValueInt32, kValueInt64, kValueFloat64, kValueString, kValueList, kValueMap

\* The bytes of an image in a message.
LEMMA PartThere ==
  ASSUME NEW s \in Seq(Byte), NEW v \in Seq(Parts), NEW f, Images(s, v, f), NEW i \in 1..Len(v),
         NEW bytes, Begins(f[Len(v)], bytes)
  PROVE  Begins(PartImage(f[i - 1], v[i]), bytes)
<1>1. Len(v) \in Nat /\ \A j \in 0..Len(v) : f[j] \in Seq(Byte)
  BY LenProperties, Zenon DEF Images
<1>2. Begins(f[i], f[Len(v)])
  <2>1. i \in 0..Len(v) /\ Len(v) \in i..Len(v)
    BY <1>1
  <2> QED BY <2>1, ImagesBegin
<1>3. f[i] \in Seq(Byte)
  BY <1>1
<1>4. Begins(f[i], bytes)
  BY <1>2, <1>3, BeginsOn
<1>5. f[i] = PartImage(f[i - 1], v[i])
  BY DEF Images
<1> QED BY <1>4, <1>5

\* message_read after another part.
LEMMA ReadsNext ==
  ASSUME NEW s \in Seq(Byte), NEW v, Flat(v), NEW f, Images(s, v, f), NEW i \in 1..Len(v),
         Readable(v[i]), NEW bytes, Begins(f[Len(v)], bytes), NEW W, W[i] = Got(v[i])
  PROVE  ReadNext(bytes, At(f, Len(v), W, i - 1)) = At(f, Len(v), W, i)
<1>1. v \in Seq(Parts) /\ Len(v) \in Nat
  BY DEF Flat
<1>2. PICK b \in Seq(Byte) : b = f[i - 1]
  <2>1. i - 1 \in 0..Len(v)
    BY <1>1
  <2> QED BY <2>1, Zenon DEF Images
<1>3. PICK t \in Seq(Byte) : bytes = PartImage(b, v[i]) \o t
  <2>1. Begins(PartImage(f[i - 1], v[i]), bytes)
    BY <1>1, PartThere
  <2> QED BY <1>2, <2>1, Zenon DEF Begins
<1>4. f[i] = PartImage(b, v[i])
  BY <1>2 DEF Images
<1>5. PICK p : p = v[i] /\ Readable(p)
  OBVIOUS
<1>6. ReadOne(bytes, Len(b)) = Read(Len(f[i]), Got(p))
  BY <1>3, <1>4, <1>5, ReadsPart
<1>7. Got(p).members = Members(p)
  BY <1>5, GotMembers
<1>8. PICK n \in Nat : n = Len(v)
  BY <1>1
<1>9. PICK r : r = At(f, n, W, i - 1)
  OBVIOUS
<1>10. /\ ~Finished(r) /\ r.offset = Len(b)
       /\ r.pending = IF i - 1 = 0 THEN 1 ELSE n - (i - 1)
       /\ Append(r.values, W[i]) = At(f, n, W, i).values
  <2>1. i \in 1..n
    BY <1>8
  <2>2. /\ ~Finished(At(f, n, W, i - 1)) /\ At(f, n, W, i - 1).offset = Len(f[i - 1])
        /\ At(f, n, W, i - 1).pending = IF i - 1 = 0 THEN 1 ELSE n - (i - 1)
        /\ Append(At(f, n, W, i - 1).values, W[i]) = At(f, n, W, i).values
    BY <2>1, GoesOn, Zenon
  <2> QED BY <1>2, <1>9, <2>2
<1>11. PICK m : m = Members(p)
  OBVIOUS
<1>12. m = IF i = 1 THEN n - 1 ELSE 0
  BY <1>5, <1>8, <1>11 DEF Flat
<1>13. r.pending - 1 + m = IF i = 0 THEN 1 ELSE n - i
  BY <1>8, <1>10, <1>12, PendingAfter
<1>14. PICK one : one = ReadOne(bytes, r.offset)
  OBVIOUS
<1>15. one.ok /\ one.offset = Len(f[i]) /\ one.value = W[i] /\ one.value.members = m
  BY <1>5, <1>6, <1>7, <1>10, <1>11, <1>14 DEF Read
<1>16. ReadNext(bytes, r) =
         [ok |-> TRUE, offset |-> one.offset, pending |-> r.pending - 1 + one.value.members,
          values |-> Append(r.values, one.value)]
  BY <1>10, <1>14, <1>15 DEF ReadNext
<1>17. ReadNext(bytes, r) =
         [ok |-> TRUE, offset |-> Len(f[i]), pending |-> IF i = 0 THEN 1 ELSE n - i,
          values |-> At(f, n, W, i).values]
  BY <1>10, <1>13, <1>15, <1>16, Zenon
<1> QED BY <1>8, <1>9, <1>17 DEF At

\* platch_decode_value_std after another part.
LEMMA DecodesNext ==
  ASSUME NEW s \in Seq(Byte), NEW v, Flat(v), NEW f, Images(s, v, f), NEW i \in 1..Len(v),
         v[i].tag \in Counted => Sized(Count(v[i])),
         NEW bytes, Begins(f[Len(v)], bytes), NEW W, W[i] = v[i]
  PROVE  DecodeNext(bytes, At(f, Len(v), W, i - 1)) = At(f, Len(v), W, i)
<1>1. v \in Seq(Parts) /\ Len(v) \in Nat
  BY DEF Flat
<1>2. PICK b \in Seq(Byte) : b = f[i - 1]
  <2>1. i - 1 \in 0..Len(v)
    BY <1>1
  <2> QED BY <2>1, Zenon DEF Images
<1>3. PICK t \in Seq(Byte) : bytes = PartImage(b, v[i]) \o t
  <2>1. Begins(PartImage(f[i - 1], v[i]), bytes)
    BY <1>1, PartThere
  <2> QED BY <1>2, <2>1, Zenon DEF Begins
<1>4. f[i] = PartImage(b, v[i])
  BY <1>2 DEF Images
<1>5. PICK p \in Parts : p = v[i] /\ (p.tag \in Counted => Sized(Count(p)))
  BY <1>1, ElementOfSeq
<1>6. DecodeOne(bytes, Len(b)) = [ok |-> TRUE, offset |-> Len(f[i]), value |-> p]
  <2>1. DecodeOne(PartImage(b, p) \o t, Len(b)) =
          [ok |-> TRUE, offset |-> Len(PartImage(b, p)), value |-> p]
    BY <1>5, DecodesPart, Zenon
  <2> QED BY <1>3, <1>4, <1>5, <2>1
<1>8. PICK n \in Nat : n = Len(v)
  BY <1>1
<1>9. PICK r : r = At(f, n, W, i - 1)
  OBVIOUS
<1>10. /\ ~Finished(r) /\ r.offset = Len(b)
       /\ r.pending = IF i - 1 = 0 THEN 1 ELSE n - (i - 1)
       /\ Append(r.values, W[i]) = At(f, n, W, i).values
  <2>1. i \in 1..n
    BY <1>8
  <2>2. /\ ~Finished(At(f, n, W, i - 1)) /\ At(f, n, W, i - 1).offset = Len(f[i - 1])
        /\ At(f, n, W, i - 1).pending = IF i - 1 = 0 THEN 1 ELSE n - (i - 1)
        /\ Append(At(f, n, W, i - 1).values, W[i]) = At(f, n, W, i).values
    BY <2>1, GoesOn, Zenon
  <2> QED BY <1>2, <1>9, <2>2
<1>11. PICK m : m = Members(p)
  OBVIOUS
<1>12. m = IF i = 1 THEN n - 1 ELSE 0
  BY <1>5, <1>8, <1>11 DEF Flat
<1>13. r.pending - 1 + m = IF i = 0 THEN 1 ELSE n - i
  BY <1>8, <1>10, <1>12, PendingAfter
<1>14. PICK one : one = DecodeOne(bytes, r.offset)
  OBVIOUS
<1>15. one.ok /\ one.offset = Len(f[i]) /\ one.value = W[i] /\ Members(one.value) = m
  BY <1>5, <1>6, <1>10, <1>11, <1>14
<1>16. DecodeNext(bytes, r) =
         [ok |-> TRUE, offset |-> one.offset, pending |-> r.pending - 1 + Members(one.value),
          values |-> Append(r.values, one.value)]
  BY <1>10, <1>14, <1>15 DEF DecodeNext
<1>17. DecodeNext(bytes, r) =
         [ok |-> TRUE, offset |-> Len(f[i]), pending |-> IF i = 0 THEN 1 ELSE n - i,
          values |-> At(f, n, W, i).values]
  BY <1>10, <1>13, <1>15, <1>16, Zenon
<1> QED BY <1>8, <1>9, <1>17 DEF At

\* What message_read reads of a message is what its image was made of.
THEOREM ReadsImage ==
  ASSUME NEW s \in Seq(Byte), NEW v, Flat(v), \A i \in 1..Len(v) : Readable(v[i]),
         NEW bytes \in Seq(Byte), Begins(Image(s, v), bytes)
  PROVE  message_read(bytes, Len(s)) =
           [ok |-> TRUE, offset |-> Len(Image(s, v)), pending |-> 0,
            values |-> [i \in 1..Len(v) |-> Got(v[i])]]
<1>1. v \in Seq(Parts)
  BY DEF Flat
<1>2. PICK f : Images(s, v, f) /\ Image(s, v) = f[Len(v)]
  BY <1>1, ImageRuns
<1>3. PICK n \in Nat : n = Len(v) /\ n >= 1
  BY DEF Flat
<1>4. PICK N \in Nat : N = Len(bytes) + 1 /\ n <= N
  <2>1. Len(f[n]) \in Nat /\ Len(f[n]) >= n
    BY <1>1, <1>2, <1>3, ImagesGrow
  <2>2. f[n] \in Seq(Byte)
    BY <1>2, <1>3 DEF Images
  <2>3. Len(bytes) \in Nat /\ Len(bytes) >= Len(f[n])
    <3>1. PICK t \in Seq(Byte) : bytes = f[n] \o t
      BY <1>2, <1>3, Zenon DEF Begins
    <3>2. PICK b \in Seq(Byte) : b = f[n]
      BY <2>2
    <3>3. Len(b \o t) = Len(b) + Len(t) /\ Len(b) \in Nat /\ Len(t) \in Nat
      BY Concat, LenProperties
    <3> QED BY <3>1, <3>2, <3>3
  <2> QED BY <1>3, <2>1, <2>3
<1>5. PICK W : W = [i \in 1..n |-> Got(v[i])]
  BY Zenon
<1>6. \A i \in 1..n : ReadNext(bytes, At(f, n, W, i - 1)) = At(f, n, W, i)
  <2> TAKE i \in 1..n
  <2>1. i \in 1..Len(v) /\ W[i] = Got(v[i])
    BY <1>3, <1>5
  <2>2. Begins(f[Len(v)], bytes)
    BY <1>2
  <2>3. Readable(v[i])
    BY <2>1
  <2>4. ReadNext(bytes, At(f, Len(v), W, i - 1)) = At(f, Len(v), W, i)
    BY <1>2, <2>1, <2>2, <2>3, ReadsNext
  <2> QED BY <1>3, <2>4
<1>7. \A r : Finished(r) => ReadNext(bytes, r) = r
  BY DEF ReadNext
<1>8. At(f, n, W, 0) = Reading(Len(s))
  <2>1. f[0] = s
    BY <1>2 DEF Images
  <2> QED BY <2>1, StartsReading
<1>9. Finished(At(f, n, W, n))
  BY <1>3 DEF Finished, At
<1> DEFINE Run(h) == [i \in 0..N |-> IF i = 0 THEN Reading(Len(s)) ELSE ReadNext(bytes, h[i - 1])]
           w == [i \in 0..N |-> At(f, n, W, IF i <= n THEN i ELSE n)]
           read == CHOOSE read : read = Run(read)
<1>10. w = Run(w)
  <2>1. \A i \in 0..N : w[i] = IF i = 0 THEN Reading(Len(s)) ELSE ReadNext(bytes, w[i - 1])
    <3> TAKE i \in 0..N
    <3>1. w[i] = At(f, n, W, IF i <= n THEN i ELSE n)
      OBVIOUS
    <3>2. CASE i = 0
      BY <1>8, <3>1, <3>2
    <3>3. CASE i # 0
      <4>1. w[i - 1] = At(f, n, W, IF i - 1 <= n THEN i - 1 ELSE n)
        BY <3>3
      <4> HIDE DEF w
      <4>2. CASE i <= n
        <5>1. i \in 1..n /\ i - 1 <= n
          BY <3>3, <4>2
        <5>2. w[i - 1] = At(f, n, W, i - 1) /\ w[i] = At(f, n, W, i)
          BY <3>1, <4>1, <4>2, <5>1
        <5> QED BY <1>6, <3>3, <5>1, <5>2
      <4>3. CASE ~(i <= n)
        <5>1. w[i] = At(f, n, W, n)
          BY <3>1, <4>3
        <5>2. w[i - 1] = At(f, n, W, n)
          <6>1. CASE i - 1 = n
            BY <4>1, <6>1
          <6>2. CASE i - 1 # n
            <7>1. ~(i - 1 <= n)
              BY <4>3, <6>2
            <7> QED BY <4>1, <7>1
          <6> QED BY <6>1, <6>2
        <5> QED BY <1>7, <1>9, <3>3, <5>1, <5>2
      <4> QED BY <4>2, <4>3
    <3> QED BY <3>2, <3>3
  <2>2. w = [i \in 0..N |-> w[i]]
    OBVIOUS
  <2> HIDE DEF w
  <2>3. w = [i \in 0..N |-> IF i = 0 THEN Reading(Len(s)) ELSE ReadNext(bytes, w[i - 1])]
    BY <2>1, <2>2, Zenon
  <2> QED BY <2>3
<1> HIDE DEF w
<1>11. read = Run(read)
  BY <1>10, Zenon
<1>12. message_read(bytes, Len(s)) = read[CHOOSE i \in 0..N : Finished(read[i])]
  BY <1>4 DEF message_read
<1> HIDE DEF read
<1>13. /\ read[0] = Reading(Len(s))
       /\ \A i \in 1..N : read[i] = ReadNext(bytes, read[i - 1])
  <2>1. \A i \in 0..N : read[i] = IF i = 0 THEN Reading(Len(s)) ELSE ReadNext(bytes, read[i - 1])
    BY <1>11
  <2> QED BY <2>1
<1>14. read[0] = At(f, n, W, 0)
  BY <1>8, <1>13
<1>15. \A i \in 1..n : read[i - 1] = At(f, n, W, i - 1) => read[i] = At(f, n, W, i)
  <2> TAKE i \in 1..n
  <2>1. i \in 1..N
    BY <1>4
  <2> QED BY <1>6, <1>13, <2>1
<1>16. \A i \in 1..N : Finished(read[i - 1]) => read[i] = read[i - 1]
  BY <1>7, <1>13
<1>17. read[CHOOSE i \in 0..N : Finished(read[i])] = At(f, n, W, n)
  <2>1. n > 0 /\ n <= N
    BY <1>3, <1>4
  <2>2. GoesThrough(read, N, f, n, W)
    BY <1>14, <1>15, <1>16 DEF GoesThrough
  <2> QED BY <2>1, <2>2, Scanned
<1>18. At(f, n, W, n) = [ok |-> TRUE, offset |-> Len(f[n]), pending |-> 0,
                         values |-> [i \in 1..n |-> W[i]]]
  <2>1. (IF n = 0 THEN 1 ELSE n - n) = 0
    BY <1>3
  <2> QED BY <2>1, Zenon DEF At
<1>19. [i \in 1..n |-> W[i]] = [i \in 1..n |-> Got(v[i])]
  BY <1>5
<1> QED BY <1>2, <1>3, <1>12, <1>17, <1>18, <1>19, Zenon

\* So is what platch_decode_value_std reads.
THEOREM DecodesImage ==
  ASSUME NEW s \in Seq(Byte), NEW v, Flat(v),
         \A i \in 1..Len(v) : v[i].tag \in Counted => Sized(Count(v[i])),
         NEW bytes \in Seq(Byte), Begins(Image(s, v), bytes)
  PROVE  platch_decode_value_std(bytes, Len(s)) =
           [ok |-> TRUE, offset |-> Len(Image(s, v)), pending |-> 0,
            values |-> [i \in 1..Len(v) |-> v[i]]]
<1>1. v \in Seq(Parts)
  BY DEF Flat
<1>2. PICK f : Images(s, v, f) /\ Image(s, v) = f[Len(v)]
  BY <1>1, ImageRuns
<1>3. PICK n \in Nat : n = Len(v) /\ n >= 1
  BY DEF Flat
<1>4. PICK N \in Nat : N = Len(bytes) + 1 /\ n <= N
  <2>1. Len(f[n]) \in Nat /\ Len(f[n]) >= n
    BY <1>1, <1>2, <1>3, ImagesGrow
  <2>2. f[n] \in Seq(Byte)
    BY <1>2, <1>3 DEF Images
  <2>3. Len(bytes) \in Nat /\ Len(bytes) >= Len(f[n])
    <3>1. PICK t \in Seq(Byte) : bytes = f[n] \o t
      BY <1>2, <1>3, Zenon DEF Begins
    <3>2. PICK b \in Seq(Byte) : b = f[n]
      BY <2>2
    <3>3. Len(b \o t) = Len(b) + Len(t) /\ Len(b) \in Nat /\ Len(t) \in Nat
      BY Concat, LenProperties
    <3> QED BY <3>1, <3>2, <3>3
  <2> QED BY <1>3, <2>1, <2>3
<1>5. PICK W : W = [i \in 1..n |-> v[i]]
  BY Zenon
<1>6. \A i \in 1..n : DecodeNext(bytes, At(f, n, W, i - 1)) = At(f, n, W, i)
  <2> TAKE i \in 1..n
  <2>1. i \in 1..Len(v) /\ W[i] = v[i]
    BY <1>3, <1>5
  <2>2. Begins(f[Len(v)], bytes)
    BY <1>2
  <2>3. v[i].tag \in Counted => Sized(Count(v[i]))
    BY <2>1
  <2>4. DecodeNext(bytes, At(f, Len(v), W, i - 1)) = At(f, Len(v), W, i)
    BY <1>2, <2>1, <2>2, <2>3, DecodesNext
  <2> QED BY <1>3, <2>4
<1>7. \A r : Finished(r) => DecodeNext(bytes, r) = r
  BY DEF DecodeNext
<1>8. At(f, n, W, 0) = Reading(Len(s))
  <2>1. f[0] = s
    BY <1>2 DEF Images
  <2> QED BY <2>1, StartsReading
<1>9. Finished(At(f, n, W, n))
  BY <1>3 DEF Finished, At
<1> DEFINE Run(h) == [i \in 0..N |-> IF i = 0 THEN Reading(Len(s)) ELSE DecodeNext(bytes, h[i - 1])]
           w == [i \in 0..N |-> At(f, n, W, IF i <= n THEN i ELSE n)]
           read == CHOOSE read : read = Run(read)
<1>10. w = Run(w)
  <2>1. \A i \in 0..N : w[i] = IF i = 0 THEN Reading(Len(s)) ELSE DecodeNext(bytes, w[i - 1])
    <3> TAKE i \in 0..N
    <3>1. w[i] = At(f, n, W, IF i <= n THEN i ELSE n)
      OBVIOUS
    <3>2. CASE i = 0
      BY <1>8, <3>1, <3>2
    <3>3. CASE i # 0
      <4>1. w[i - 1] = At(f, n, W, IF i - 1 <= n THEN i - 1 ELSE n)
        BY <3>3
      <4> HIDE DEF w
      <4>2. CASE i <= n
        <5>1. i \in 1..n /\ i - 1 <= n
          BY <3>3, <4>2
        <5>2. w[i - 1] = At(f, n, W, i - 1) /\ w[i] = At(f, n, W, i)
          BY <3>1, <4>1, <4>2, <5>1
        <5> QED BY <1>6, <3>3, <5>1, <5>2
      <4>3. CASE ~(i <= n)
        <5>1. w[i] = At(f, n, W, n)
          BY <3>1, <4>3
        <5>2. w[i - 1] = At(f, n, W, n)
          <6>1. CASE i - 1 = n
            BY <4>1, <6>1
          <6>2. CASE i - 1 # n
            <7>1. ~(i - 1 <= n)
              BY <4>3, <6>2
            <7> QED BY <4>1, <7>1
          <6> QED BY <6>1, <6>2
        <5> QED BY <1>7, <1>9, <3>3, <5>1, <5>2
      <4> QED BY <4>2, <4>3
    <3> QED BY <3>2, <3>3
  <2>2. w = [i \in 0..N |-> w[i]]
    OBVIOUS
  <2> HIDE DEF w
  <2>3. w = [i \in 0..N |-> IF i = 0 THEN Reading(Len(s)) ELSE DecodeNext(bytes, w[i - 1])]
    BY <2>1, <2>2, Zenon
  <2> QED BY <2>3
<1> HIDE DEF w
<1>11. read = Run(read)
  BY <1>10, Zenon
<1>12. platch_decode_value_std(bytes, Len(s)) = read[CHOOSE i \in 0..N : Finished(read[i])]
  BY <1>4 DEF platch_decode_value_std
<1> HIDE DEF read
<1>13. /\ read[0] = Reading(Len(s))
       /\ \A i \in 1..N : read[i] = DecodeNext(bytes, read[i - 1])
  <2>1. \A i \in 0..N : read[i] = IF i = 0 THEN Reading(Len(s)) ELSE DecodeNext(bytes, read[i - 1])
    BY <1>11
  <2> QED BY <2>1
<1>14. read[0] = At(f, n, W, 0)
  BY <1>8, <1>13
<1>15. \A i \in 1..n : read[i - 1] = At(f, n, W, i - 1) => read[i] = At(f, n, W, i)
  <2> TAKE i \in 1..n
  <2>1. i \in 1..N
    BY <1>4
  <2> QED BY <1>6, <1>13, <2>1
<1>16. \A i \in 1..N : Finished(read[i - 1]) => read[i] = read[i - 1]
  BY <1>7, <1>13
<1>17. read[CHOOSE i \in 0..N : Finished(read[i])] = At(f, n, W, n)
  <2>1. n > 0 /\ n <= N
    BY <1>3, <1>4
  <2>2. GoesThrough(read, N, f, n, W)
    BY <1>14, <1>15, <1>16 DEF GoesThrough
  <2> QED BY <2>1, <2>2, Scanned
<1>18. At(f, n, W, n) = [ok |-> TRUE, offset |-> Len(f[n]), pending |-> 0,
                         values |-> [i \in 1..n |-> W[i]]]
  <2>1. (IF n = 0 THEN 1 ELSE n - n) = 0
    BY <1>3
  <2> QED BY <2>1, Zenon DEF At
<1>19. [i \in 1..n |-> W[i]] = [i \in 1..n |-> v[i]]
  BY <1>5
<1> QED BY <1>2, <1>3, <1>12, <1>17, <1>18, <1>19, Zenon

-----------------------------------------------------------------------------
(* Calls, and what is read of them.                                        *)

\* A value that either decoder reads off its image.
Legible(v) == Flat(v) /\ \A i \in 1..Len(v) : Readable(v[i])

\* A value of one part.
LEMMA OnePart ==
  ASSUME NEW p, Readable(p), Members(p) = 0, <<p>> \in Seq(Parts)
  PROVE  Legible(<<p>>) /\ Len(<<p>>) = 1 /\ <<p>>[1] = p
<1>1. Len(<<p>>) = 1 /\ <<p>>[1] = p
  OBVIOUS
<1>2. PICK v \in Seq(Parts) : v = <<p>>
  BY Zenon
<1>3. PICK n \in Nat : n = Len(v) /\ n = 1
  BY <1>1, <1>2
<1>4. \A i \in 1..n : i = 1 /\ v[i] = p
  BY <1>1, <1>2, <1>3
<1>5. Flat(v)
  BY <1>3, <1>4 DEF Flat
<1>6. Legible(v)
  BY <1>3, <1>4, <1>5 DEF Legible
<1> QED BY <1>1, <1>2, <1>6

\* Strings and null are values of one part.
LEMMA TextLegible ==
  ASSUME NEW s \in Seq(Byte), Sized(Len(s))
  PROVE  /\ Readable(Part(kValueString, s, 0)) /\ Members(Part(kValueString, s, 0)) = 0
         /\ Legible(Text(s)) /\ Len(Text(s)) = 1 /\ Text(s)[1] = Part(kValueString, s, 0)
<1>1. PICK p \in Parts : p = Part(kValueString, s, 0)
  BY TextTyped
<1>2. p.tag = kValueString /\ p.data = s /\ p.count = 0
  BY <1>1 DEF Part
<1>3. /\ kValueString \notin Collections /\ kValueString \notin Plain
      /\ Width(kValueString) = 1 /\ kValueString # kValueList /\ kValueString # kValueMap
  BY SizedTag DEF kValueString, kValueList, kValueMap
<1>4. Count(p) = Len(s)
  <2>1. PICK l \in Nat : l = Len(s)
    BY LenProperties
  <2>2. l \div 1 = l
    OBVIOUS
  <2> QED BY <1>2, <1>3, <2>1, <2>2 DEF Count
<1>5. Readable(p)
  BY <1>2, <1>4 DEF Readable
<1>6. Members(p) = 0
  BY <1>2, <1>3 DEF Members
<1>7. Text(s) = <<p>> /\ <<p>> \in Seq(Parts)
  BY <1>1, TextTyped DEF Text
<1> QED BY <1>1, <1>5, <1>6, <1>7, OnePart

\* Null is a value of one part.
LEMMA NullLegible == Legible(Null) /\ Len(Null) = 1 /\ Null[1] = Part(kValueNull, << >>, 0)
<1>1. PICK p \in Parts : p = Part(kValueNull, << >>, 0)
  BY NullTyped
<1>2. p.tag = kValueNull
  BY <1>1 DEF Part
<1>3. kValueNull \notin Counted /\ kValueNull \in Plain /\ kValueNull # kValueList /\ kValueNull # kValueMap
  BY DEF Counted, Strings, Arrays, Collections, Plain, kValueNull, kValueTrue, kValueFalse,
     kValueString, kStdLargeInt, kStdUInt8Array, kStdInt32Array, kStdInt64Array,
     kStdFloat64Array, kValueList, kValueMap
<1>4. Readable(p) /\ Members(p) = 0
  BY <1>2, <1>3 DEF Readable, Members
<1>5. Null = <<p>> /\ <<p>> \in Seq(Parts)
  BY <1>1, NullTyped DEF Null
<1> QED BY <1>1, <1>4, <1>5, OnePart

\* A message begins with what it starts from.
LEMMA ImageBegins ==
  ASSUME NEW s \in Seq(Byte), NEW v \in Seq(Parts)
  PROVE  Begins(s, Image(s, v))
<1>1. PICK f : Images(s, v, f) /\ Image(s, v) = f[Len(v)]
  BY ImageRuns
<1>2. PICK n \in Nat : n = Len(v)
  BY LenProperties
<1>3. PICK i \in 0..n : i = 0
  OBVIOUS
<1>4. n \in i..n
  BY <1>3
<1>5. Begins(f[i], f[n])
  BY <1>1, <1>2, <1>4, ImagesBegin
<1> QED BY <1>1, <1>2, <1>3, <1>5 DEF Images

\* The bytes of a call: its name s and its arguments.
Asks(bytes, s, args) == bytes = Image(Image(<< >>, Text(s)), args)

\* Both decoders read the name and then the arguments.
Parsed(bytes, s, args) ==
  \E at \in Nat :
    /\ message_read(bytes, 0) =
         [ok |-> TRUE, offset |-> at, pending |-> 0,
          values |-> <<DartValue("dvString", s, 0, 0)>>]
    /\ message_read(bytes, at) =
         [ok |-> TRUE, offset |-> Len(bytes), pending |-> 0,
          values |-> [i \in 1..Len(args) |-> Got(args[i])]]
    /\ platch_decode_value_std(bytes, 0) =
         [ok |-> TRUE, offset |-> at, pending |-> 0, values |-> Text(s)]
    /\ platch_decode_value_std(bytes, at) =
         [ok |-> TRUE, offset |-> Len(bytes), pending |-> 0,
          values |-> [i \in 1..Len(args) |-> args[i]]]

\* What was read of the name is left behind: the arguments are read next.
LEMMA ReadsCall ==
  ASSUME NEW s \in Seq(Byte), Sized(Len(s)), NEW args, Legible(args), NEW bytes,
         Asks(bytes, s, args)
  PROVE  Parsed(bytes, s, args)
<1>1. PICK none \in Seq(Byte) : none = << >> /\ Len(none) = 0
  BY Nothing, Zenon
<1>2. PICK text : text = Text(s) /\ Legible(text) /\ Len(text) = 1 /\ text[1] = Part(kValueString, s, 0)
  BY TextLegible
<1>3. text \in Seq(Parts) /\ args \in Seq(Parts)
  BY <1>2 DEF Legible, Flat
<1>4. PICK name \in Seq(Byte) : name = Image(none, text)
  BY <1>1, <1>3, ImageTyped, Zenon
<1>5. bytes = Image(name, args) /\ bytes \in Seq(Byte)
  BY <1>1, <1>2, <1>3, <1>4, ImageTyped DEF Asks
<1>6. Begins(name, bytes) /\ Begins(bytes, bytes)
  BY <1>3, <1>5, ImageBegins, BeginsItself
<1>7. PICK at \in Nat : at = Len(name)
  BY LenProperties
<1>8. \A v : Legible(v) => \A i \in 1..Len(v) : v[i].tag \in Counted => Sized(Count(v[i]))
  BY DEF Legible, Readable
<1>9. message_read(bytes, 0) =
        [ok |-> TRUE, offset |-> at, pending |-> 0, values |-> [i \in 1..Len(text) |-> Got(text[i])]]
  <2>1. Flat(text) /\ (\A i \in 1..Len(text) : Readable(text[i])) /\ Begins(Image(none, text), bytes)
    BY <1>2, <1>4, <1>6 DEF Legible
  <2>2. message_read(bytes, Len(none)) =
          [ok |-> TRUE, offset |-> Len(Image(none, text)), pending |-> 0,
           values |-> [i \in 1..Len(text) |-> Got(text[i])]]
    BY <1>5, <2>1, ReadsImage
  <2> QED BY <1>1, <1>4, <1>7, <2>2
<1>10. message_read(bytes, at) =
        [ok |-> TRUE, offset |-> Len(bytes), pending |-> 0, values |-> [i \in 1..Len(args) |-> Got(args[i])]]
  <2>1. Flat(args) /\ (\A i \in 1..Len(args) : Readable(args[i])) /\ Begins(Image(name, args), bytes)
    BY <1>5, <1>6 DEF Legible
  <2> QED BY <1>5, <1>7, <2>1, ReadsImage
<1>11. platch_decode_value_std(bytes, 0) =
        [ok |-> TRUE, offset |-> at, pending |-> 0, values |-> [i \in 1..Len(text) |-> text[i]]]
  <2>1. Flat(text) /\ (\A i \in 1..Len(text) : text[i].tag \in Counted => Sized(Count(text[i])))
        /\ Begins(Image(none, text), bytes)
    BY <1>2, <1>4, <1>6, <1>8 DEF Legible
  <2>2. platch_decode_value_std(bytes, Len(none)) =
          [ok |-> TRUE, offset |-> Len(Image(none, text)), pending |-> 0,
           values |-> [i \in 1..Len(text) |-> text[i]]]
    BY <1>5, <2>1, DecodesImage, Zenon
  <2> QED BY <1>1, <1>4, <1>7, <2>2
<1>12. platch_decode_value_std(bytes, at) =
        [ok |-> TRUE, offset |-> Len(bytes), pending |-> 0, values |-> [i \in 1..Len(args) |-> args[i]]]
  <2>1. Flat(args) /\ (\A i \in 1..Len(args) : args[i].tag \in Counted => Sized(Count(args[i])))
        /\ Begins(Image(name, args), bytes)
    BY <1>5, <1>6, <1>8 DEF Legible
  <2> QED BY <1>5, <1>7, <2>1, DecodesImage
<1>13. [i \in 1..Len(text) |-> text[i]] = Text(s)
  <2>1. Text(s) = [i \in 1..1 |-> Part(kValueString, s, 0)]
    BY DEF Text
  <2>2. \A i \in 1..1 : text[i] = Part(kValueString, s, 0)
    BY <1>2
  <2> QED BY <1>2, <2>1, <2>2
<1>14. [i \in 1..Len(text) |-> Got(text[i])] = <<DartValue("dvString", s, 0, 0)>>
  <2>1. Got(Part(kValueString, s, 0)) = DartValue("dvString", s, 0, 0)
    BY DEF Got, Part, kValueNull, kValueTrue, kValueFalse, kValueInt32, kValueInt64,
       kValueFloat64, kValueString, Collections, kValueList, kValueMap
  <2>2. \A i \in 1..1 : Got(text[i]) = DartValue("dvString", s, 0, 0)
    BY <1>2, <2>1
  <2>3. <<DartValue("dvString", s, 0, 0)>> = [i \in 1..1 |-> DartValue("dvString", s, 0, 0)]
    OBVIOUS
  <2> QED BY <1>2, <2>2, <2>3
<1> QED BY <1>9, <1>10, <1>11, <1>12, <1>13, <1>14, Zenon DEF Parsed

\* What Dart gives for an argument is read as it is.
LEMMA SendableReadable ==
  ASSUME NEW name, NEW p \in Sendable(name)
  PROVE  /\ p \in Parts /\ Readable(p) /\ Members(p) = 0
         /\ p.tag \in {kValueTrue, kValueFalse, kValueInt32, kValueInt64, kValueFloat64}
<1>1. p \in Parts /\ p.tag \in {kValueTrue, kValueFalse, kValueInt32, kValueInt64, kValueFloat64}
  BY DEF Sendable
<1>2. p.tag \notin Counted /\ p.tag # kValueList /\ p.tag # kValueMap
  BY <1>1 DEF Counted, Strings, Arrays, Collections, kValueTrue, kValueFalse, kValueInt32,
     kValueInt64, kValueFloat64, kValueString, kStdLargeInt, kStdUInt8Array, kStdInt32Array,
     kStdInt64Array, kStdFloat64Array, kValueList, kValueMap
<1>3. Readable(p)
  BY <1>1, <1>2 DEF Readable, Plain
<1>4. Members(p) = 0
  BY <1>2 DEF Members
<1> QED BY <1>1, <1>3, <1>4

\* No method has more than 31 arguments.
LEMMA ArgsFew ==
  ASSUME NEW m \in DOMAIN DartArgs
  PROVE  \E n \in Nat : n <= 31 /\ DOMAIN DartArgs[m] = 1..n
<1>1. DOMAIN Handle = 1..1
  BY DEF Handle
<1>2. DOMAIN PointerArgs = 1..31
  BY DEF PointerArgs
<1>3. \A a, b, c, d :
         /\ DOMAIN <<a>> = 1..1 /\ DOMAIN <<a, b>> = 1..2
         /\ DOMAIN <<a, b, c>> = 1..3 /\ DOMAIN <<a, b, c, d>> = 1..4
  OBVIOUS
<1>4. DOMAIN DartArgs[m] \in {1..1, 1..2, 1..3, 1..4, 1..31}
  BY <1>1, <1>2, <1>3 DEF DartArgs
<1>5. \A k \in {1, 2, 3, 4, 31} : k \in Nat /\ k <= 31
  OBVIOUS
<1>6. PICK k \in {1, 2, 3, 4, 31} : DOMAIN DartArgs[m] = 1..k
  BY <1>4, Zenon
<1> QED BY <1>5, <1>6

\* Parts behind each other, one by one.
LEMMA PartsBehind ==
  ASSUME NEW p \in Parts, NEW v \in Seq(Parts), NEW head \in Seq(Parts), head = <<p>>
  PROVE  /\ head \o v \in Seq(Parts) /\ Len(head \o v) = Len(v) + 1 /\ Len(v) \in Nat
         /\ (head \o v)[1] = p
         /\ \A i \in 1..Len(v) : (head \o v)[i + 1] = v[i]
<1>1. Len(head) = 1 /\ head[1] = p
  OBVIOUS
<1>2. Len(v) \in Nat
  BY LenProperties
<1>3. /\ head \o v \in Seq(Parts) /\ Len(head \o v) = Len(head) + Len(v)
      /\ \A i \in 1..Len(head) + Len(v) :
           (head \o v)[i] = IF i <= Len(head) THEN head[i] ELSE v[i - Len(head)]
  <2> HIDE DEF Parts
  <2> QED BY ConcatProperties
<1> HIDE DEF Parts
<1>4. PICK k : k = head \o v
  BY Zenon
<1>5. PICK l \in Nat : l = Len(v)
  BY <1>2
<1>6. \A i \in 1..1 + l : k[i] = IF i <= 1 THEN head[i] ELSE v[i - 1]
  BY <1>1, <1>3, <1>4, <1>5
<1>7. k[1] = p
  <2>1. PICK i \in 1..1 + l : i = 1
    BY <1>5
  <2> QED BY <1>1, <1>6, <2>1
<1>8. \A i \in 1..l : k[i + 1] = v[i]
  <2> TAKE i \in 1..l
  <2>1. PICK j \in 1..1 + l : j = i + 1
    BY <1>5
  <2>2. ~(j <= 1) /\ j - 1 = i
    BY <2>1
  <2> QED BY <1>6, <2>1, <2>2
<1> QED BY <1>1, <1>2, <1>3, <1>4, <1>5, <1>7, <1>8

\* The arguments of a call are a list of them.
LEMMA ListLegible ==
  ASSUME NEW m \in DOMAIN DartArgs, NEW values \in ArgValues, NEW args,
         args = Given(m, values)
  PROVE  /\ Legible(List(args))
         /\ Len(args) \in Nat /\ DOMAIN DartArgs[m] = 1..Len(args)
         /\ Len(List(args)) = Len(args) + 1
         /\ List(args)[1] = Part(kValueList, << >>, Len(args))
         /\ \A i \in 1..Len(args) :
              List(args)[i + 1] = args[i] /\ args[i] \in Sendable(DartArgs[m][i])
<1>1. /\ args \in Seq(Parts) /\ Len(args) \in Nat
      /\ DOMAIN DartArgs[m] = 1..Len(args)
      /\ List(args) = <<Part(kValueList, << >>, Len(args))>> \o args
      /\ Part(kValueList, << >>, Len(args)) \in Parts
      /\ <<Part(kValueList, << >>, Len(args))>> \in Seq(Parts)
  <2>1. /\ Given(m, values) \in Seq(Parts) /\ Len(Given(m, values)) \in Nat
        /\ DOMAIN DartArgs[m] = 1..Len(Given(m, values))
        /\ List(Given(m, values)) = <<Part(kValueList, << >>, Len(Given(m, values)))>> \o Given(m, values)
        /\ Part(kValueList, << >>, Len(Given(m, values))) \in Parts
        /\ <<Part(kValueList, << >>, Len(Given(m, values)))>> \in Seq(Parts)
    BY ListTyped
  <2> QED BY <2>1
<1>2. \A i \in 1..Len(args) : args[i] \in Sendable(DartArgs[m][i])
  BY <1>1, ChannelAssumption DEF Given
<1>3. PICK n \in Nat : n = Len(args) /\ n <= 31
  <2>1. PICK n \in Nat : n <= 31 /\ DOMAIN DartArgs[m] = 1..n
    BY ArgsFew
  <2>2. PICK k \in Nat : k = Len(args)
    BY <1>1
  <2>3. 1..n = 1..k
    BY <1>1, <2>1, <2>2
  <2>4. n = k
    BY <2>3
  <2> QED BY <2>1, <2>2, <2>4
<1>4. PICK p \in Parts : p = Part(kValueList, << >>, n)
  BY <1>1, <1>3
<1>5. p.tag = kValueList /\ p.count = n
  BY <1>4 DEF Part
<1> HIDE DEF Parts
<1>6. PICK head : head = <<p>> /\ head \in Seq(Parts) /\ List(args) = head \o args
  <2>1. <<p>> \in Seq(Parts) /\ List(args) = <<p>> \o args
    BY <1>1, <1>3, <1>4, Zenon
  <2> QED BY <2>1, Zenon
<1>7. /\ head \o args \in Seq(Parts) /\ Len(head \o args) = Len(args) + 1
      /\ (head \o args)[1] = p
      /\ \A i \in 1..Len(args) : (head \o args)[i + 1] = args[i]
  BY <1>1, <1>6, PartsBehind
<1>8. PICK l : l = List(args)
  OBVIOUS
<1>9. l \in Seq(Parts) /\ Len(l) = n + 1 /\ l[1] = p /\ \A i \in 1..n : l[i + 1] = args[i]
  BY <1>3, <1>6, <1>7, <1>8
<1>10. Readable(p) /\ Members(p) = n
  <2>1. kValueList \in Collections
    BY DEF Collections
  <2>2. Sized(n)
    <3>1. n \div 65536 = 0
      BY <1>3, SMT
    <3> QED BY <3>1 DEF Sized
  <2>3. Count(p) = n
    BY <1>5, <2>1 DEF Count
  <2>4. Readable(p)
    BY <1>4, <1>5, <2>1, <2>2, <2>3 DEF Readable
  <2> QED BY <1>5, <2>4 DEF Members, kValueList, kValueMap
<1>11. \A i \in 1..n : Readable(args[i]) /\ Members(args[i]) = 0
  BY <1>2, <1>3, SendableReadable
<1>12. \A i \in 1..n + 1 : i = 1 \/ \E j \in 1..n : i = j + 1 /\ i # 1
  <2> TAKE i \in 1..n + 1
  <2>1. i # 1 => i - 1 \in 1..n /\ i = (i - 1) + 1
    OBVIOUS
  <2> QED BY <2>1
<1>13. \A i \in 1..n + 1 : Readable(l[i]) /\ Members(l[i]) = IF i = 1 THEN n ELSE 0
  <2> TAKE i \in 1..n + 1
  <2>1. CASE i = 1
    BY <1>9, <1>10, <2>1
  <2>2. CASE i # 1
    <3>1. PICK j \in 1..n : i = j + 1
      BY <1>12, <2>2
    <3> QED BY <1>9, <1>11, <2>2, <3>1, Zenon
  <2> QED BY <2>1, <2>2
<1>14. Legible(l)
  <2>1. PICK k \in Nat : k = Len(l) /\ k = n + 1 /\ k - 1 = n /\ k >= 1
    BY <1>9
  <2>2. \A i \in 1..k : Members(l[i]) = IF i = 1 THEN k - 1 ELSE 0
    BY <1>13, <2>1
  <2>3. Flat(l)
    BY <1>9, <2>1, <2>2 DEF Flat
  <2> QED BY <1>13, <2>1, <2>3 DEF Legible
<1> QED BY <1>1, <1>2, <1>3, <1>4, <1>8, <1>9, <1>14

\* One part alone.
LEMMA OneOnly ==
  ASSUME NEW p \in Parts
  PROVE  \E one \in Seq(Parts) : one = <<p>> /\ Len(one) = 1 /\ one[1] = p
<1> HIDE DEF Parts
<1>1. <<p>> \in Seq(Parts) /\ Len(<<p>>) = 1 /\ <<p>>[1] = p
  OBVIOUS
<1> QED BY <1>1, Zenon

\* One part behind others.
LEMMA OneMore ==
  ASSUME NEW v \in Seq(Parts), NEW p, NEW one \in Seq(Parts), Len(one) = 1, one[1] = p,
         NEW n \in Nat, n = Len(v)
  PROVE  /\ v \o one \in Seq(Parts) /\ Len(v \o one) = n + 1
         /\ (v \o one)[n + 1] = p
         /\ \A i \in 1..n : (v \o one)[i] = v[i]
<1> HIDE DEF Parts
<1>2. PICK w : w = v \o one
  BY Zenon
<1>3. /\ w \in Seq(Parts) /\ Len(w) = Len(v) + Len(one)
      /\ \A i \in 1..Len(v) + Len(one) : w[i] = IF i <= Len(v) THEN v[i] ELSE one[i - Len(v)]
  BY <1>2, ConcatProperties, Zenon
<1>4. \A i \in 1..n + 1 : w[i] = IF i <= n THEN v[i] ELSE one[i - n]
  BY <1>3
<1>5. w[n + 1] = p
  <2>1. PICK i \in 1..n + 1 : i = n + 1
    OBVIOUS
  <2>2. ~(i <= n) /\ i - n = 1
    BY <2>1
  <2> QED BY <1>4, <2>1, <2>2
<1>6. \A i \in 1..n : w[i] = v[i]
  BY <1>4
<1> QED BY <1>2, <1>3, <1>5, <1>6

\* So the parts are a row that is one longer.
LEMMA OneFurther ==
  ASSUME NEW v \in Seq(Parts), NEW n \in Nat, n = Len(v), NEW p \in Parts
  PROVE  \E w \in Seq(Parts) : /\ w = v \o <<p>> /\ Len(w) = n + 1 /\ w[n + 1] = p
                              /\ \A i \in 1..n : w[i] = v[i]
<1>1. PICK one \in Seq(Parts) : one = <<p>> /\ Len(one) = 1 /\ one[1] = p
  BY OneOnly
<1>2. Len(one) = 1 /\ one[1] = p
  BY <1>1
<1>3. /\ v \o one \in Seq(Parts) /\ Len(v \o one) = n + 1
      /\ (v \o one)[n + 1] = p
      /\ \A i \in 1..n : (v \o one)[i] = v[i]
  BY <1>2, OneMore
<1>4. v \o one = v \o <<p>>
  BY <1>1
<1> QED BY <1>3, <1>4, Zenon

\* Two parts.
LEMMA TwoParts ==
  ASSUME NEW a \in Parts, NEW b \in Parts
  PROVE  \E v \in Seq(Parts) :
           /\ v = <<a>> \o <<b>> /\ Len(v) = 2
           /\ v[1] = a /\ v[2] = b
<1>1. PICK v \in Seq(Parts) : v = <<a>> /\ Len(v) = 1 /\ v[1] = a
  BY OneOnly
<1>2. PICK n \in Nat : n = Len(v) /\ n = 1
  BY <1>1
<1>3. n = Len(v)
  BY <1>2
<1>4. PICK w \in Seq(Parts) : /\ w = v \o <<b>> /\ Len(w) = n + 1 /\ w[n + 1] = b
                            /\ \A i \in 1..n : w[i] = v[i]
  BY <1>3, OneFurther, Zenon
<1>5. n + 1 = 2 /\ \A i \in 1..1 : i \in 1..n
  BY <1>2
<1>6. Len(w) = 2 /\ w[1] = a /\ w[2] = b
  BY <1>1, <1>4, <1>5
<1>7. w = <<a>> \o <<b>>
  BY <1>1, <1>4
<1> QED BY <1>6, <1>7, Zenon

\* Five parts, one behind the other.
Row(v, a, b, c, d, e) ==
  /\ v \in Seq(Parts) /\ Len(v) = 5
  /\ v[1] = a /\ v[2] = b /\ v[3] = c /\ v[4] = d /\ v[5] = e

\* Five parts joined are a row of five.
LEMMA FiveParts ==
  ASSUME NEW a \in Parts, NEW b \in Parts, NEW c \in Parts, NEW d \in Parts, NEW e \in Parts
  PROVE  Row((((<<a>> \o <<b>>) \o <<c>>) \o <<d>>) \o <<e>>, a, b, c, d, e)
<1>1. PICK v \in Seq(Parts) : v = <<a>> \o <<b>> /\ Len(v) = 2 /\ v[1] = a /\ v[2] = b
  BY TwoParts
<1>2. PICK w \in Seq(Parts) : /\ w = v \o <<c>> /\ Len(w) = 3 /\ w[3] = c
                            /\ \A i \in 1..2 : w[i] = v[i]
  <2>1. PICK n \in Nat : n = Len(v) /\ n = 2
    BY <1>1
  <2>2. n = Len(v)
    BY <2>1
  <2>3. PICK z \in Seq(Parts) : /\ z = v \o <<c>> /\ Len(z) = n + 1 /\ z[n + 1] = c
                              /\ \A i \in 1..n : z[i] = v[i]
    BY <2>2, OneFurther, Zenon
  <2>4. n + 1 = 3
    BY <2>1
  <2> QED BY <2>1, <2>3, <2>4, Zenon
<1>3. PICK x \in Seq(Parts) : /\ x = w \o <<d>> /\ Len(x) = 4 /\ x[4] = d
                            /\ \A i \in 1..3 : x[i] = w[i]
  <2>1. PICK n \in Nat : n = Len(w) /\ n = 3
    BY <1>2
  <2>2. n = Len(w)
    BY <2>1
  <2>3. PICK z \in Seq(Parts) : /\ z = w \o <<d>> /\ Len(z) = n + 1 /\ z[n + 1] = d
                              /\ \A i \in 1..n : z[i] = w[i]
    BY <2>2, OneFurther, Zenon
  <2>4. n + 1 = 4
    BY <2>1
  <2> QED BY <2>1, <2>3, <2>4, Zenon
<1>4. PICK y \in Seq(Parts) : /\ y = x \o <<e>> /\ Len(y) = 5 /\ y[5] = e
                            /\ \A i \in 1..4 : y[i] = x[i]
  <2>1. PICK n \in Nat : n = Len(x) /\ n = 4
    BY <1>3
  <2>2. n = Len(x)
    BY <2>1
  <2>3. PICK z \in Seq(Parts) : /\ z = x \o <<e>> /\ Len(z) = n + 1 /\ z[n + 1] = e
                              /\ \A i \in 1..n : z[i] = x[i]
    BY <2>2, OneFurther, Zenon
  <2>4. n + 1 = 5
    BY <2>1
  <2> QED BY <2>1, <2>3, <2>4, Zenon
<1>5. y[1] = a /\ y[2] = b /\ y[3] = c /\ y[4] = d /\ y[5] = e
  BY <1>1, <1>2, <1>3, <1>4
<1>6. y = (((<<a>> \o <<b>>) \o <<c>>) \o <<d>>) \o <<e>>
  BY <1>1, <1>2, <1>3, <1>4
<1>7. Row(y, a, b, c, d, e)
  BY <1>4, <1>5 DEF Row
<1> QED BY <1>6, <1>7, Zenon

\* The parts of what Flutter sends for its cursor.
LEMMA CursorLegible ==
  ASSUME NEW kind \in Kinds
  PROVE  /\ Legible(CursorArgs(kind)) /\ Len(CursorArgs(kind)) = 5
         /\ CursorArgs(kind)[1] = Part(kValueMap, << >>, 2)
         /\ CursorArgs(kind)[2] = Part(kValueString, Spell["device"], 0)
         /\ CursorArgs(kind)[4] = Part(kValueString, Spell["kind"], 0)
         /\ CursorArgs(kind)[5] = Part(kValueString, kind, 0)
<1>1. PICK a \in Parts : a = Part(kValueMap, << >>, 2) /\ a.tag = kValueMap /\ a.count = 2
  <2>1. Part(kValueMap, << >>, 2) \in Parts
    BY CollectionTyped DEF Collections
  <2> QED BY <2>1 DEF Part
<1>2. \A s \in {"device", "kind"} : Spell[s] \in Seq(Byte) /\ Sized(Len(Spell[s]))
  <2> TAKE s \in {"device", "kind"}
  <2>1. Spell[s] \in Seq(Byte) /\ Len(Spell[s]) \in 1..253
    BY ChannelAssumption DEF Spelled
  <2>2. PICK n \in 1..253 : n = Len(Spell[s])
    BY <2>1
  <2>3. n \div 65536 = 0
    BY SMT
  <2>4. Sized(n)
    BY <2>3 DEF Sized
  <2> QED BY <2>1, <2>2, <2>4
<1>3. kind \in Seq(Byte) /\ Sized(Len(kind))
  BY ChannelAssumption
<1>4. PICK b \in Parts : b = Part(kValueString, Spell["device"], 0) /\ Readable(b) /\ Members(b) = 0
  BY <1>2, TextTyped, TextLegible
<1>5. PICK d \in Parts : d = Part(kValueString, Spell["kind"], 0) /\ Readable(d) /\ Members(d) = 0
  BY <1>2, TextTyped, TextLegible
<1>6. PICK e \in Parts : e = Part(kValueString, kind, 0) /\ Readable(e) /\ Members(e) = 0
  BY <1>3, TextTyped, TextLegible
<1>7. PICK c \in Parts : c = Part(kValueInt32, <<1, 0, 0, 0>>, 0) /\ Readable(c) /\ Members(c) = 0
  <2>1. PICK c : c = Part(kValueInt32, <<1, 0, 0, 0>>, 0)
    OBVIOUS
  <2>2. c.tag = kValueInt32 /\ c.data = <<1, 0, 0, 0>> /\ c.count = 0
    BY <2>1 DEF Part
  <2>3. <<1, 0, 0, 0>> \in Seq(Byte) /\ Len(<<1, 0, 0, 0>>) = 4
    BY DEF Byte
  <2>4. /\ kValueInt32 \in 0..13 /\ kValueInt32 \notin Plain /\ kValueInt32 \notin Arrays
        /\ kValueInt32 \notin Collections /\ kValueInt32 \notin Counted
        /\ kValueInt32 # kValueList /\ kValueInt32 # kValueMap
    BY DEF Plain, Arrays, Collections, Counted, Strings, kValueNull, kValueTrue, kValueFalse,
       kValueInt32, kValueString, kStdLargeInt, kStdUInt8Array, kStdInt32Array, kStdInt64Array,
       kStdFloat64Array, kValueList, kValueMap
  <2>5. c \in [tag : 0..13, data : Seq(Byte), count : Nat]
    BY <2>1, <2>3, <2>4 DEF Part
  <2>6. c \in Parts
    BY <2>2, <2>3, <2>4, <2>5, IntTags, Zenon DEF Parts
  <2>7. Readable(c) /\ Members(c) = 0
    BY <2>2, <2>4, <2>6 DEF Readable, Members
  <2> QED BY <2>1, <2>6, <2>7
<1>8. CursorArgs(kind) = (((<<a>> \o <<b>>) \o <<c>>) \o <<d>>) \o <<e>>
  BY <1>1, <1>4, <1>5, <1>6, <1>7 DEF CursorArgs, Text
<1>9. PICK v : Row(v, a, b, c, d, e) /\ v = CursorArgs(kind)
  <2>1. Row((((<<a>> \o <<b>>) \o <<c>>) \o <<d>>) \o <<e>>, a, b, c, d, e)
    BY FiveParts
  <2> QED BY <1>8, <2>1, Zenon
<1>10. /\ v \in Seq(Parts) /\ Len(v) = 5
       /\ v[1] = a /\ v[2] = b /\ v[3] = c /\ v[4] = d /\ v[5] = e
  BY <1>9 DEF Row
<1>11. Readable(a) /\ Members(a) = 4
  <2>1. kValueMap \in Collections /\ Sized(2) /\ kValueMap # kValueList
    <3>1. 2 \div 65536 = 0
      BY SMT
    <3> QED BY <3>1 DEF Collections, Sized, kValueMap, kValueList
  <2>2. Count(a) = 2
    BY <1>1, <2>1 DEF Count
  <2>3. Readable(a)
    BY <1>1, <2>1, <2>2 DEF Readable
  <2> QED BY <1>1, <2>1, <2>3 DEF Members
<1>12. \A i \in 1..5 : i \in {1, 2, 3, 4, 5}
  OBVIOUS
<1>13. \A i \in 1..5 : Readable(v[i]) /\ Members(v[i]) = IF i = 1 THEN 4 ELSE 0
  BY <1>4, <1>5, <1>6, <1>7, <1>10, <1>11, <1>12
<1>14. Legible(v)
  BY <1>10, <1>13 DEF Legible, Flat
<1> QED BY <1>1, <1>4, <1>5, <1>6, <1>9, <1>10, <1>14

-----------------------------------------------------------------------------
(* What Dart sends and what the handlers look for.                         *)

\* A handler looks for an argument where Dart puts it, for the type Dart gives
\* it, and uses of an integer that may be negative four bytes at most.
Fits(f, names) ==
  /\ f.index \in Nat /\ f.index + 1 \in DOMAIN names /\ names[f.index + 1] = f.name
  /\ \/ f.type = "dvFloat64" /\ f.bytes = 8 /\ f.name \in DoubleArgs
     \/ f.type = "dvBool" /\ f.bytes = 1 /\ f.name \in BoolArgs
     \/ /\ f.type = "dvInteger" /\ f.name \notin DoubleArgs \cup BoolArgs
        /\ \/ f.bytes \in {1, 4}
           \/ f.bytes = 8 /\ f.name \notin SignedArgs

FitsAll(d, names) ==
  /\ DOMAIN names = 1..d.length /\ d.length \in Nat
  /\ d.fields # {} /\ \A f \in d.fields : Fits(f, names)

\* The decoders of messages.c, but for those of pointer events.
LEMMA DecodersFit ==
  ASSUME NEW m \in (DOMAIN DartArgs) \cap (DOMAIN Decoders),
         m \notin {"surface_pointer_event", "popup_pointer_event"}
  PROVE  FitsAll(Decoders[m], DartArgs[m])
<1>1. CASE m = "surface_toplevel_set_size"
  <2>1. DartArgs[m] = <<"handle", "width", "height">>
    BY <1>1 DEF DartArgs, Handle
  <2>2. Decoders[m].length = 3
        /\ Decoders[m].fields = {Word("handle", 0), Word("width", 1), Word("height", 2)}
    BY <1>1 DEF Decoders
  <2>3. DOMAIN DartArgs[m] = 1..3
    BY <2>1
  <2>4. Fits(Word("handle", 0), DartArgs[m])
    BY <2>1, <2>3 DEF Fits, Word, Long, Float, Field, DoubleArgs, BoolArgs, SignedArgs
  <2>5. Fits(Word("width", 1), DartArgs[m])
    BY <2>1, <2>3 DEF Fits, Word, Long, Float, Field, DoubleArgs, BoolArgs, SignedArgs
  <2>6. Fits(Word("height", 2), DartArgs[m])
    BY <2>1, <2>3 DEF Fits, Word, Long, Float, Field, DoubleArgs, BoolArgs, SignedArgs
  <2> QED BY <2>2, <2>3, <2>4, <2>5, <2>6 DEF FitsAll
<1>2. CASE m = "surface_toplevel_set_maximized"
  <2>1. DartArgs[m] = <<"handle", "maximized">>
    BY <1>2 DEF DartArgs, Handle
  <2>2. Decoders[m].length = 2
        /\ Decoders[m].fields = {Word("handle", 0), Long("maximized", 1)}
    BY <1>2 DEF Decoders
  <2>3. DOMAIN DartArgs[m] = 1..2
    BY <2>1
  <2>4. Fits(Word("handle", 0), DartArgs[m])
    BY <2>1, <2>3 DEF Fits, Word, Long, Float, Field, DoubleArgs, BoolArgs, SignedArgs
  <2>5. Fits(Long("maximized", 1), DartArgs[m])
    BY <2>1, <2>3 DEF Fits, Word, Long, Float, Field, DoubleArgs, BoolArgs, SignedArgs
  <2> QED BY <2>2, <2>3, <2>4, <2>5 DEF FitsAll
<1>3. CASE m = "surface_toplevel_close"
  <2>1. DartArgs[m] = <<"handle">>
    BY <1>3 DEF DartArgs, Handle
  <2>2. Decoders[m].length = 1
        /\ Decoders[m].fields = {Word("handle", 0)}
    BY <1>3 DEF Decoders
  <2>3. DOMAIN DartArgs[m] = 1..1
    BY <2>1
  <2>4. Fits(Word("handle", 0), DartArgs[m])
    BY <2>1, <2>3 DEF Fits, Word, Long, Float, Field, DoubleArgs, BoolArgs, SignedArgs
  <2> QED BY <2>2, <2>3, <2>4 DEF FitsAll
<1>4. CASE m = "surface_focus"
  <2>1. DartArgs[m] = <<"handle">>
    BY <1>4 DEF DartArgs, Handle
  <2>2. Decoders[m].length = 1
        /\ Decoders[m].fields = {Word("handle", 0)}
    BY <1>4 DEF Decoders
  <2>3. DOMAIN DartArgs[m] = 1..1
    BY <2>1
  <2>4. Fits(Word("handle", 0), DartArgs[m])
    BY <2>1, <2>3 DEF Fits, Word, Long, Float, Field, DoubleArgs, BoolArgs, SignedArgs
  <2> QED BY <2>2, <2>3, <2>4 DEF FitsAll
<1>5. CASE m = "surface_set_position"
  <2>1. DartArgs[m] = <<"handle", "x", "y">>
    BY <1>5 DEF DartArgs, Handle
  <2>2. Decoders[m].length = 3
        /\ Decoders[m].fields = {Word("handle", 0), Word("x", 1), Word("y", 2)}
    BY <1>5 DEF Decoders
  <2>3. DOMAIN DartArgs[m] = 1..3
    BY <2>1
  <2>4. Fits(Word("handle", 0), DartArgs[m])
    BY <2>1, <2>3 DEF Fits, Word, Long, Float, Field, DoubleArgs, BoolArgs, SignedArgs
  <2>5. Fits(Word("x", 1), DartArgs[m])
    BY <2>1, <2>3 DEF Fits, Word, Long, Float, Field, DoubleArgs, BoolArgs, SignedArgs
  <2>6. Fits(Word("y", 2), DartArgs[m])
    BY <2>1, <2>3 DEF Fits, Word, Long, Float, Field, DoubleArgs, BoolArgs, SignedArgs
  <2> QED BY <2>2, <2>3, <2>4, <2>5, <2>6 DEF FitsAll
<1>6. CASE m = "surface_keyboard_key"
  <2>1. DartArgs[m] = <<"handle", "keycode", "status", "timestamp">>
    BY <1>6 DEF DartArgs, Handle
  <2>2. Decoders[m].length = 4
        /\ Decoders[m].fields = {Word("handle", 0), Word("keycode", 1),
                                 Field("status", 2, "dvInteger", 1), Long("timestamp", 3)}
    BY <1>6 DEF Decoders
  <2>3. DOMAIN DartArgs[m] = 1..4
    BY <2>1
  <2>4. Fits(Word("handle", 0), DartArgs[m])
    BY <2>1, <2>3 DEF Fits, Word, Long, Float, Field, DoubleArgs, BoolArgs, SignedArgs
  <2>5. Fits(Word("keycode", 1), DartArgs[m])
    BY <2>1, <2>3 DEF Fits, Word, Long, Float, Field, DoubleArgs, BoolArgs, SignedArgs
  <2>6. Fits(Field("status", 2, "dvInteger", 1), DartArgs[m])
    BY <2>1, <2>3 DEF Fits, Word, Long, Float, Field, DoubleArgs, BoolArgs, SignedArgs
  <2>7. Fits(Long("timestamp", 3), DartArgs[m])
    BY <2>1, <2>3 DEF Fits, Word, Long, Float, Field, DoubleArgs, BoolArgs, SignedArgs
  <2> QED BY <2>2, <2>3, <2>4, <2>5, <2>6, <2>7 DEF FitsAll
<1>7. m \in {"surface_toplevel_set_size", "surface_toplevel_set_maximized",
             "surface_toplevel_close", "surface_focus", "surface_set_position",
             "surface_keyboard_key"}
  BY DEF DartArgs, Decoders
<1> QED BY <1>1, <1>2, <1>3, <1>4, <1>5, <1>6, <1>7

\* The arguments that are read in the handlers.
LEMMA InlineFit ==
  ASSUME NEW m \in DOMAIN Inline
  PROVE  FitsAll(Inline[m], DartArgs[m])
<1>1. CASE m = "surface_request_resize"
  <2>1. DartArgs[m] = <<"handle", "width", "height", "requestId">>
    BY <1>1 DEF DartArgs, Handle
  <2>2. Inline[m].length = 4
        /\ Inline[m].fields = {Word("handle", 0), Word("width", 1), Word("height", 2),
                               Long("requestId", 3)}
    BY <1>1 DEF Inline
  <2>3. DOMAIN DartArgs[m] = 1..4
    BY <2>1
  <2>4. Fits(Word("handle", 0), DartArgs[m])
    BY <2>1, <2>3 DEF Fits, Word, Long, Float, Field, DoubleArgs, BoolArgs, SignedArgs
  <2>5. Fits(Word("width", 1), DartArgs[m])
    BY <2>1, <2>3 DEF Fits, Word, Long, Float, Field, DoubleArgs, BoolArgs, SignedArgs
  <2>6. Fits(Word("height", 2), DartArgs[m])
    BY <2>1, <2>3 DEF Fits, Word, Long, Float, Field, DoubleArgs, BoolArgs, SignedArgs
  <2>7. Fits(Long("requestId", 3), DartArgs[m])
    BY <2>1, <2>3 DEF Fits, Word, Long, Float, Field, DoubleArgs, BoolArgs, SignedArgs
  <2> QED BY <2>2, <2>3, <2>4, <2>5, <2>6, <2>7 DEF FitsAll
<1>2. CASE m = "surface_end_resize"
  <2>1. DartArgs[m] = <<"handle">>
    BY <1>2 DEF DartArgs, Handle
  <2>2. Inline[m].length = 1
        /\ Inline[m].fields = {Word("handle", 0)}
    BY <1>2 DEF Inline
  <2>3. DOMAIN DartArgs[m] = 1..1
    BY <2>1
  <2>4. Fits(Word("handle", 0), DartArgs[m])
    BY <2>1, <2>3 DEF Fits, Word, Long, Float, Field, DoubleArgs, BoolArgs, SignedArgs
  <2> QED BY <2>2, <2>3, <2>4 DEF FitsAll
<1>3. CASE m = "set_direct_input_mode"
  <2>1. DartArgs[m] = <<"enabled", "handle">>
    BY <1>3 DEF DartArgs, Handle
  <2>2. Inline[m].length = 2
        /\ Inline[m].fields = {Field("enabled", 0, "dvBool", 1), Word("handle", 1)}
    BY <1>3 DEF Inline
  <2>3. DOMAIN DartArgs[m] = 1..2
    BY <2>1
  <2>4. Fits(Field("enabled", 0, "dvBool", 1), DartArgs[m])
    BY <2>1, <2>3 DEF Fits, Word, Long, Float, Field, DoubleArgs, BoolArgs, SignedArgs
  <2>5. Fits(Word("handle", 1), DartArgs[m])
    BY <2>1, <2>3 DEF Fits, Word, Long, Float, Field, DoubleArgs, BoolArgs, SignedArgs
  <2> QED BY <2>2, <2>3, <2>4, <2>5 DEF FitsAll
<1>4. CASE m = "set_vsync_output"
  <2>1. DartArgs[m] = <<"outputId">>
    BY <1>4 DEF DartArgs, Handle
  <2>2. Inline[m].length = 1
        /\ Inline[m].fields = {Word("outputId", 0)}
    BY <1>4 DEF Inline
  <2>3. DOMAIN DartArgs[m] = 1..1
    BY <2>1
  <2>4. Fits(Word("outputId", 0), DartArgs[m])
    BY <2>1, <2>3 DEF Fits, Word, Long, Float, Field, DoubleArgs, BoolArgs, SignedArgs
  <2> QED BY <2>2, <2>3, <2>4 DEF FitsAll
<1>5. CASE m = "set_vsync_rate_limit"
  <2>1. DartArgs[m] = <<"maxHz">>
    BY <1>5 DEF DartArgs, Handle
  <2>2. Inline[m].length = 1
        /\ Inline[m].fields = {Word("maxHz", 0)}
    BY <1>5 DEF Inline
  <2>3. DOMAIN DartArgs[m] = 1..1
    BY <2>1
  <2>4. Fits(Word("maxHz", 0), DartArgs[m])
    BY <2>1, <2>3 DEF Fits, Word, Long, Float, Field, DoubleArgs, BoolArgs, SignedArgs
  <2> QED BY <2>2, <2>3, <2>4 DEF FitsAll
<1>6. CASE m = "set_output_mode"
  <2>1. DartArgs[m] = <<"outputId", "width", "height", "refresh">>
    BY <1>6 DEF DartArgs, Handle
  <2>2. Inline[m].length = 4
        /\ Inline[m].fields = {Word("outputId", 0), Word("width", 1), Word("height", 2),
                               Word("refresh", 3)}
    BY <1>6 DEF Inline
  <2>3. DOMAIN DartArgs[m] = 1..4
    BY <2>1
  <2>4. Fits(Word("outputId", 0), DartArgs[m])
    BY <2>1, <2>3 DEF Fits, Word, Long, Float, Field, DoubleArgs, BoolArgs, SignedArgs
  <2>5. Fits(Word("width", 1), DartArgs[m])
    BY <2>1, <2>3 DEF Fits, Word, Long, Float, Field, DoubleArgs, BoolArgs, SignedArgs
  <2>6. Fits(Word("height", 2), DartArgs[m])
    BY <2>1, <2>3 DEF Fits, Word, Long, Float, Field, DoubleArgs, BoolArgs, SignedArgs
  <2>7. Fits(Word("refresh", 3), DartArgs[m])
    BY <2>1, <2>3 DEF Fits, Word, Long, Float, Field, DoubleArgs, BoolArgs, SignedArgs
  <2> QED BY <2>2, <2>3, <2>4, <2>5, <2>6, <2>7 DEF FitsAll
<1>7. CASE m = "set_output_position"
  <2>1. DartArgs[m] = <<"outputId", "x", "y">>
    BY <1>7 DEF DartArgs, Handle
  <2>2. Inline[m].length = 3
        /\ Inline[m].fields = {Word("outputId", 0), Word("x", 1), Word("y", 2)}
    BY <1>7 DEF Inline
  <2>3. DOMAIN DartArgs[m] = 1..3
    BY <2>1
  <2>4. Fits(Word("outputId", 0), DartArgs[m])
    BY <2>1, <2>3 DEF Fits, Word, Long, Float, Field, DoubleArgs, BoolArgs, SignedArgs
  <2>5. Fits(Word("x", 1), DartArgs[m])
    BY <2>1, <2>3 DEF Fits, Word, Long, Float, Field, DoubleArgs, BoolArgs, SignedArgs
  <2>6. Fits(Word("y", 2), DartArgs[m])
    BY <2>1, <2>3 DEF Fits, Word, Long, Float, Field, DoubleArgs, BoolArgs, SignedArgs
  <2> QED BY <2>2, <2>3, <2>4, <2>5, <2>6 DEF FitsAll
<1>8. CASE m = "set_output_scale"
  <2>1. DartArgs[m] = <<"outputId", "scale">>
    BY <1>8 DEF DartArgs, Handle
  <2>2. Inline[m].length = 2
        /\ Inline[m].fields = {Word("outputId", 0), Float("scale", 1)}
    BY <1>8 DEF Inline
  <2>3. DOMAIN DartArgs[m] = 1..2
    BY <2>1
  <2>4. Fits(Word("outputId", 0), DartArgs[m])
    BY <2>1, <2>3 DEF Fits, Word, Long, Float, Field, DoubleArgs, BoolArgs, SignedArgs
  <2>5. Fits(Float("scale", 1), DartArgs[m])
    BY <2>1, <2>3 DEF Fits, Word, Long, Float, Field, DoubleArgs, BoolArgs, SignedArgs
  <2> QED BY <2>2, <2>3, <2>4, <2>5 DEF FitsAll
<1>9. m \in {"surface_request_resize", "surface_end_resize", "set_direct_input_mode",
             "set_vsync_output", "set_vsync_rate_limit", "set_output_mode",
             "set_output_position", "set_output_scale"}
  BY DEF Inline
<1> QED BY <1>1, <1>2, <1>3, <1>4, <1>5, <1>6, <1>7, <1>8, <1>9

\* The decoder of pointer events.
LEMMA PointerFits ==
  FitsAll([length |-> 31, fields |-> PointerFields], PointerArgs)
<1>1. DOMAIN PointerArgs = 1..31
  BY DEF PointerArgs
<1>2. Fits(Word("handle", 0), PointerArgs)
  <2>1. PointerArgs[1] = "handle"
    BY DEF PointerArgs
  <2> QED BY <1>1, <2>1 DEF Fits, Word, Long, Float, Field, DoubleArgs, BoolArgs, SignedArgs
<1>3. Fits(Long("buttons", 1), PointerArgs)
  <2>1. PointerArgs[2] = "buttons"
    BY DEF PointerArgs
  <2> QED BY <1>1, <2>1 DEF Fits, Word, Long, Float, Field, DoubleArgs, BoolArgs, SignedArgs
<1>4. Fits(Long("embedderId", 7), PointerArgs)
  <2>1. PointerArgs[8] = "embedderId"
    BY DEF PointerArgs
  <2> QED BY <1>1, <2>1 DEF Fits, Word, Long, Float, Field, DoubleArgs, BoolArgs, SignedArgs
<1>5. Fits(Field("kind", 8, "dvInteger", 1), PointerArgs)
  <2>1. PointerArgs[9] = "kind"
    BY DEF PointerArgs
  <2> QED BY <1>1, <2>1 DEF Fits, Word, Long, Float, Field, DoubleArgs, BoolArgs, SignedArgs
<1>6. Fits(Float("localX", 11), PointerArgs)
  <2>1. PointerArgs[12] = "localX"
    BY DEF PointerArgs
  <2> QED BY <1>1, <2>1 DEF Fits, Word, Long, Float, Field, DoubleArgs, BoolArgs, SignedArgs
<1>7. Fits(Float("localY", 12), PointerArgs)
  <2>1. PointerArgs[13] = "localY"
    BY DEF PointerArgs
  <2> QED BY <1>1, <2>1 DEF Fits, Word, Long, Float, Field, DoubleArgs, BoolArgs, SignedArgs
<1>8. Fits(Long("platformData", 15), PointerArgs)
  <2>1. PointerArgs[16] = "platformData"
    BY DEF PointerArgs
  <2> QED BY <1>1, <2>1 DEF Fits, Word, Long, Float, Field, DoubleArgs, BoolArgs, SignedArgs
<1>9. Fits(Long("pointer", 16), PointerArgs)
  <2>1. PointerArgs[17] = "pointer"
    BY DEF PointerArgs
  <2> QED BY <1>1, <2>1 DEF Fits, Word, Long, Float, Field, DoubleArgs, BoolArgs, SignedArgs
<1>10. Fits(Float("positionX", 17), PointerArgs)
  <2>1. PointerArgs[18] = "positionX"
    BY DEF PointerArgs
  <2> QED BY <1>1, <2>1 DEF Fits, Word, Long, Float, Field, DoubleArgs, BoolArgs, SignedArgs
<1>11. Fits(Float("positionY", 18), PointerArgs)
  <2>1. PointerArgs[19] = "positionY"
    BY DEF PointerArgs
  <2> QED BY <1>1, <2>1 DEF Fits, Word, Long, Float, Field, DoubleArgs, BoolArgs, SignedArgs
<1>12. Fits(Long("timestamp", 25), PointerArgs)
  <2>1. PointerArgs[26] = "timestamp"
    BY DEF PointerArgs
  <2> QED BY <1>1, <2>1 DEF Fits, Word, Long, Float, Field, DoubleArgs, BoolArgs, SignedArgs
<1>13. Fits(Field("eventType", 26, "dvInteger", 1), PointerArgs)
  <2>1. PointerArgs[27] = "eventType"
    BY DEF PointerArgs
  <2> QED BY <1>1, <2>1 DEF Fits, Word, Long, Float, Field, DoubleArgs, BoolArgs, SignedArgs
<1>14. Fits(Float("sizeX", 27), PointerArgs)
  <2>1. PointerArgs[28] = "sizeX"
    BY DEF PointerArgs
  <2> QED BY <1>1, <2>1 DEF Fits, Word, Long, Float, Field, DoubleArgs, BoolArgs, SignedArgs
<1>15. Fits(Float("sizeY", 28), PointerArgs)
  <2>1. PointerArgs[29] = "sizeY"
    BY DEF PointerArgs
  <2> QED BY <1>1, <2>1 DEF Fits, Word, Long, Float, Field, DoubleArgs, BoolArgs, SignedArgs
<1>16. Fits(Float("scrollX", 29), PointerArgs)
  <2>1. PointerArgs[30] = "scrollX"
    BY DEF PointerArgs
  <2> QED BY <1>1, <2>1 DEF Fits, Word, Long, Float, Field, DoubleArgs, BoolArgs, SignedArgs
<1>17. Fits(Float("scrollY", 30), PointerArgs)
  <2>1. PointerArgs[31] = "scrollY"
    BY DEF PointerArgs
  <2> QED BY <1>1, <2>1 DEF Fits, Word, Long, Float, Field, DoubleArgs, BoolArgs, SignedArgs
<1>18. PointerFields # {} /\ \A f \in PointerFields : Fits(f, PointerArgs)
  BY <1>2, <1>3, <1>4, <1>5, <1>6, <1>7, <1>8, <1>9, <1>10, <1>11, <1>12, <1>13, <1>14, <1>15,
     <1>16, <1>17 DEF PointerFields
<1> QED BY <1>1, <1>18 DEF FitsAll

\* The methods that have arguments, by who reads them.
LEMMA EachMethodRead ==
  ASSUME NEW m \in DOMAIN DartArgs
  PROVE  \/ m \in (DOMAIN Decoders) \ (DOMAIN Inline) /\ FitsAll(Decoders[m], DartArgs[m])
         \/ m \in (DOMAIN Inline) \ (DOMAIN Decoders) /\ FitsAll(Inline[m], DartArgs[m])
         \/ m \in {"surface_clear_focus", "set_primary_output"}
<1>1. CASE m \in {"surface_pointer_event", "popup_pointer_event"}
  <2>1. /\ m \in DOMAIN Decoders /\ m \notin DOMAIN Inline
        /\ Decoders[m] = [length |-> 31, fields |-> PointerFields] /\ DartArgs[m] = PointerArgs
    BY <1>1 DEF Decoders, Inline, DartArgs
  <2> QED BY <2>1, PointerFits
<1>2. CASE m \in DOMAIN Inline
  <2>1. m \notin DOMAIN Decoders
    BY <1>2 DEF Decoders, Inline
  <2> QED BY <1>2, <2>1, InlineFit
<1>3. CASE m \in DOMAIN Decoders /\ m \notin {"surface_pointer_event", "popup_pointer_event"}
  <2>1. m \notin DOMAIN Inline
    BY <1>3 DEF Decoders, Inline
  <2> QED BY <1>3, <2>1, DecodersFit
<1>4. \/ m \in DOMAIN Inline \/ m \in DOMAIN Decoders
      \/ m \in {"surface_clear_focus", "set_primary_output"}
  BY DEF DartArgs, Decoders, Inline
<1> QED BY <1>1, <1>2, <1>3, <1>4

\* The first bytes of a string of eight.
LEMMA FirstBytes ==
  ASSUME NEW s \in Seq(Byte), NEW n \in Nat, n <= Len(s)
  PROVE  /\ SubSeq(s, 1, n) \in Seq(Byte) /\ Len(SubSeq(s, 1, n)) = n
         /\ \A i \in 1..n : SubSeq(s, 1, n)[i] = s[i]
<1>1. \A k \in 1..n : s[k] \in Byte
  <2>1. \A k \in 1..Len(s) : s[k] \in Byte
    BY ElementOfSeq
  <2> QED BY <2>1, LenProperties
<1>2. PICK one \in Int : one = 1
  OBVIOUS
<1>3. \A k \in one..n : s[k] \in Byte
  BY <1>1, <1>2
<1>4. n \in Int
  OBVIOUS
<1>5. /\ SubSeq(s, one, n) \in Seq(Byte)
      /\ Len(SubSeq(s, one, n)) = IF one <= n THEN n - one + 1 ELSE 0
      /\ \A i \in 1..n - one + 1 : SubSeq(s, one, n)[i] = s[one + i - 1]
  BY <1>3, <1>4, SubSeqProperties
<1>6. Len(SubSeq(s, one, n)) = n
  BY <1>2, <1>5
<1>7. \A i \in 1..n : SubSeq(s, one, n)[i] = s[i]
  <2> TAKE i \in 1..n
  <2>1. i \in 1..n - one + 1 /\ one + i - 1 = i
    BY <1>2
  <2> QED BY <1>5, <2>1
<1> QED BY <1>2, <1>5, <1>6, <1>7

\* Byte strings that agree in their first bytes.
LEMMA SameStart ==
  ASSUME NEW s \in Seq(Byte), NEW t \in Seq(Byte), NEW n \in Nat, n <= Len(s), n <= Len(t),
         \A i \in 1..n : s[i] = t[i]
  PROVE  SubSeq(s, 1, n) = SubSeq(t, 1, n)
<1>1. PICK x \in Seq(Byte) : x = SubSeq(s, 1, n) /\ Len(x) = n /\ \A i \in 1..n : x[i] = s[i]
  BY FirstBytes, Zenon
<1>2. PICK y \in Seq(Byte) : y = SubSeq(t, 1, n) /\ Len(y) = n /\ \A i \in 1..n : y[i] = t[i]
  BY FirstBytes, Zenon
<1>3. \A i \in 1..Len(x) : x[i] = y[i]
  BY <1>1, <1>2
<1>4. x = y
  BY <1>1, <1>2, <1>3, SeqEqual
<1> QED BY <1>1, <1>2, <1>4

\* The four bytes with which an integer of four is continued.
Rest(p) == [i \in 1..4 |-> IF p.data[4] >= 128 THEN 255 ELSE 0]

\* An integer of four bytes: what is read of it and what it means.
LEMMA Int32Meant ==
  ASSUME NEW p \in Parts, p.tag = kValueInt32
  PROVE  /\ Got(p) = DartValue("dvInteger", p.data \o <<0, 0, 0, 0>>, 0, 0)
         /\ Meant(p) = p.data \o Rest(p)
         /\ p.data \in Seq(Byte) /\ Len(p.data) = 4 /\ p.data[4] \in Byte
         /\ Rest(p) \in Seq(Byte) /\ Len(Rest(p)) = 4
         /\ \A i \in 1..4 : Rest(p)[i] = IF p.data[4] >= 128 THEN 255 ELSE 0
<1>1. Got(p) = DartValue("dvInteger", p.data \o <<0, 0, 0, 0>>, 0, 0)
  BY DEF Got, kValueNull, kValueTrue, kValueFalse, kValueInt32, kValueInt64, kValueFloat64,
     kValueString, Collections, kValueList, kValueMap
<1>2. Meant(p) = p.data \o Rest(p)
  BY DEF Meant, Rest, kValueInt32, kValueTrue, kValueFalse
<1>3. p.data \in Seq(Byte) /\ Len(p.data) = 4
  BY IntTags, PartTyped, Zenon DEF Parts
<1>4. p.data[4] \in Byte
  <2>1. PICK k \in 1..Len(p.data) : k = 4
    BY <1>3
  <2>2. \A s \in Seq(Byte) : \A i \in 1..Len(s) : s[i] \in Byte
    BY ElementOfSeq
  <2> QED BY <1>3, <2>1, <2>2
<1>5. Rest(p) \in [1..4 -> Byte]
  BY DEF Rest, Byte
<1>6. Rest(p) \in Seq(Byte) /\ Len(Rest(p)) = 4
  BY <1>5, FourBytes
<1>7. \A i \in 1..4 : Rest(p)[i] = IF p.data[4] >= 128 THEN 255 ELSE 0
  BY DEF Rest
<1> QED BY <1>1, <1>2, <1>3, <1>4, <1>6, <1>7

\* An integer of four bytes is right in its first four bytes, and in all of
\* them unless it is negative.
LEMMA Int32Used ==
  ASSUME NEW p \in Parts, p.tag = kValueInt32, NEW n \in {1, 4, 8},
         n = 8 => p.data[4] < 128
  PROVE  /\ SubSeq(Got(p).data, 1, n) = SubSeq(Meant(p), 1, n)
         /\ Len(SubSeq(Got(p).data, 1, n)) = n
         /\ Got(p).type = "dvInteger"
<1>1. PICK d \in Seq(Byte) : d = p.data /\ Len(d) = 4 /\ d[4] \in Byte
  BY Int32Meant
<1>2. PICK z \in Seq(Byte) : z = <<0, 0, 0, 0>> /\ Len(z) = 4 /\ \A i \in 1..4 : z[i] = 0
  <2>1. <<0, 0, 0, 0>> \in Seq(Byte) /\ Len(<<0, 0, 0, 0>>) = 4
    BY DEF Byte
  <2>2. \A i \in 1..4 : <<0, 0, 0, 0>>[i] = 0
    OBVIOUS
  <2> QED BY <2>1, <2>2, Zenon
<1>3. PICK r \in Seq(Byte) : /\ r = Rest(p) /\ Len(r) = 4
                             /\ \A i \in 1..4 : r[i] = IF p.data[4] >= 128 THEN 255 ELSE 0
  BY Int32Meant
<1>4. Got(p) = DartValue("dvInteger", d \o z, 0, 0) /\ Meant(p) = d \o r
  BY <1>1, <1>2, <1>3, Int32Meant, Zenon
<1>5. n \in Nat /\ n <= 8 /\ (n = 8 \/ n <= 4)
  OBVIOUS
<1>6. ASSUME NEW y \in Seq(Byte), Len(y) = 4
      PROVE  /\ d \o y \in Seq(Byte) /\ Len(d \o y) = 8
             /\ \A i \in 1..4 : (d \o y)[i] = d[i]
             /\ \A i \in 5..8 : (d \o y)[i] = y[i - 4]
  <2>1. d \o y \in Seq(Byte) /\ Len(d \o y) = Len(d) + Len(y)
    BY Concat
  <2>2. \A i \in 1..Len(d) : (d \o y)[i] = d[i]
    BY FrontByte
  <2>3. \A i \in 1..Len(y) : (d \o y)[Len(d) + i] = y[i]
    BY BackByte
  <2>4. Len(d) = 4
    BY <1>1
  <2>5. \A i \in 5..8 : i - 4 \in 1..4 /\ 4 + (i - 4) = i
    OBVIOUS
  <2> QED BY <1>6, <2>1, <2>2, <2>3, <2>4, <2>5
<1>7. PICK g \in Seq(Byte) : /\ g = d \o z /\ Len(g) = 8 /\ \A i \in 1..4 : g[i] = d[i]
                             /\ \A i \in 5..8 : g[i] = z[i - 4]
  BY <1>2, <1>6, Zenon
<1>8. PICK m \in Seq(Byte) : /\ m = d \o r /\ Len(m) = 8 /\ \A i \in 1..4 : m[i] = d[i]
                             /\ \A i \in 5..8 : m[i] = r[i - 4]
  BY <1>3, <1>6, Zenon
<1>9. \A i \in 1..n : g[i] = m[i]
  <2> TAKE i \in 1..n
  <2>1. CASE i <= 4
    <3>1. i \in 1..4
      BY <1>5, <2>1
    <3> QED BY <1>7, <1>8, <3>1, Zenon
  <2>2. CASE ~(i <= 4)
    <3>1. n = 8 /\ i \in 5..8 /\ i - 4 \in 1..4
      BY <1>5, <2>2
    <3>2. ~(p.data[4] >= 128)
      <4>1. PICK x \in 0..255 : x = p.data[4]
        BY <1>1, Zenon DEF Byte
      <4>2. x < 128
        BY <3>1, <4>1
      <4> QED BY <4>1, <4>2
    <3>3. z[i - 4] = 0 /\ r[i - 4] = 0
      BY <1>2, <1>3, <3>1, <3>2
    <3> QED BY <1>7, <1>8, <3>1, <3>3, Zenon
  <2> QED BY <2>1, <2>2
<1>10. n <= Len(g) /\ n <= Len(m)
  BY <1>5, <1>7, <1>8
<1>11. SubSeq(g, 1, n) = SubSeq(m, 1, n)
  BY <1>5, <1>9, <1>10, SameStart
<1>12. Len(SubSeq(g, 1, n)) = n
  BY <1>5, <1>10, FirstBytes
<1>13. Got(p).data = g /\ Got(p).type = "dvInteger" /\ Meant(p) = m
  BY <1>4, <1>7, <1>8 DEF DartValue
<1> QED BY <1>11, <1>12, <1>13

\* What is used of an argument is what Dart means by it.
LEMMA UsedMeant ==
  ASSUME NEW names, NEW f, Fits(f, names), NEW p \in Sendable(f.name)
  PROVE  /\ SubSeq(Got(p).data, 1, f.bytes) = SubSeq(Meant(p), 1, f.bytes)
         /\ Len(SubSeq(Got(p).data, 1, f.bytes)) = f.bytes
         /\ Got(p).type = f.type
<1>1. p \in Parts
  BY DEF Sendable
<1>2. PICK name : name = f.name
  OBVIOUS
<1>3. \/ name \in DoubleArgs /\ p.tag = kValueFloat64 /\ f.type = "dvFloat64" /\ f.bytes = 8
      \/ name \in BoolArgs /\ p.tag \in {kValueTrue, kValueFalse} /\ f.type = "dvBool" /\ f.bytes = 1
      \/ /\ \/ p.tag = kValueInt64
            \/ p.tag = kValueInt32 /\ (name \in SignedArgs \/ p.data[4] < 128)
         /\ f.type = "dvInteger"
         /\ \/ f.bytes \in {1, 4}
            \/ f.bytes = 8 /\ name \notin SignedArgs
  <2>1. DoubleArgs \cap BoolArgs = {}
    BY DEF DoubleArgs, BoolArgs
  <2>2. CASE name \in DoubleArgs
    <3>1. p.tag = kValueFloat64
      BY <1>2, <2>1, <2>2 DEF Sendable
    <3> QED BY <1>2, <2>1, <2>2, <3>1 DEF Fits
  <2>3. CASE name \notin DoubleArgs /\ name \in BoolArgs
    <3>1. p.tag \in {kValueTrue, kValueFalse}
      BY <1>2, <2>3 DEF Sendable
    <3> QED BY <1>2, <2>3, <3>1 DEF Fits
  <2>4. CASE name \notin DoubleArgs /\ name \notin BoolArgs
    <3>1. \/ p.tag = kValueInt64
          \/ p.tag = kValueInt32 /\ (name \in SignedArgs \/ p.data[4] < 128)
      BY <1>2, <2>4 DEF Sendable
    <3> QED BY <1>2, <2>4, <3>1 DEF Fits
  <2> QED BY <2>2, <2>3, <2>4<1>4. CASE p.tag = kValueFloat64
  <2>1. Got(p) = DartValue("dvFloat64", p.data, 0, 0) /\ Meant(p) = p.data
    BY <1>4 DEF Got, Meant, kValueNull, kValueTrue, kValueFalse, kValueInt32, kValueInt64,
       kValueFloat64, kValueString, Collections, kValueList, kValueMap
  <2>2. f.type = "dvFloat64" /\ f.bytes = 8
    BY <1>3, <1>4 DEF kValueTrue, kValueFalse, kValueInt32, kValueInt64, kValueFloat64
  <2>3. PICK d \in Seq(Byte) : d = p.data /\ Len(d) = 8
    <3>1. Len(p.data) = Width(kValueFloat64) /\ p.data \in Seq(Byte)
      BY <1>1, <1>4, PartTyped DEF Parts
    <3> QED BY <3>1, DoubleTag
  <2>4. PICK n \in Nat : n = 8 /\ n <= Len(d)
    BY <2>3
  <2>5. Len(SubSeq(d, 1, n)) = n
    BY <2>4, FirstBytes
  <2>6. Got(p).data = d /\ Got(p).type = "dvFloat64" /\ Meant(p) = d
    BY <2>1, <2>3 DEF DartValue
  <2> QED BY <2>2, <2>4, <2>5, <2>6
<1>5. CASE p.tag = kValueInt64
  <2>1. Got(p) = DartValue("dvInteger", p.data, 0, 0) /\ Meant(p) = p.data
    BY <1>5 DEF Got, Meant, kValueNull, kValueTrue, kValueFalse, kValueInt32, kValueInt64,
       kValueFloat64, kValueString, Collections, kValueList, kValueMap
  <2>2. f.type = "dvInteger" /\ f.bytes \in {1, 4, 8}
    BY <1>3, <1>5 DEF kValueTrue, kValueFalse, kValueInt32, kValueInt64, kValueFloat64
  <2>3. PICK d \in Seq(Byte) : d = p.data /\ Len(d) = 8
    <3>1. Len(p.data) = Width(kValueInt64) /\ p.data \in Seq(Byte)
      BY <1>1, <1>5, PartTyped DEF Parts
    <3> QED BY <3>1, IntTags
  <2>4. PICK n \in Nat : n = f.bytes /\ n <= Len(d)
    BY <2>2, <2>3
  <2>5. Len(SubSeq(d, 1, n)) = n
    BY <2>4, FirstBytes
  <2>6. Got(p).data = d /\ Got(p).type = "dvInteger" /\ Meant(p) = d
    BY <2>1, <2>3 DEF DartValue
  <2> QED BY <2>2, <2>4, <2>5, <2>6
<1>6. CASE p.tag = kValueInt32
  <2>1. f.type = "dvInteger" /\ f.bytes \in {1, 4, 8} /\ (f.bytes = 8 => p.data[4] < 128)
    BY <1>3, <1>6 DEF kValueTrue, kValueFalse, kValueInt32, kValueInt64, kValueFloat64
  <2>2. PICK n \in {1, 4, 8} : n = f.bytes
    BY <2>1
  <2>3. n = 8 => p.data[4] < 128
    BY <2>1, <2>2
  <2>4. /\ SubSeq(Got(p).data, 1, n) = SubSeq(Meant(p), 1, n)
        /\ Len(SubSeq(Got(p).data, 1, n)) = n
        /\ Got(p).type = "dvInteger"
    BY <1>1, <1>6, <2>3, Int32Used
  <2> QED BY <2>1, <2>2, <2>4
<1>7. CASE p.tag \in {kValueTrue, kValueFalse}
  <2>1. PICK d : d = <<IF p.tag = kValueTrue THEN 1 ELSE 0>>
    BY Zenon
  <2>2. Got(p) = DartValue("dvBool", d, 0, 0)
    BY <1>7, <2>1 DEF Got, kValueNull, kValueTrue, kValueFalse, kValueInt32, kValueInt64,
       kValueFloat64, kValueString, Collections, kValueList, kValueMap
  <2>3. Meant(p) = d
    BY <1>7, <2>1 DEF Meant, kValueInt32, kValueTrue, kValueFalse
  <2>4. f.type = "dvBool" /\ f.bytes = 1
    BY <1>3, <1>7 DEF kValueTrue, kValueFalse, kValueInt32, kValueInt64, kValueFloat64
  <2>5. d \in Seq(Byte) /\ Len(d) = 1
    BY <2>1 DEF Byte
  <2>6. PICK n \in Nat : n = 1 /\ n <= Len(d)
    BY <2>5
  <2>7. Len(SubSeq(d, 1, n)) = n
    BY <2>5, <2>6, FirstBytes
  <2>8. Got(p).data = d /\ Got(p).type = "dvBool"
    BY <2>2 DEF DartValue
  <2> QED BY <2>3, <2>4, <2>6, <2>7, <2>8
<1> QED BY <1>3, <1>4, <1>5, <1>6, <1>7

\* A list of the arguments that method m has.
Sends(l, m) ==
  \E n \in Nat : /\ DOMAIN DartArgs[m] = 1..n
                 /\ Len(l) = n + 1
                 /\ l[1] = Part(kValueList, << >>, n)
                 /\ \A i \in 1..n : l[i + 1] \in Sendable(DartArgs[m][i])

\* The list of a call has an argument for each name.
LEMMA ListSends ==
  ASSUME NEW m \in DOMAIN DartArgs, NEW values \in ArgValues
  PROVE  Legible(List(Given(m, values))) /\ Sends(List(Given(m, values)), m)
<1>1. PICK args : args = Given(m, values)
  OBVIOUS
<1>2. /\ Legible(List(args))
      /\ Len(args) \in Nat /\ DOMAIN DartArgs[m] = 1..Len(args)
      /\ Len(List(args)) = Len(args) + 1
      /\ List(args)[1] = Part(kValueList, << >>, Len(args))
      /\ \A i \in 1..Len(args) :
           List(args)[i + 1] = args[i] /\ args[i] \in Sendable(DartArgs[m][i])
  BY <1>1, ListLegible
<1>3. Sends(List(args), m)
  BY <1>2 DEF Sends
<1> QED BY <1>1, <1>2, <1>3

\* What message_read makes of a value.
AllGot(l) == [i \in 1..Len(l) |-> Got(l[i])]

\* Each value under a name is what Dart means by the argument of that name.
Arrived(t, m, l) ==
  \A name \in DOMAIN t :
    \E i \in DOMAIN DartArgs[m] :
      /\ DartArgs[m][i] = name
      /\ t[name] = SubSeq(Meant(l[i + 1]), 1, Len(t[name]))

\* A handler whose fields fit takes what was sent.
LEMMA TakesAll ==
  ASSUME NEW m, NEW l, Sends(l, m), NEW d, FitsAll(d, DartArgs[m])
  PROVE  /\ Decodes(AllGot(l), d) /\ LongEnough(AllGot(l), d)
         /\ DOMAIN Taken(AllGot(l), d.fields) # {}
         /\ Arrived(Taken(AllGot(l), d.fields), m, l)
<1>1. PICK names : names = DartArgs[m]
  OBVIOUS
<1>2. PICK n \in Nat : /\ DOMAIN names = 1..n /\ Len(l) = n + 1
                       /\ l[1] = Part(kValueList, << >>, n)
                       /\ \A i \in 1..n : l[i + 1] \in Sendable(names[i])
  BY <1>1 DEF Sends
<1>3. PICK V : V = AllGot(l)
  OBVIOUS
<1>4. \A i \in 1..n + 1 : V[i] = Got(l[i])
  BY <1>2, <1>3 DEF AllGot
<1>5. V[1].type = "dvList" /\ V[1].length = n
  <2>1. 1 \in 1..n + 1
    OBVIOUS
  <2>2. V[1] = Got(Part(kValueList, << >>, n))
    BY <1>2, <1>4, <2>1
  <2>3. PICK p : p = Part(kValueList, << >>, n) /\ p.tag = kValueList /\ p.count = n
    <3>1. PICK p : p = Part(kValueList, << >>, n)
      OBVIOUS
    <3>2. p.tag = kValueList /\ p.count = n
      BY <3>1 DEF Part
    <3> QED BY <3>1, <3>2
  <2>4. Got(p) = DartValue("dvList", << >>, p.count, Members(p))
    BY <2>3 DEF Got, kValueNull, kValueTrue, kValueFalse, kValueInt32, kValueInt64,
       kValueFloat64, kValueString, Collections, kValueList, kValueMap
  <2> QED BY <2>2, <2>3, <2>4 DEF DartValue
<1>6. d.length = n
  <2>1. PICK k \in Nat : k = d.length /\ 1..k = 1..n
    BY <1>1, <1>2 DEF FitsAll
  <2>2. k = n
    BY <2>1
  <2> QED BY <2>1, <2>2
<1>7. ASSUME NEW f \in d.fields
      PROVE  \E i \in 1..n :
               /\ names[i] = f.name
               /\ Arg(V, f).type = f.type
               /\ Used(V, f) = SubSeq(Meant(l[i + 1]), 1, f.bytes)
               /\ Len(Used(V, f)) = f.bytes
  <2>1. Fits(f, names)
    BY <1>1 DEF FitsAll
  <2>2. PICK i \in 1..n : i = f.index + 1 /\ f.index + 2 = i + 1 /\ names[i] = f.name
    <3>1. f.index \in Nat /\ f.index + 1 \in 1..n /\ names[f.index + 1] = f.name
      BY <1>2, <2>1 DEF Fits
    <3>2. f.index + 2 = (f.index + 1) + 1
      BY <3>1
    <3> QED BY <3>1, <3>2
  <2>3. PICK p : p = l[i + 1] /\ p \in Sendable(f.name)
    BY <1>2, <2>2
  <2>4. Arg(V, f) = Got(p)
    <3>1. i + 1 \in 1..n + 1
      OBVIOUS
    <3> QED BY <1>4, <2>2, <2>3, <3>1 DEF Arg
  <2>5. /\ SubSeq(Got(p).data, 1, f.bytes) = SubSeq(Meant(p), 1, f.bytes)
        /\ Len(SubSeq(Got(p).data, 1, f.bytes)) = f.bytes
        /\ Got(p).type = f.type
    BY <2>1, <2>3, UsedMeant, Zenon
  <2> QED BY <2>2, <2>3, <2>4, <2>5, Zenon DEF Used
<1>8. Decodes(V, d)
  BY <1>5, <1>6, <1>7 DEF Decodes
<1>9. LongEnough(V, d)
  BY <1>5, <1>6 DEF LongEnough
<1>10. PICK t : t = Taken(V, d.fields)
  OBVIOUS
<1>11. DOMAIN t = FieldNames(d.fields)
  BY <1>10 DEF Taken
<1>12. DOMAIN t # {}
  BY <1>11, Zenon DEF FieldNames, FitsAll
<1>13. ASSUME NEW name \in DOMAIN t
       PROVE  \E i \in DOMAIN names :
                names[i] = name /\ t[name] = SubSeq(Meant(l[i + 1]), 1, Len(t[name]))
  <2>1. PICK f \in d.fields : f = Named(d.fields, name) /\ f.name = name
    <3>1. \E f \in d.fields : f.name = name
      BY <1>11 DEF FieldNames
    <3> QED BY <3>1 DEF Named
  <2>2. PICK i \in 1..n : /\ names[i] = f.name /\ Arg(V, f).type = f.type
                          /\ Used(V, f) = SubSeq(Meant(l[i + 1]), 1, f.bytes)
                          /\ Len(Used(V, f)) = f.bytes
    BY <1>7
  <2>3. t[name] = IF Arg(V, Named(d.fields, name)).type = Named(d.fields, name).type
                    THEN Used(V, Named(d.fields, name))
                    ELSE [j \in 1..Named(d.fields, name).bytes |-> 0]
    BY <1>10, <1>11 DEF Taken
  <2>4. t[name] = Used(V, f)
    BY <2>1, <2>2, <2>3
  <2> QED BY <1>2, <2>1, <2>2, <2>4, Zenon
<1>14. Arrived(t, m, l)
  BY <1>1, <1>13 DEF Arrived
<1> QED BY <1>3, <1>8, <1>9, <1>10, <1>12, <1>14

\* The names that a call may have are written with their lengths.
LEMMA SpellSized ==
  ASSUME NEW m \in Spelled
  PROVE  Spell[m] \in Seq(Byte) /\ Sized(Len(Spell[m]))
<1>1. Spell[m] \in Seq(Byte) /\ Len(Spell[m]) \in 1..253
  BY ChannelAssumption
<1>2. PICK n \in 1..253 : n = Len(Spell[m])
  BY <1>1
<1>3. n \div 65536 = 0
  BY SMT
<1>4. Sized(n)
  BY <1>3 DEF Sized
<1> QED BY <1>1, <1>2, <1>4

\* engine_cb_platform_message finds the method and the arguments of a call.
LEMMA CallParsed ==
  ASSUME NEW m \in Spelled, NEW args, Legible(args),
         Asks(request, Spell[m], args)
  PROVE  /\ Name.ok /\ Args.ok /\ Args.values = AllGot(args)
         /\ \A k \in Spelled : IsMethod(k) <=> k = m
<1>1. PICK s \in Seq(Byte) : s = Spell[m] /\ Sized(Len(s))
  BY SpellSized
<1>2. PICK bytes : bytes = request
  OBVIOUS
<1>3. PICK at \in Nat :
           /\ message_read(bytes, 0) =
                [ok |-> TRUE, offset |-> at, pending |-> 0,
                 values |-> <<DartValue("dvString", s, 0, 0)>>]
           /\ message_read(bytes, at) =
                [ok |-> TRUE, offset |-> Len(bytes), pending |-> 0,
                 values |-> [i \in 1..Len(args) |-> Got(args[i])]]
  <2>1. Asks(bytes, s, args)
    BY <1>1, <1>2
  <2>2. Parsed(bytes, s, args)
    BY <1>1, <2>1, ReadsCall
  <2> QED BY <2>2, Zenon DEF Parsed
<1>4. /\ Name.ok /\ Name.offset = at /\ Name.values = <<DartValue("dvString", s, 0, 0)>>
  BY <1>2, <1>3 DEF Name
<1>5. Args.ok /\ Args.values = AllGot(args)
  BY <1>2, <1>3, <1>4 DEF Args, AllGot
<1>6. \A k \in Spelled : IsMethod(k) <=> k = m
  <2> TAKE k \in Spelled
  <2>1. IsMethod(k) <=> <<DartValue("dvString", s, 0, 0)>> = <<DartValue("dvString", Spell[k], 0, 0)>>
    BY <1>4, <1>5 DEF IsMethod
  <2>2. ASSUME <<DartValue("dvString", s, 0, 0)>> = <<DartValue("dvString", Spell[k], 0, 0)>>
        PROVE  k = m
    <3>1. DartValue("dvString", s, 0, 0) = DartValue("dvString", Spell[k], 0, 0)
      BY <2>2
    <3>2. s = Spell[k]
      BY <3>1 DEF DartValue
    <3> QED BY <1>1, <3>2, Zenon, ChannelAssumption
  <2> QED BY <1>1, <2>1, <2>2
<1> QED BY <1>4, <1>5, <1>6

\* The cursor's handler finds the kind.
LEMMA KindFound ==
  ASSUME NEW kind \in Kinds, NEW map, map = CursorArgs(kind)
  PROVE  /\ map[1].tag = kValueMap
         /\ map[5] = Part(kValueString, kind, 0)
         /\ stdmap_get_str(map, Spell["kind"]) = <<Part(kValueString, kind, 0)>>
<1>1. /\ map[1] = Part(kValueMap, << >>, 2)
      /\ map[2] = Part(kValueString, Spell["device"], 0)
      /\ map[4] = Part(kValueString, Spell["kind"], 0)
      /\ map[5] = Part(kValueString, kind, 0)
  BY CursorLegible
<1>2. map[1].tag = kValueMap /\ map[1].count = 2
  BY <1>1 DEF Part
<1>3. map[2] # map[4]
  <2>1. Spell["device"] # Spell["kind"]
    BY ChannelAssumption DEF Spelled
  <2> QED BY <1>1, <2>1 DEF Part
<1> DEFINE hits == {i \in 1..map[1].count : map[2 * i] = Part(kValueString, Spell["kind"], 0)}
           first == CHOOSE i \in hits : \A j \in hits : i <= j
<1>4. hits = {2}
  <2>1. \A i \in 1..2 : (i = 1 /\ 2 * i = 2) \/ (i = 2 /\ 2 * i = 4)
    OBVIOUS
  <2>2. \A i \in 1..map[1].count : map[2 * i] = map[4] <=> i = 2
    BY <1>2, <1>3, <2>1
  <2>3. 2 \in 1..map[1].count
    BY <1>2
  <2> QED BY <1>1, <2>2, <2>3
<1>5. first = 2
  <2> HIDE DEF hits
  <2> QED BY <1>4
<1>6. stdmap_get_str(map, Spell["kind"]) = IF hits = {} THEN << >> ELSE <<map[2 * first + 1]>>
  BY DEF stdmap_get_str
<1> HIDE DEF first, hits
<1>7. stdmap_get_str(map, Spell["kind"]) = <<map[5]>>
  <2>1. hits # {} /\ 2 * first + 1 = 5
    BY <1>4, <1>5
  <2> QED BY <1>6, <2>1
<1> QED BY <1>1, <1>2, <1>7

-----------------------------------------------------------------------------
(* The second invariant: a call is one that Dart makes, its bytes are the  *)
(* request, nothing is taken before it is answered, and what is taken then *)
(* is what Dart means.                                                     *)

ArgsCall(c) == c.channel = "wlroots" /\ c.method \in DOMAIN DartArgs /\ Sends(c.args, c.method)
CursorCall(c) ==
  /\ c.channel = "flutter/mousecursor" /\ c.method \in CursorMethods
  /\ \E kind \in Kinds : c.args = CursorArgs(kind)
OtherCall(c) ==
  /\ c.channel \in {"wlroots", "plugin", "other"}
  /\ c.method \in BareMethods \cup {"unknown"}

Made(c, bytes) ==
  /\ c.method \in Spelled /\ Legible(c.args)
  /\ Asks(bytes, Spell[c.method], c.args)
  /\ ArgsCall(c) \/ CursorCall(c) \/ OtherCall(c)

CallInv ==
  \/ call = NoCall /\ answer = NoAnswer /\ taken = << >>
  \/ /\ Made(call, request)
     /\ answer = NoAnswer => taken = << >>
     /\ ArgumentsArrive

\* There is a call only where Dart has made one.
LEMMA MadeSome ==
  ASSUME NEW c, NEW bytes, Made(c, bytes)
  PROVE  c # NoCall
BY DEF Made, ArgsCall, CursorCall, OtherCall, NoCall

\* The methods by their callers.
LEMMA MethodsApart ==
  /\ \A m \in DOMAIN DartArgs : m # "activateSystemCursor"
  /\ \A m \in CursorMethods \cup BareMethods \cup {"unknown"} : m \notin DOMAIN DartArgs
  /\ \A m \in BareMethods \cup {"unknown"} : m # "activateSystemCursor"
BY DEF DartArgs, CursorMethods, BareMethods

\* A new call.
LEMMA InvokeMakes ==
  ASSUME CallInv, NEW channel, NEW m, NEW args, Invoke(channel, m, args),
         m \in Spelled, Legible(args),
         LET c == [channel |-> channel, method |-> m, args |-> args]
         IN  ArgsCall(c) \/ CursorCall(c) \/ OtherCall(c)
  PROVE  CallInv'
<1>1. /\ call' = [channel |-> channel, method |-> m, args |-> args]
      /\ request' = Image(Image(<< >>, Text(Spell[m])), args)
      /\ call = NoCall /\ UNCHANGED <<taken, answer>>
  BY DEF Invoke, Idle
<1>2. answer = NoAnswer /\ taken = << >>
  BY <1>1, MadeSome DEF CallInv
<1>3. PICK c : c = [channel |-> channel, method |-> m, args |-> args]
  OBVIOUS
<1>4. c.method = m /\ c.args = args
  BY <1>3
<1>5. ArgsCall(c) \/ CursorCall(c) \/ OtherCall(c)
  BY <1>3
<1>6. Asks(request', Spell[m], args)
  BY <1>1 DEF Asks
<1>7. Made(c, request')
  BY <1>4, <1>5, <1>6 DEF Made
<1>8. answer' = NoAnswer /\ taken' = << >> /\ call' = c
  BY <1>1, <1>2, <1>3
<1>9. ArgumentsArrive'
  BY <1>8 DEF ArgumentsArrive
<1> QED BY <1>7, <1>8, <1>9 DEF CallInv

\* An answer.
LEMMA AnswerArrives ==
  ASSUME CallInv, Asked, UNCHANGED <<call, request>>, ArgumentsArrive',
         answer'.kind \in {"success", "error", "missing"}
  PROVE  CallInv'
<1>1. Made(call, request)
  BY DEF CallInv, Asked
<1>2. answer' # NoAnswer
  BY DEF NoAnswer
<1> QED BY <1>1, <1>2 DEF CallInv

\* A call of Dart's that is not turned away.
LEMMA ArgsArrive ==
  ASSUME ArgsCall(call), UNCHANGED call, answer'.kind # "missing",
         Arrived(taken', call.method, call.args),
         (call.method \in DOMAIN Decoders \cup DOMAIN Inline) => DOMAIN (taken') # {}
  PROVE  ArgumentsArrive'
<1>1. call.method \in DOMAIN DartArgs /\ call.method # "activateSystemCursor"
  BY MethodsApart DEF ArgsCall
<1> QED BY <1>1 DEF ArgumentsArrive, Arrived

\* Of other calls nothing is taken.
LEMMA OthersArrive ==
  ASSUME OtherCall(call), UNCHANGED call
  PROVE  ArgumentsArrive'
BY MethodsApart DEF OtherCall, ArgumentsArrive

\* What a reply is.
LEMMA AnswerKinds ==
  /\ RespondNullSuccess => answer'.kind = "success"
  /\ RespondNull => answer'.kind = "missing"
  /\ \A what : platch_respond(what) => answer' = what
  /\ \A v : Error(v).kind = "error"
  /\ Success.kind = "success"
BY DEF RespondNullSuccess, RespondNull, platch_respond, Send, Success, Missing, Error

\* The names engine_cb_platform_message compares with are spelled out.
LEMMA NamesSpelled ==
  /\ DOMAIN Decoders \cup DOMAIN Inline \cup BareMethods
       \cup {"surface_clear_focus", "set_primary_output"} \subseteq Spelled
  /\ CursorMethods \subseteq Spelled /\ {"unknown", "kind", "device"} \subseteq Spelled
  /\ DOMAIN DartArgs \subseteq Spelled
<1>1. {"surface_clear_focus", "set_primary_output"} \subseteq DOMAIN DartArgs
  BY DEF DartArgs
<1>2. \A m : m \in DOMAIN DartArgs \/ m \in BareMethods \/ m \in CursorMethods
             \/ m \in DOMAIN Decoders \/ m \in DOMAIN Inline \/ m \in {"unknown", "kind", "device"}
             => m \in Spelled
  BY DEF Spelled
<1> QED BY <1>1, <1>2

\* What is known of a call on the wlroots channel before it is answered.
LEMMA DartAsks ==
  ASSUME CallInv, Asked, call.channel = "wlroots"
  PROVE  /\ Name.ok /\ Args.ok /\ Args.values = AllGot(call.args)
         /\ call.method \in Spelled /\ \A k \in Spelled : IsMethod(k) <=> k = call.method
         /\ ArgsCall(call) \/ OtherCall(call)
         /\ taken = << >>
<1>1. Made(call, request) /\ taken = << >>
  BY DEF CallInv, Asked
<1>2. PICK m \in Spelled : m = call.method
  BY <1>1 DEF Made
<1>3. PICK args : args = call.args
  OBVIOUS
<1>4. Legible(args) /\ Asks(request, Spell[m], args)
  BY <1>1, <1>2, <1>3 DEF Made
<1>5. /\ Name.ok /\ Args.ok /\ Args.values = AllGot(args)
      /\ \A k \in Spelled : IsMethod(k) <=> k = m
  BY <1>4, CallParsed
<1>6. ArgsCall(call) \/ OtherCall(call)
  BY <1>1 DEF Made, CursorCall
<1> QED BY <1>1, <1>2, <1>3, <1>5, <1>6

\* No call of Dart's is undecodable.
LEMMA UndecodableKeeps ==
  ASSUME CallInv, DispatchUndecodable
  PROVE  CallInv'
<1>1. Asked /\ call.channel = "wlroots" /\ RespondNull /\ UNCHANGED <<call, request>>
  BY DEF DispatchUndecodable
<1>2. /\ Name.ok /\ Args.ok
      /\ call.method \in Spelled /\ \A k \in Spelled : IsMethod(k) <=> k = call.method
      /\ ArgsCall(call) \/ OtherCall(call)
  BY <1>1, DartAsks
<1>3. ~ArgsCall(call)
  <2>1. SUFFICES ASSUME call.method \in DOMAIN DartArgs PROVE FALSE
    BY DEF ArgsCall
  <2>2. call.method \in DOMAIN Decoders \cup DOMAIN Inline \cup BareMethods
                          \cup {"surface_clear_focus", "set_primary_output"}
    BY <2>1, EachMethodRead
  <2>3. ~IsMethod(call.method)
    BY <1>2, <2>2 DEF DispatchUndecodable
  <2> QED BY <1>2, <2>3
<1>4. ArgumentsArrive'
  BY <1>1, <1>2, <1>3, OthersArrive
<1>5. answer'.kind = "missing"
  BY <1>1, AnswerKinds
<1> QED BY <1>1, <1>4, <1>5, AnswerArrives

\* A decoder takes what Dart means.
LEMMA DecodedKeeps ==
  ASSUME CallInv, DispatchDecoded
  PROVE  CallInv'
<1>1. Asked /\ call.channel = "wlroots" /\ UNCHANGED <<call, request>>
  BY DEF DispatchDecoded
<1>2. PICK m \in DOMAIN Decoders :
           /\ IsMethod(m)
           /\ IF Decodes(Args.values, Decoders[m])
                THEN taken' = Taken(Args.values, Decoders[m].fields) /\ RespondNullSuccess
                ELSE taken' = taken /\ RespondNull
  BY DEF DispatchDecoded
<1>3. /\ Args.values = AllGot(call.args) /\ m = call.method
      /\ ArgsCall(call) \/ OtherCall(call)
  <2>1. m \in Spelled
    BY NamesSpelled
  <2> QED BY <1>1, <1>2, <2>1, DartAsks
<1>4. answer'.kind \in {"success", "missing"}
  BY <1>2, AnswerKinds
<1>5. CASE OtherCall(call)
  <2>1. ArgumentsArrive'
    BY <1>1, <1>5, OthersArrive
  <2> QED BY <1>1, <1>4, <2>1, AnswerArrives
<1>6. CASE ArgsCall(call)
  <2>1. m \in DOMAIN DartArgs /\ Sends(call.args, m)
    BY <1>3, <1>6 DEF ArgsCall
  <2>2. FitsAll(Decoders[m], DartArgs[m])
    <3>1. m \notin {"surface_clear_focus", "set_primary_output"}
      BY DEF Decoders
    <3> QED BY <2>1, <3>1, EachMethodRead
  <2>3. PICK d : d = Decoders[m]
    OBVIOUS
  <2>4. PICK l : l = call.args
    OBVIOUS
  <2>5. /\ Decodes(AllGot(l), d)
        /\ DOMAIN Taken(AllGot(l), d.fields) # {}
        /\ Arrived(Taken(AllGot(l), d.fields), m, l)
    <3>1. Sends(l, m) /\ FitsAll(d, DartArgs[m])
      BY <2>1, <2>2, <2>3, <2>4
    <3> QED BY <3>1, TakesAll
  <2>6. taken' = Taken(AllGot(l), d.fields) /\ RespondNullSuccess
    BY <1>2, <1>3, <2>3, <2>4, <2>5
  <2>7. answer'.kind = "success"
    BY <2>6, AnswerKinds
  <2>8. Arrived(taken', call.method, call.args) /\ DOMAIN (taken') # {}
    BY <1>3, <2>4, <2>5, <2>6
  <2>9. ArgumentsArrive'
    BY <1>1, <1>6, <2>7, <2>8, ArgsArrive
  <2> QED BY <1>1, <2>7, <2>9, AnswerArrives
<1> QED BY <1>3, <1>5, <1>6

\* So does a handler that reads its arguments itself.
LEMMA InlineKeeps ==
  ASSUME CallInv, DispatchInline
  PROVE  CallInv'
<1>1. Asked /\ call.channel = "wlroots" /\ UNCHANGED <<call, request>>
  BY DEF DispatchInline
<1>2. PICK m \in DOMAIN Inline, refused \in BOOLEAN :
           /\ IsMethod(m)
           /\ IF LongEnough(Args.values, Inline[m])
                THEN taken' = Taken(Args.values, Inline[m].fields)
                ELSE taken' = taken
           /\ CASE m \in Refusable ->
                     IF refused \/ ~LongEnough(Args.values, Inline[m])
                       THEN platch_respond(Error(Null)) ELSE RespondNullSuccess
                [] m \in ShortIsFine -> RespondNullSuccess
                [] OTHER -> IF LongEnough(Args.values, Inline[m])
                              THEN RespondNullSuccess ELSE RespondNull
  BY DEF DispatchInline
<1>3. /\ Args.values = AllGot(call.args) /\ m = call.method
      /\ ArgsCall(call) \/ OtherCall(call)
  <2>1. m \in Spelled
    BY NamesSpelled
  <2> QED BY <1>1, <1>2, <2>1, DartAsks
<1>4. /\ answer'.kind \in {"success", "error", "missing"}
      /\ LongEnough(Args.values, Inline[m]) => answer'.kind # "missing"
  <2>1. platch_respond(Error(Null)) \/ RespondNullSuccess \/ RespondNull
    BY <1>2
  <2>2. RespondNull => \/ ~LongEnough(Args.values, Inline[m])
                       \/ answer'.kind = "success" \/ answer'.kind = "error"
    <3>1. LongEnough(Args.values, Inline[m]) => platch_respond(Error(Null)) \/ RespondNullSuccess
      BY <1>2
    <3> QED BY <3>1, AnswerKinds
  <2> QED BY <2>1, <2>2, AnswerKinds
<1>5. CASE OtherCall(call)
  <2>1. ArgumentsArrive'
    BY <1>1, <1>5, OthersArrive
  <2> QED BY <1>1, <1>4, <2>1, AnswerArrives
<1>6. CASE ArgsCall(call)
  <2>1. m \in DOMAIN DartArgs /\ Sends(call.args, m)
    BY <1>3, <1>6 DEF ArgsCall
  <2>2. PICK d : d = Inline[m] /\ FitsAll(d, DartArgs[m])
    BY InlineFit
  <2>3. PICK l : l = call.args
    OBVIOUS
  <2>4. /\ LongEnough(AllGot(l), d)
        /\ DOMAIN Taken(AllGot(l), d.fields) # {}
        /\ Arrived(Taken(AllGot(l), d.fields), m, l)
    <3>1. Sends(l, m)
      BY <2>1, <2>3
    <3> QED BY <2>2, <3>1, TakesAll
  <2>5. LongEnough(Args.values, Inline[m]) /\ taken' = Taken(AllGot(l), d.fields)
    BY <1>2, <1>3, <2>2, <2>3, <2>4
  <2>6. Arrived(taken', call.method, call.args) /\ DOMAIN (taken') # {}
    BY <1>3, <2>3, <2>4, <2>5
  <2>7. ArgumentsArrive'
    BY <1>1, <1>4, <1>6, <2>5, <2>6, ArgsArrive
  <2> QED BY <1>1, <1>4, <2>7, AnswerArrives
<1> QED BY <1>3, <1>5, <1>6

\* A handler that reads no arguments takes nothing.
LEMMA BareKeeps ==
  ASSUME CallInv, DispatchBare
  PROVE  CallInv'
<1>1. Asked /\ call.channel = "wlroots" /\ UNCHANGED <<call, request, taken>>
  BY DEF DispatchBare
<1>2. /\ call.method \in Spelled /\ \A k \in Spelled : IsMethod(k) <=> k = call.method
      /\ ArgsCall(call) \/ OtherCall(call)
      /\ taken = << >>
  BY <1>1, DartAsks
<1>3. PICK m \in BareMethods \cup {"surface_clear_focus", "set_primary_output"} : IsMethod(m)
  <2>1. "get_socket_paths" \in BareMethods
    BY DEF BareMethods
  <2> QED BY <2>1 DEF DispatchBare
<1>4. m = call.method
  BY <1>2, <1>3, NamesSpelled
<1>5. answer'.kind = "success"
  <2>1. ASSUME NEW path, platch_respond([kind |-> "success", values |-> SocketMap(path)])
        PROVE  answer'.kind = "success"
    BY <2>1 DEF platch_respond, Send
  <2> QED BY <2>1, AnswerKinds, Zenon DEF DispatchBare
<1>6. CASE OtherCall(call)
  <2>1. ArgumentsArrive'
    BY <1>1, <1>6, OthersArrive
  <2> QED BY <1>1, <1>5, <2>1, AnswerArrives
<1>7. CASE ArgsCall(call)
  <2>1. m \in {"surface_clear_focus", "set_primary_output"}
    BY <1>3, <1>4, <1>7, MethodsApart DEF ArgsCall
  <2>2. m \notin DOMAIN Decoders \cup DOMAIN Inline
    BY <2>1 DEF Decoders, Inline
  <2>3. Arrived(taken', call.method, call.args)
    BY <1>1, <1>2 DEF Arrived
  <2>4. ArgumentsArrive'
    BY <1>1, <1>4, <1>5, <1>7, <2>2, <2>3, ArgsArrive
  <2> QED BY <1>1, <1>5, <2>4, AnswerArrives
<1> QED BY <1>2, <1>6, <1>7

\* The cursor's handler takes the kind.
LEMMA CursorKeeps ==
  ASSUME CallInv, cursor_handle_message
  PROVE  CallInv'
<1> DEFINE name == platch_decode_value_std(request, 0)
           arg == platch_decode_value_std(request, name.offset)
           Is(m) == name.values = Text(Spell[m])
           kind == IF arg.values[1].tag = kValueMap
                     THEN stdmap_get_str(arg.values, Spell["kind"]) ELSE << >>
<1>1. /\ Asked /\ call.channel = "flutter/mousecursor" /\ UNCHANGED <<call, request>>
      /\ IF name.ok /\ arg.ok /\ \E m \in CursorMethods : Is(m)
           THEN /\ platch_respond(Success)
                /\ taken' = IF Is("activateSystemCursor") /\ kind # << >> /\ kind[1].tag = kValueString
                              THEN [n \in {"kind"} |-> kind[1].data] ELSE taken
           ELSE RespondNull /\ UNCHANGED taken
  BY DEF cursor_handle_message
<1>2. Made(call, request) /\ CursorCall(call)
  BY <1>1 DEF CallInv, Asked, Made, ArgsCall, OtherCall
<1>3. PICK m \in CursorMethods : m = call.method /\ m \in Spelled
  BY <1>2, NamesSpelled DEF CursorCall
<1>4. PICK k \in Kinds : call.args = CursorArgs(k)
  BY <1>2 DEF CursorCall
<1>5. PICK map : map = CursorArgs(k)
  OBVIOUS
<1>6. PICK s \in Seq(Byte) : s = Spell[m] /\ Sized(Len(s))
  BY <1>3, SpellSized
<1>7. PICK at \in Nat :
           /\ platch_decode_value_std(request, 0) =
                [ok |-> TRUE, offset |-> at, pending |-> 0, values |-> Text(s)]
           /\ platch_decode_value_std(request, at) =
                [ok |-> TRUE, offset |-> Len(request), pending |-> 0,
                 values |-> [i \in 1..Len(map) |-> map[i]]]
  <2>1. Legible(map) /\ Asks(request, s, map)
    BY <1>2, <1>3, <1>4, <1>5, <1>6 DEF Made
  <2>2. PICK bytes : bytes = request
    OBVIOUS
  <2>3. Legible(map) /\ Asks(bytes, s, map)
    BY <2>1, <2>2
  <2>4. Parsed(bytes, s, map)
    BY <1>6, <2>3, ReadsCall
  <2> QED BY <2>2, <2>4 DEF Parsed
<1>8. [i \in 1..Len(map) |-> map[i]] = map
  <2>1. map \in Seq(Parts)
    BY <1>5, CursorLegible DEF Legible, Flat
  <2> HIDE DEF Parts
  <2> QED BY <2>1
<1>9. name.ok /\ name.offset = at /\ name.values = Text(s)
  BY <1>7
<1>10. arg.ok /\ arg.values = map
  <2>1. arg = platch_decode_value_std(request, at)
    BY <1>9
  <2> HIDE DEF arg, name
  <2> QED BY <1>7, <1>8, <2>1
<1>11. \A n \in CursorMethods : Is(n) <=> n = m
  <2> TAKE n \in CursorMethods
  <2>1. Text(s) = Text(Spell[n]) => s = Spell[n]
    <3>1. Part(kValueString, s, 0) = Part(kValueString, Spell[n], 0) => s = Spell[n]
      BY DEF Part
    <3> QED BY <3>1 DEF Text
  <2>2. s = Spell[n] <=> n = m
    BY <1>3, <1>6, NamesSpelled, ChannelAssumption
  <2> QED BY <1>6, <1>9, <2>1, <2>2
<1>12. kind = <<Part(kValueString, k, 0)>>
  <2>1. map[1].tag = kValueMap /\ stdmap_get_str(map, Spell["kind"]) = <<Part(kValueString, k, 0)>>
    BY <1>5, KindFound
  <2> QED BY <1>10, <2>1
<1>13. map[5].data = k
  <2>1. map[5] = Part(kValueString, k, 0)
    BY <1>5, KindFound
  <2> QED BY <2>1 DEF Part
<1>14. kind # << >> /\ kind[1].tag = kValueString /\ kind[1].data = k
  <2> HIDE DEF kind
  <2>1. kind[1] = Part(kValueString, k, 0) /\ kind # << >>
    BY <1>12
  <2> QED BY <2>1 DEF Part
<1> HIDE DEF name, arg, kind, Is
<1>15. /\ platch_respond(Success)
       /\ taken' = IF Is("activateSystemCursor") THEN [n \in {"kind"} |-> k] ELSE taken
  BY <1>1, <1>9, <1>10, <1>11, <1>14
<1>16. answer'.kind = "success"
  BY <1>15, AnswerKinds
<1>17. ArgumentsArrive'
  <2>1. call.method \notin DOMAIN DartArgs
    BY <1>3, MethodsApart
  <2>2. call.method = "activateSystemCursor" => taken' = [n \in {"kind"} |-> call.args[5].data]
    <3>1. "activateSystemCursor" \in CursorMethods
      BY DEF CursorMethods
    <3> QED BY <1>3, <1>4, <1>5, <1>11, <1>13, <1>15, <3>1
  <2> QED BY <1>1, <2>1, <2>2 DEF ArgumentsArrive
<1> QED BY <1>1, <1>16, <1>17, AnswerArrives

\* What is sent without arguments is null.
LEMMA NullCallKeeps ==
  ASSUME CallInv, NEW channel \in {"wlroots", "plugin", "other"},
         NEW m \in BareMethods \cup {"unknown"}, Invoke(channel, m, Null)
  PROVE  CallInv'
<1>1. m \in Spelled
  BY NamesSpelled
<1>2. PICK args : args = Null /\ Legible(args)
  BY NullLegible
<1>3. PICK c : c = [channel |-> channel, method |-> m, args |-> args]
  BY Zenon
<1>4. OtherCall(c)
  BY <1>3 DEF OtherCall
<1>5. Invoke(channel, m, args)
  BY <1>2
<1> QED BY <1>1, <1>2, <1>3, <1>4, <1>5, InvokeMakes

\* A call with a list of arguments.
LEMMA ArgsCallKeeps ==
  ASSUME CallInv, InvokeWithArgs
  PROVE  CallInv'
<1>1. PICK m \in DOMAIN DartArgs, values \in ArgValues :
           Invoke("wlroots", m, List(Given(m, values)))
  BY Zenon DEF InvokeWithArgs, Given
<1>2. PICK args : args = List(Given(m, values))
  OBVIOUS
<1>3. Legible(args) /\ Sends(args, m)
  BY <1>2, ListSends
<1>4. m \in Spelled
  BY NamesSpelled
<1>5. PICK c : c = [channel |-> "wlroots", method |-> m, args |-> args]
  BY Zenon
<1>6. c.channel = "wlroots" /\ c.method = m /\ c.args = args
  BY <1>5
<1>7. ArgsCall(c)
  BY <1>3, <1>6 DEF ArgsCall
<1>8. Invoke("wlroots", m, args)
  BY <1>1, <1>2
<1> QED BY <1>3, <1>4, <1>5, <1>7, <1>8, InvokeMakes

\* A call of Flutter's for the cursor.
LEMMA CursorCallKeeps ==
  ASSUME CallInv, InvokeCursor
  PROVE  CallInv'
<1>1. PICK m \in CursorMethods, kind \in Kinds :
           Invoke("flutter/mousecursor", m, CursorArgs(kind))
  BY DEF InvokeCursor
<1>2. PICK args : args = CursorArgs(kind)
  OBVIOUS
<1>3. Legible(args) /\ m \in Spelled
  BY <1>2, CursorLegible, NamesSpelled
<1>4. PICK c : c = [channel |-> "flutter/mousecursor", method |-> m, args |-> args]
  BY Zenon
<1>5. c.channel = "flutter/mousecursor" /\ c.method = m /\ c.args = args
  BY <1>4
<1>6. CursorCall(c)
  BY <1>2, <1>5 DEF CursorCall
<1>7. Invoke("flutter/mousecursor", m, args)
  BY <1>1, <1>2
<1> QED BY <1>3, <1>4, <1>6, <1>7, InvokeMakes

\* Every step keeps the invariant of calls.
LEMMA CallStep ==
  ASSUME CallInv, [Next]_channelVars
  PROVE  CallInv'
<1>1. CASE UNCHANGED callVars
  BY <1>1 DEF callVars, CallInv, ArgumentsArrive
<1>2. CASE Build \/ DartReceivesMessage \/ UNCHANGED channelVars
  <2>1. UNCHANGED callVars
    BY <1>2 DEF Build, DartReceivesMessage, channelVars
  <2> QED BY <1>1, <2>1
<1>3. CASE InvokeWithArgs
  BY <1>3, ArgsCallKeeps
<1>4. CASE InvokeBare
  BY <1>4, NullCallKeeps DEF InvokeBare
<1>5. CASE InvokeUnknown
  BY <1>5, NullCallKeeps DEF InvokeUnknown
<1>6. CASE InvokeCursor
  BY <1>6, CursorCallKeeps
<1>7. CASE InvokePlugin
  BY <1>7, NullCallKeeps DEF InvokePlugin
<1>8. CASE InvokeOther
  BY <1>8, NullCallKeeps DEF InvokeOther
<1>9. CASE DispatchUndecodable
  BY <1>9, UndecodableKeeps
<1>10. CASE DispatchDecoded
  BY <1>10, DecodedKeeps
<1>11. CASE DispatchInline
  BY <1>11, InlineKeeps
<1>12. CASE DispatchBare
  BY <1>12, BareKeeps
<1>13. CASE cursor_handle_message
  BY <1>13, CursorKeeps
<1>14. CASE PluginAnswers \/ DispatchOther
  <2>1. Asked /\ UNCHANGED <<call, request>> /\ call.channel \in {"plugin", "other"}
    BY <1>14 DEF PluginAnswers, DispatchOther
  <2>2. OtherCall(call)
    BY <2>1 DEF CallInv, Asked, Made, ArgsCall, CursorCall
  <2>3. answer'.kind \in {"success", "error", "missing"}
    <3>1. CASE DispatchOther
      BY <3>1, AnswerKinds DEF DispatchOther
    <3>2. CASE PluginAnswers
      <4>1. PICK v : \/ platch_respond([kind |-> "success", values |-> v])
                     \/ platch_respond(Error(v))
        BY <3>2, Zenon DEF PluginAnswers
      <4> QED BY <4>1, AnswerKinds
    <3> QED BY <1>14, <3>1, <3>2
  <2>4. ArgumentsArrive'
    BY <2>1, <2>2, OthersArrive
  <2> QED BY <2>1, <2>3, <2>4, AnswerArrives
<1>15. CASE DartReceivesReply
  BY <1>15 DEF DartReceivesReply, CallInv
<1> QED
  BY <1>2, <1>3, <1>4, <1>5, <1>6, <1>7, <1>8, <1>9, <1>10, <1>11, <1>12, <1>13, <1>14,
     <1>15 DEF Next

\* Whatever Dart calls with, the bytes of the call are read as what Dart wrote:
\* the invariant of calls holds.
THEOREM CallsHold == Spec => []CallInv
<1>1. Init => CallInv
  BY DEF Init, CallInv
<1>2. CallInv /\ [Next]_channelVars => CallInv'
  BY CallStep
<1> QED BY <1>1, <1>2, PTL DEF Spec

\* A handler that Dart calls gets what Dart means: for every spelling, every
\* value of an argument and every kind that can be written.
THEOREM ArgumentsArriveHolds == Spec => []ArgumentsArrive
<1>1. CallInv => ArgumentsArrive
  BY DEF CallInv, ArgumentsArrive
<1> QED BY <1>1, CallsHold, PTL
=============================================================================
