------------------------------ MODULE JsonWriter ------------------------------
(***************************************************************************)
(* What binary_writer writes of a value: CBOR, MessagePack, UBJSON, BJData *)
(* and BSON.                                                               *)
(*                                                                         *)
(* Widths matter here, so that the numbers of this module are bytes, the   *)
(* most significant first.  A value with the field integer (int64_t) or    *)
(* unsigned (uint64_t) holds nine of them in two's complement, enough for  *)
(* both types; one with the field float holds the eight of a double.       *)
(* [binary |-> s, subtype |-> t] is a byte_container_with_subtype, whose t *)
(* is <<>> or a number.                                                    *)
(***************************************************************************)
EXTENDS JsonValue

IsBinary(v) == "binary" \in DOMAIN v
IsInteger(v) == "integer" \in DOMAIN v
IsUnsigned(v) == "unsigned" \in DOMAIN v
IsFloat(v) == "float" \in DOMAIN v
IsBoolean(v) == "boolean" \in DOMAIN v
-----------------------------------------------------------------------------
(* Numbers as bytes *)

Fill(byte, n) == [i \in 1..n |-> byte]

\* A size_t.
SizeBytes(n) ==
  Fill(0, 5) \o <<n \div 16777216, (n \div 65536) % 256, (n \div 256) % 256, n % 256>>

Unsigned(bytes) == Fill(0, 9 - Len(bytes)) \o bytes
Signed(bytes) == Fill(IF bytes[1] < 128 THEN 0 ELSE 255, 9 - Len(bytes)) \o bytes

Low(x, n) == SubSeq(x, 10 - n, 9)
IsNegative(x) == x[1] = 255

FitsUnsigned(x, n) == x = Unsigned(Low(x, n))
FitsSigned(x, n) == x = Signed(Low(x, n))

\* -1 - x
Complement(x) == [i \in DOMAIN x |-> 255 - x[i]]

\* The narrowest of the unsigned types that holds x.
Width(x) == CHOOSE w \in {1, 2, 4, 8} :
              FitsUnsigned(x, w) /\ \A u \in {1, 2, 4} : FitsUnsigned(x, u) => w <= u
SignedWidth(x) == CHOOSE w \in {1, 2, 4, 8} :
              FitsSigned(x, w) /\ \A u \in {1, 2, 4} : FitsSigned(x, u) => w <= u

AtMost(x, n) == FitsUnsigned(x, 1) /\ x[9] <= n

\* 0 for one byte, 1 for two, 2 for four, 3 for eight.
Exponent2(w) == CASE w = 1 -> 0 [] w = 2 -> 1 [] w = 4 -> 2 [] w = 8 -> 3

\* std::to_string of a uint64_t: its digits by long division.
Divided(bytes) ==
  FoldLeft(LAMBDA r, b : LET n == 256 * r.rest + b
                         IN  [quotient |-> Append(r.quotient, n \div 10), rest |-> n % 10],
           [quotient |-> <<>>, rest |-> 0], bytes)

RECURSIVE LongDecimal(_)
LongDecimal(bytes) ==
  LET d == Divided(bytes)
  IN  (IF d.quotient = Fill(0, Len(bytes)) THEN <<>> ELSE LongDecimal(d.quotient)) \o <<48 + d.rest>>

\* The bits of bytes and back.
BitsOf(bytes) ==
  [i \in 1..8 * Len(bytes) |-> (bytes[(i + 7) \div 8] \div 2^(7 - ((i - 1) % 8))) % 2]
Value2(bits) == FoldLeft(LAMBDA n, b : 2 * n + b, 0, bits)
BytesOf(bits) == [i \in 1..Len(bits) \div 8 |-> Value2(SubSeq(bits, 8 * i - 7, 8 * i))]
BitsIn(n, w) == [i \in 1..w |-> (n \div 2^(w - i)) % 2]

IsNaN(double) ==
  LET bits == BitsOf(double)
  IN  Value2(SubSeq(bits, 2, 12)) = 2047 /\ SubSeq(bits, 13, 64) # Fill(0, 52)

Infinite(double) ==
  LET bits == BitsOf(double)
  IN  Value2(SubSeq(bits, 2, 12)) = 2047 /\ SubSeq(bits, 13, 64) = Fill(0, 52)

\* The float with the value of a finite double, or <<>>: write_compact_float
\* compares the double with its conversion to float.
Narrow(double) ==
  LET bits == BitsOf(double)
      e == Value2(SubSeq(bits, 2, 12))
      fraction == SubSeq(bits, 13, 64)
      k == 897 - e   \* of a float without its leading 1: the zeros before it, and 1
      float(exponent, f) ==
        IF SubSeq(f, 24, Len(f)) # Fill(0, Len(f) - 23) THEN <<>>
        ELSE BytesOf(<<bits[1]>> \o BitsIn(exponent, 8) \o SubSeq(f, 1, 23))
  IN  CASE e \in 897..1150 -> float(e - 896, fraction)
        [] e \in 874..896  -> float(0, Fill(0, k - 1) \o <<1>> \o fraction)
        [] e = 0 /\ fraction = Fill(0, 52) -> float(0, fraction)
        [] OTHER -> <<>>

Ordered(bytes, little) == IF little THEN Reverse(bytes) ELSE bytes

\* write_compact_float, with the prefixes of a format.
CompactFloat(double, single, whole) ==
  IF Narrow(double) # <<>> THEN <<single>> \o Narrow(double) ELSE <<whole>> \o double

\* The members of an object in their order.
Members(object) ==
  LET keys == Keys(object)
  IN  [i \in DOMAIN keys |-> [key |-> keys[i], value |-> object[keys[i]]]]
-----------------------------------------------------------------------------
(* CBOR *)

\* A number behind a type: in the first byte, or in one, two, four or eight more.
CborHead(type, x) ==
  IF AtMost(x, 23) THEN <<type + x[9]>>
  ELSE <<type + 24 + Exponent2(Width(x))>> \o Low(x, Width(x))

CborInteger(x) == IF IsNegative(x) THEN CborHead(32, Complement(x)) ELSE CborHead(0, x)
CborUnsigned(x) == CborHead(0, x)

CborFloat(double) ==
  CASE IsNaN(double)    -> <<249, 126, 0>>
    [] Infinite(double) -> <<249, IF double[1] < 128 THEN 124 ELSE 252, 0>>
    [] OTHER            -> CompactFloat(double, 250, 251)

CborString(s) == CborHead(96, SizeBytes(Len(s))) \o s

CborBinaryUntagged(v) ==  \* mutant: the subtype is not written
  CborHead(64, SizeBytes(Len(v.binary))) \o v.binary
CborBinary(v) ==
  (IF v.subtype = <<>> THEN <<>>
   ELSE <<216 + Exponent2(Width(v.subtype))>> \o Low(v.subtype, Width(v.subtype)))
  \o CborHead(64, SizeBytes(Len(v.binary))) \o v.binary

CborArray(items) == CborHead(128, SizeBytes(Len(items))) \o FlattenSeq(items)
CborObject(items) == CborHead(160, SizeBytes(Len(items))) \o FlattenSeq(items)

RECURSIVE WriteCbor(_)
WriteCbor(v) ==
  CASE v = Nothing   -> <<246>>
    [] IsBoolean(v)  -> <<IF v.boolean THEN 245 ELSE 244>>
    [] IsInteger(v)  -> CborInteger(v.integer)
    [] IsUnsigned(v) -> CborUnsigned(v.unsigned)
    [] IsFloat(v)    -> CborFloat(v.float)
    [] IsString(v)   -> CborString(v.string)
    [] IsBinary(v)   -> CborBinary(v)
    [] IsArray(v)    -> CborArray([i \in DOMAIN v.array |-> WriteCbor(v.array[i])])
    [] IsObject(v)   ->
         LET m == Members(v.object)
         IN  CborObject([i \in DOMAIN m |-> CborString(m[i].key) \o WriteCbor(m[i].value)])
-----------------------------------------------------------------------------
(* MessagePack *)

MsgpackUnsigned(x) ==
  IF AtMost(x, 127) THEN <<x[9]>> ELSE <<204 + Exponent2(Width(x))>> \o Low(x, Width(x))

MsgpackInteger(x) ==
  CASE ~ IsNegative(x) -> MsgpackUnsigned(x)
    [] FitsSigned(x, 1) /\ x[9] >= 224 -> <<x[9]>>
    [] OTHER -> <<208 + Exponent2(SignedWidth(x))>> \o Low(x, SignedWidth(x))

\* A size: in the first byte up to a limit, else behind one of three codes, of
\* which 0 says that this width is not used.
MsgpackSize(n, fix, limit, codes) ==
  LET w == CHOOSE u \in {1, 2, 4} :
             /\ codes[Exponent2(u) + 1] # 0 /\ FitsUnsigned(SizeBytes(n), u)
             /\ \A t \in {1, 2} : codes[Exponent2(t) + 1] # 0 /\ FitsUnsigned(SizeBytes(n), t) => u <= t
  IN  IF n <= limit THEN <<fix + n>> ELSE <<codes[Exponent2(w) + 1]>> \o Low(SizeBytes(n), w)

MsgpackString(s) == MsgpackSize(Len(s), 160, 31, <<217, 218, 219>>) \o s

MsgpackBinary(v) ==
  LET n == Len(v.binary)
      fixext == [i \in {1, 2, 4, 8, 16} |->
                   CASE i = 1 -> 212 [] i = 2 -> 213 [] i = 4 -> 214 [] i = 8 -> 215 [] i = 16 -> 216]
  IN  (CASE v.subtype = <<>>     -> MsgpackSize(n, 0, -1, <<196, 197, 198>>)
         [] n \in DOMAIN fixext  -> <<fixext[n]>> \o Low(v.subtype, 1)
         [] OTHER -> MsgpackSize(n, 0, -1, <<199, 200, 201>>) \o Low(v.subtype, 1))
      \o v.binary

MsgpackArray(items) == MsgpackSize(Len(items), 144, 15, <<0, 220, 221>>) \o FlattenSeq(items)
MsgpackObject(items) == MsgpackSize(Len(items), 128, 15, <<0, 222, 223>>) \o FlattenSeq(items)

RECURSIVE WriteMsgpack(_)
WriteMsgpack(v) ==
  CASE v = Nothing   -> <<192>>
    [] IsBoolean(v)  -> <<IF v.boolean THEN 195 ELSE 194>>
    [] IsInteger(v)  -> MsgpackInteger(v.integer)
    [] IsUnsigned(v) -> MsgpackUnsigned(v.unsigned)
    [] IsFloat(v)    -> CompactFloat(v.float, 202, 203)
    [] IsString(v)   -> MsgpackString(v.string)
    [] IsBinary(v)   -> MsgpackBinary(v)
    [] IsArray(v)    -> MsgpackArray([i \in DOMAIN v.array |-> WriteMsgpack(v.array[i])])
    [] IsObject(v)   ->
         LET m == Members(v.object)
         IN  MsgpackObject([i \in DOMAIN m |-> MsgpackString(m[i].key) \o WriteMsgpack(m[i].value)])
-----------------------------------------------------------------------------
(* UBJSON and BJData.  f says how: [bjdata, count, type]; a '$' needs a '#'. *)

\* The markers, by the character that the code writes.
Mark == [c \in {"Z", "T", "F", "N", "i", "U", "I", "u", "l", "m", "L", "M", "H", "h", "d", "D", "C",
                "S", "[", "]", "{", "}", "$", "#"} |-> Bytes(c)[1]]

\* The integer markers in the order they are tried: width, signed, BJData only.
IntegerMarks ==
  <<<<"i", 1, TRUE, FALSE>>, <<"U", 1, FALSE, FALSE>>, <<"I", 2, TRUE, FALSE>>, <<"u", 2, FALSE, TRUE>>,
    <<"l", 4, TRUE, FALSE>>, <<"m", 4, FALSE, TRUE>>, <<"L", 8, TRUE, FALSE>>, <<"M", 8, FALSE, TRUE>>>>

\* The first marker whose type holds x: one of IntegerMarks, or "H".
IntegerMark(x, bjdata) ==
  LET fits == SelectSeq(IntegerMarks, LAMBDA m :
                /\ m[4] => bjdata
                /\ IF m[3] THEN FitsSigned(x, m[2]) ELSE FitsUnsigned(x, m[2]))
  IN  IF fits = <<>> THEN <<"H">> ELSE fits[1]

\* write_number_with_ubjson_prefix of an integer.
RECURSIVE UbjsonInteger(_, _, _)
UbjsonInteger(x, prefix, bjdata) ==
  LET mark == IntegerMark(x, bjdata)
      digits == LongDecimal(Low(x, 8))
  IN  (IF prefix THEN <<Mark[mark[1]]>> ELSE <<>>)
      \o (IF mark[1] = "H" THEN UbjsonInteger(SizeBytes(Len(digits)), TRUE, bjdata) \o digits
          ELSE Ordered(Low(x, mark[2]), bjdata))

UbjsonSize(n, f) == UbjsonInteger(SizeBytes(n), TRUE, f.bjdata)

\* ubjson_prefix
UbjsonPrefix(v, bjdata) ==
  CASE v = Nothing  -> "Z"
    [] IsBoolean(v) -> IF v.boolean THEN "T" ELSE "F"
    [] IsInteger(v) -> IntegerMark(v.integer, bjdata)[1]
    [] IsUnsigned(v) -> IntegerMark(v.unsigned, bjdata)[1]
    [] IsFloat(v)   -> "D"
    [] IsString(v)  -> "S"
    [] IsArray(v) \/ IsBinary(v) -> "["
    [] IsObject(v)  -> "{"

\* The common marker of the values, or none.
UbjsonType(values, f) ==
  LET first == UbjsonPrefix(values[1], f.bjdata)
  IN  IF /\ f.type /\ values # <<>>
         /\ \A i \in DOMAIN values : UbjsonPrefix(values[i], f.bjdata) = first
         /\ ~ (f.bjdata /\ first \in {"[", "{", "S", "H", "T", "F", "N", "Z"})
      THEN <<Mark[first]>> ELSE <<>>

\* A container: its type, its size, its parts and, without a size, its end.
UbjsonContainer(type, parts, end, f) ==
  (IF type # <<>> THEN <<Mark["$"]>> \o type ELSE <<>>)
  \o (IF f.count THEN <<Mark["#"]>> \o UbjsonSize(Len(parts), f) ELSE <<>>)
  \o FlattenSeq(parts)
  \o (IF f.count THEN <<>> ELSE <<end>>)

UbjsonBinary(bytes, f) ==
  UbjsonContainer(IF f.type /\ bytes # <<>> THEN <<Mark["U"]>> ELSE <<>>,
                  [i \in DOMAIN bytes |-> IF f.type THEN <<bytes[i]>> ELSE <<Mark["U"], bytes[i]>>],
                  Mark["]"], f)

SizeKey == Bytes("_ArraySize_")
TypeKey == Bytes("_ArrayType_")
DataKey == Bytes("_ArrayData_")

\* bjdtype: the markers of the element types of an ndarray.
BjdataTypes ==
  (Bytes("uint8") :> "U") @@ (Bytes("int8") :> "i") @@ (Bytes("uint16") :> "u") @@ (Bytes("int16") :> "I")
  @@ (Bytes("uint32") :> "m") @@ (Bytes("int32") :> "l") @@ (Bytes("uint64") :> "M")
  @@ (Bytes("int64") :> "L") @@ (Bytes("single") :> "d") @@ (Bytes("double") :> "D") @@ (Bytes("char") :> "C")

LooksLikeNdarray(v) == IsObject(v) /\ DOMAIN v.object = {SizeKey, TypeKey, DataKey}

\* The number of elements that _ArraySize_ says; the sizes here are small.
NdarraySize(sizes) ==
  IF sizes = <<>> THEN 0 ELSE FoldLeft(LAMBDA n, v : n * Value2(BitsOf(Low(v.unsigned, 2))), 1, sizes)

\* write_bjdata_ndarray does its work.
IsNdarray(v) ==
  /\ LooksLikeNdarray(v)
  /\ v.object[TypeKey].string \in DOMAIN BjdataTypes
  /\ Len(v.object[DataKey].array) = NdarraySize(v.object[SizeKey].array)

\* An element of the type dtype, whatever type it has.
NdarrayItem(v, dtype) ==
  CASE dtype = "D" -> Reverse(v.float)
    [] dtype = "d" -> Reverse(Narrow(v.float))
    [] OTHER ->
         LET w == CASE dtype \in {"U", "C", "i"} -> 1 [] dtype \in {"u", "I"} -> 2
                    [] dtype \in {"m", "l"} -> 4 [] dtype \in {"M", "L"} -> 8
         IN  Reverse(Low(IF IsInteger(v) THEN v.integer ELSE v.unsigned, w))

RECURSIVE WriteUbjson(_, _, _)

WriteNdarray(v, f) ==
  LET dtype == BjdataTypes[v.object[TypeKey].string]
      data == v.object[DataKey].array
  IN  <<Mark["["], Mark["$"], Mark[dtype], Mark["#"]>>
      \o WriteUbjson(v.object[SizeKey], f, TRUE)
      \o FlattenSeq([i \in DOMAIN data |-> NdarrayItem(data[i], dtype)])

UbjsonArray(v, f) ==
  LET type == UbjsonType(v.array, f)
  IN  UbjsonContainer(type, [i \in DOMAIN v.array |-> WriteUbjson(v.array[i], f, type = <<>>)], Mark["]"], f)

UbjsonObject(v, f) ==
  LET m == Members(v.object)
      type == UbjsonType([i \in DOMAIN m |-> m[i].value], f)
      part(i) == UbjsonSize(Len(m[i].key), f) \o m[i].key \o WriteUbjson(m[i].value, f, type = <<>>)
  IN  UbjsonContainer(type, [i \in DOMAIN m |-> part(i)], Mark["}"], f)

WriteUbjson(v, f, prefix) ==
  IF f.bjdata /\ IsNdarray(v) THEN WriteNdarray(v, f)
  ELSE IF IsInteger(v) THEN UbjsonInteger(v.integer, prefix, f.bjdata)
  ELSE IF IsUnsigned(v) THEN UbjsonInteger(v.unsigned, prefix, f.bjdata)
  ELSE (IF prefix THEN <<Mark[UbjsonPrefix(v, f.bjdata)]>> ELSE <<>>)
       \o CASE v = Nothing \/ IsBoolean(v) -> <<>>
            [] IsFloat(v)  -> Ordered(v.float, f.bjdata)
            [] IsString(v) -> UbjsonSize(Len(v.string), f) \o v.string
            [] IsBinary(v) -> UbjsonBinary(v.binary, f)
            [] IsArray(v)  -> UbjsonArray(v, f)
            [] IsObject(v) -> UbjsonObject(v, f)

\* The type of something like an ndarray is converted to a string: type_error.302.
RECURSIVE BjdataThrows(_)
BjdataThrows(v) ==
  CASE IsArray(v) -> \E i \in DOMAIN v.array : BjdataThrows(v.array[i])
    [] LooksLikeNdarray(v) /\ ~ IsString(v.object[TypeKey]) -> TRUE
    [] LooksLikeNdarray(v) /\ IsNdarray(v) -> FALSE
    [] IsObject(v) -> \E k \in DOMAIN v.object : BjdataThrows(v.object[k])
    [] OTHER       -> FALSE
-----------------------------------------------------------------------------
(* BSON.  The sizes are computed before anything is written. *)

LittleInt32(n) == Reverse(Low(SizeBytes(n), 4))

\* calc_bson_entry_header_size, as far as it does not throw.
BsonHeaderSize(name) == 1 + Len(name) + 1

BsonIntegerSize(x) == IF FitsSigned(x, 4) THEN 4 ELSE 8
BsonUnsignedSize(x) == IF FitsSigned(x, 4) THEN 4 ELSE 8

RECURSIVE BsonElementSize(_, _)

BsonArraySize(items) ==
  4 + FoldLeft(LAMBDA n, i : n + BsonElementSize(Decimal[i - 1], items[i]), 0, [i \in DOMAIN items |-> i]) + 1

BsonObjectSize(object) ==
  4 + FoldLeft(LAMBDA n, k : n + BsonElementSize(k, object[k]), 0, Keys(object)) + 1

BsonElementSizeUnterminated(name, v) ==  \* mutant: the zero behind a string is forgotten
  BsonHeaderSize(name) +
    CASE IsString(v) -> 4 + Len(v.string)
      [] IsFloat(v)  -> 8
      [] OTHER       -> 4

BsonElementSize(name, v) ==
  BsonHeaderSize(name) +
    CASE IsObject(v)   -> BsonObjectSize(v.object)
      [] IsArray(v)    -> BsonArraySize(v.array)
      [] IsBinary(v)   -> 4 + Len(v.binary) + 1
      [] IsBoolean(v)  -> 1
      [] IsFloat(v)    -> 8
      [] IsInteger(v)  -> BsonIntegerSize(v.integer)
      [] IsUnsigned(v) -> BsonUnsignedSize(v.unsigned)
      [] IsString(v)   -> 4 + Len(v.string) + 1
      [] OTHER         -> 0

BsonEntry(type, name, bytes) == <<type>> \o name \o <<0>> \o bytes

BsonString(name, s) == BsonEntry(2, name, LittleInt32(Len(s) + 1) \o s \o <<0>>)

BsonInteger(name, x) ==
  IF FitsSigned(x, 4) THEN BsonEntry(16, name, Reverse(Low(x, 4)))
  ELSE BsonEntry(18, name, Reverse(Low(x, 8)))

BsonBinary(name, v) ==
  LET subtype == IF v.subtype = <<>> THEN <<0>> ELSE Low(v.subtype, 1)
  IN  BsonEntry(5, name, LittleInt32(Len(v.binary)) \o subtype \o v.binary)

RECURSIVE BsonElement(_, _)

BsonArray(items) ==
  LittleInt32(BsonArraySize(items))
  \o FlattenSeq([i \in DOMAIN items |-> BsonElement(Decimal[i - 1], items[i])]) \o <<0>>

WriteBsonObject(object) ==
  LET m == Members(object)
  IN  LittleInt32(BsonObjectSize(object))
      \o FlattenSeq([i \in DOMAIN m |-> BsonElement(m[i].key, m[i].value)]) \o <<0>>

BsonElement(name, v) ==
  CASE IsObject(v)   -> BsonEntry(3, name, WriteBsonObject(v.object))
    [] IsArray(v)    -> BsonEntry(4, name, BsonArray(v.array))
    [] IsBinary(v)   -> BsonBinary(name, v)
    [] IsBoolean(v)  -> BsonEntry(8, name, <<IF v.boolean THEN 1 ELSE 0>>)
    [] IsFloat(v)    -> BsonEntry(1, name, Reverse(v.float))
    [] IsInteger(v)  -> BsonInteger(name, v.integer)
    [] IsUnsigned(v) -> BsonInteger(name, v.unsigned)
    [] IsString(v)   -> BsonString(name, v.string)
    [] OTHER         -> BsonEntry(10, name, <<>>)

\* A key with a zero: out_of_range.409, from the computation of the sizes.
RECURSIVE BsonKeyThrows(_)
BsonKeyThrows(v) ==
  CASE IsArray(v)  -> \E i \in DOMAIN v.array : BsonKeyThrows(v.array[i])
    [] IsObject(v) -> \E k \in DOMAIN v.object : 0 \in ToSet(k) \/ BsonKeyThrows(v.object[k])
    [] OTHER       -> FALSE

\* A number above int64_t: out_of_range.407, when it is its turn to be written.
RECURSIVE BsonNumberThrows(_)
BsonNumberThrows(v) ==
  CASE IsArray(v)  -> \E i \in DOMAIN v.array : BsonNumberThrows(v.array[i])
    [] IsObject(v) -> \E k \in DOMAIN v.object : BsonNumberThrows(v.object[k])
    [] IsUnsigned(v) -> ~ FitsSigned(v.unsigned, 8)
    [] OTHER       -> FALSE

WriteBson(v) ==
  CASE ~ IsObject(v)       -> Throws(317)
    [] BsonKeyThrows(v)    -> Throws(409)
    [] BsonNumberThrows(v) -> Throws(407)
    [] OTHER               -> [bytes |-> WriteBsonObject(v.object)]
-----------------------------------------------------------------------------
\* to_cbor, to_msgpack, to_ubjson, to_bjdata and to_bson.
Written(v, f) ==
  CASE f.name = "cbor"    -> [bytes |-> WriteCbor(v)]
    [] f.name = "msgpack" -> [bytes |-> WriteMsgpack(v)]
    [] f.name = "bson"    -> WriteBson(v)
    [] f.name = "ubjson"  -> [bytes |-> WriteUbjson(v, f, TRUE)]
    [] f.name = "bjdata"  -> IF BjdataThrows(v) THEN Throws(302) ELSE [bytes |-> WriteUbjson(v, f, TRUE)]
=============================================================================
