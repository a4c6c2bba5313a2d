------------------------------ MODULE JsonReader ------------------------------
(***************************************************************************)
(* What binary_reader reads from bytes, and json_sax_dom_parser makes of   *)
(* it.  An operator gets the bytes s and the number i of those that get()  *)
(* has consumed; it gives the value and the new number, at, or the         *)
(* exception thrown.                                                       *)
(*                                                                         *)
(* f is a format of JsonWriter and, for CBOR, how tags are handled.        *)
(***************************************************************************)
EXTENDS JsonWriter

Grammar == INSTANCE JsonGrammar

\* The result of from_bson when the zero behind a string is missing: no
\* exception, but a discarded value.
Discarded == Throws(0)

Then(r, F(_, _)) == IF Failed(r) THEN r ELSE F(r.value, r.at)
Got(v, i) == [value |-> v, at |-> i]

\* What get() will answer: the next byte or EOF.
EOF == -1
Next1(s, i) == IF i < Len(s) THEN s[i + 1] ELSE EOF

\* get_number, get_string and get_binary.
Taken(s, i, n) == IF i + n > Len(s) THEN Throws(110) ELSE Got(SubSeq(s, i + 1, i + n), i + n)

\* A size_t as a number; so large a one that it is no matter how large.
Huge == 16777216
Count(x) == IF FitsUnsigned(x, 3) THEN 65536 * x[7] + 256 * x[8] + x[9] ELSE Huge

\* static_cast<std::size_t>(-1) says that a size is not known.
Npos == Unsigned(Fill(255, 8))

\* start_array and start_object: more elements than max_size() allows, which is
\* PTRDIFF_MAX by the size of a value, or of a node of the map.
MaxArray == Unsigned(<<7>> \o Fill(255, 7))
MaxObject == Unsigned(<<1>> \o Fill(153, 7))
TooLong(x, max) == x # Npos /\ Before(max, x)
-----------------------------------------------------------------------------
(* Floating-point numbers *)

\* std::ldexp of the number with the bits m.
Ldexp(sign, m, e) ==
  LET first == CHOOSE k \in DOMAIN m : m[k] = 1 /\ \A j \in 1..(k - 1) : m[j] = 0
      fraction == SubSeq(m, first + 1, Len(m))
  IN  IF m = Fill(0, Len(m)) THEN BytesOf(<<sign>> \o Fill(0, 63))
      ELSE BytesOf(<<sign>> \o BitsIn(Len(fraction) + e + 1023, 11)
                   \o fraction \o Fill(0, 52 - Len(fraction)))

\* An infinity or a NaN.
Special(sign, fraction) ==
  BytesOf(<<sign>> \o Fill(1, 11) \o fraction \o Fill(0, 52 - Len(fraction)))

\* A float as a double; the conversion makes a NaN a quiet one.
FromFloat(bytes) ==
  LET bits == BitsOf(bytes)
      e == Value2(SubSeq(bits, 2, 9))
      m == SubSeq(bits, 10, 32)
  IN  CASE e = 0   -> Ldexp(bits[1], m, -149)
        [] e = 255 -> Special(bits[1], IF m = Fill(0, 23) THEN m ELSE <<1>> \o Tail(m))
        [] OTHER   -> Ldexp(bits[1], <<1>> \o m, e - 150)

\* The lambda that reads a half.
FromHalf(bytes) ==
  LET bits == BitsOf(bytes)
      e == Value2(SubSeq(bits, 2, 6))
      m == SubSeq(bits, 7, 16)
  IN  CASE e = 0  -> Ldexp(bits[1], m, -24)
        [] e = 31 -> Special(bits[1], IF m = Fill(0, 10) THEN m ELSE <<1>>)
        [] OTHER  -> Ldexp(bits[1], <<1>> \o m, e - 25)
-----------------------------------------------------------------------------
(* Arrays and objects of CBOR and MessagePack *)

RECURSIVE Read(_, _, _)
RECURSIVE ReadKey(_, _, _)

\* The elements or members done so far, at a position, and one more.
WithItem(r, item) == Then(item, LAMBDA v, i : Got(Append(r.value, v), i))

\* key() overwrites the value of a key that is there already.
WithMember(object, k, v) == (k :> v) @@ object
WithPair(r, key, pair(_, _)) ==
  Then(key, LAMBDA k, i :
    Then(pair(k, i), LAMBDA v, j : Got(WithMember(r.value, k, v), j)))

Finished(r, kind) ==
  Then(r, LAMBDA v, i : Got(IF kind = "array" THEN [array |-> v] ELSE [object |-> v], i))

\* n more elements, or all up to a break.
RECURSIVE Items(_, _, _, _)
Items(s, f, n, r) ==
  IF Failed(r) \/ n = 0 THEN r ELSE Items(s, f, n - 1, WithItem(r, Read(s, f, r.at)))

RECURSIVE ItemsToBreak(_, _, _)
ItemsToBreak(s, f, r) ==
  IF Failed(r) THEN r ELSE IF Next1(s, r.at) = 255 THEN Got(r.value, r.at + 1)
  ELSE ItemsToBreak(s, f, WithItem(r, Read(s, f, r.at)))

NextPair(s, f, r) == WithPair(r, ReadKey(s, f, r.at), LAMBDA k, i : Read(s, f, i))

RECURSIVE Pairs(_, _, _, _)
Pairs(s, f, n, r) == IF Failed(r) \/ n = 0 THEN r ELSE Pairs(s, f, n - 1, NextPair(s, f, r))

RECURSIVE PairsToBreak(_, _, _)
PairsToBreak(s, f, r) ==
  IF Failed(r) THEN r ELSE IF Next1(s, r.at) = 255 THEN Got(r.value, r.at + 1)
  ELSE PairsToBreak(s, f, NextPair(s, f, r))

\* get_cbor_array, get_msgpack_array and the like for objects.
ReadArray(s, f, i, x) ==
  CASE x = Npos             -> Finished(ItemsToBreak(s, f, Got(<<>>, i)), "array")
    [] TooLong(x, MaxArray) -> Throws(408)
    [] OTHER                -> Finished(Items(s, f, Count(x), Got(<<>>, i)), "array")

ReadObject(s, f, i, x) ==
  CASE x = Npos              -> Finished(PairsToBreak(s, f, Got(<<>>, i)), "object")
    [] TooLong(x, MaxObject) -> Throws(408)
    [] OTHER                 -> Finished(Pairs(s, f, Count(x), Got(<<>>, i)), "object")
-----------------------------------------------------------------------------
(* CBOR: i is behind the first byte b, the low bits of which say where the *)
(* number is.                                                              *)

CborArgument(s, i, b) ==
  LET low == b % 32
  IN  IF low <= 23 THEN Got(Unsigned(<<low>>), i)
      ELSE Then(Taken(s, i, 2^(low - 24)), LAMBDA n, j : Got(Unsigned(n), j))

\* get_cbor_string (type 3) and get_cbor_binary (type 2); a chunk may itself
\* consist of chunks.
RECURSIVE CborBytes(_, _, _)
RECURSIVE CborChunks(_, _, _, _)
CborChunks(s, i, type, done) ==
  IF Next1(s, i) = 255 THEN Got(done, i + 1)
  ELSE Then(CborBytes(s, i, type), LAMBDA chunk, j : CborChunks(s, j, type, done \o chunk))
CborBytes(s, i, type) ==
  LET b == Next1(s, i)
  IN  CASE b = EOF -> Throws(110)
        [] b \in 32 * type..32 * type + 27 ->
             Then(CborArgument(s, i + 1, b), LAMBDA n, j : Taken(s, j, Count(n)))
        [] b = 32 * type + 31 -> CborChunks(s, i + 1, type, <<>>)
        [] OTHER -> Throws(113)

\* A negative number is -1 - number in int64_t.
CborNumber(s, i, b) ==
  Then(CborArgument(s, i, b), LAMBDA n, j :
    Got(IF b < 32 THEN [unsigned |-> n] ELSE [integer |-> Signed(Complement(Low(n, 8)))], j))

CborContainer(s, f, i, b) ==
  LET read(n, j) == IF b < 160 THEN ReadArray(s, f, j, n) ELSE ReadObject(s, f, j, n)
  IN  IF b % 32 = 31 THEN read(Npos, i) ELSE Then(CborArgument(s, i, b), read)

\* A tag is an error, ignored, or kept as the subtype of the bytes behind it.
CborTagged(s, f, i, b) ==
  CASE f.tags = "error" -> Throws(112)
    [] b < 216          -> Read(s, f, i)
    [] f.tags = "ignore" -> Then(CborArgument(s, i, b), LAMBDA n, j : Read(s, f, j))
    [] f.tags = "store" ->
         Then(CborArgument(s, i, b), LAMBDA n, j :
           Then(CborBytes(s, j, 2), LAMBDA bytes, k : Got([binary |-> bytes, subtype |-> n], k)))

CborSimple(s, i, b) ==
  CASE b \in {244, 245} -> Got([boolean |-> b = 245], i)
    [] b = 246 -> Got(Nothing, i)
    [] b = 249 -> Then(Taken(s, i, 2), LAMBDA n, j : Got([float |-> FromHalf(n)], j))
    [] b = 250 -> Then(Taken(s, i, 4), LAMBDA n, j : Got([float |-> FromFloat(n)], j))
    [] b = 251 -> Then(Taken(s, i, 8), LAMBDA n, j : Got([float |-> n], j))

\* parse_cbor_internal
ReadCbor(s, f, i) ==
  LET b == Next1(s, i)
      low == b % 32
      text(v, j) == Got([string |-> v], j)
      blob(v, j) == Got([binary |-> v, subtype |-> <<>>], j)
  IN  CASE b = EOF -> Throws(110)
        [] b \in 0..63 /\ low <= 27 -> CborNumber(s, i + 1, b)
        [] b \in 64..95 /\ (low <= 27 \/ low = 31)   -> Then(CborBytes(s, i, 2), blob)
        [] b \in 96..127 /\ (low <= 27 \/ low = 31)  -> Then(CborBytes(s, i, 3), text)
        [] b \in 128..191 /\ (low <= 27 \/ low = 31) -> CborContainer(s, f, i + 1, b)
        [] b \in 198..212 \cup 216..219   -> CborTagged(s, f, i + 1, b)
        [] b \in {244, 245, 246, 249, 250, 251} -> CborSimple(s, i + 1, b)
        [] OTHER -> Throws(112)
-----------------------------------------------------------------------------
(* MessagePack *)

ReadMsgpackString(s, i) ==
  LET b == Next1(s, i)
  IN  CASE b = EOF -> Throws(110)
        [] b \in 160..191 -> Taken(s, i + 1, b - 160)
        [] b \in 217..219 ->
             Then(Taken(s, i + 1, 2^(b - 217)), LAMBDA n, j : Taken(s, j, Count(Unsigned(n))))
        [] OTHER -> Throws(113)

\* A subtype is a std::uint8_t.
MsgpackExt(s, i, n) ==
  Then(Taken(s, i, 1), LAMBDA type, j :
    Then(Taken(s, j, n), LAMBDA bytes, k : Got([binary |-> bytes, subtype |-> Unsigned(type)], k)))

MsgpackBlob(s, i, b) ==
  CASE b \in 196..198 ->
         Then(Taken(s, i, 2^(b - 196)), LAMBDA n, j :
           Then(Taken(s, j, Count(Unsigned(n))), LAMBDA bytes, k :
             Got([binary |-> bytes, subtype |-> <<>>], k)))
    [] b \in 199..201 ->
         Then(Taken(s, i, 2^(b - 199)), LAMBDA n, j : MsgpackExt(s, j, Count(Unsigned(n))))
    [] b \in 212..216 -> MsgpackExt(s, i, 2^(b - 212))

MsgpackNumber(s, i, b) ==
  CASE b < 128 -> Got([unsigned |-> Unsigned(<<b>>)], i)
    [] b > 223 -> Got([integer |-> Signed(<<b>>)], i)
    [] b = 202 -> Then(Taken(s, i, 4), LAMBDA n, j : Got([float |-> FromFloat(n)], j))
    [] b = 203 -> Then(Taken(s, i, 8), LAMBDA n, j : Got([float |-> n], j))
    [] b \in 204..207 -> Then(Taken(s, i, 2^(b - 204)), LAMBDA n, j : Got([unsigned |-> Unsigned(n)], j))
    [] b \in 208..211 -> Then(Taken(s, i, 2^(b - 208)), LAMBDA n, j : Got([integer |-> Signed(n)], j))

MsgpackContainer(s, f, i, b) ==
  CASE b \in 128..143 -> ReadObject(s, f, i, Unsigned(<<b - 128>>))
    [] b \in 144..159 -> ReadArray(s, f, i, Unsigned(<<b - 144>>))
    [] b \in {220, 221} -> Then(Taken(s, i, 2 * (b - 219)), LAMBDA n, j : ReadArray(s, f, j, Unsigned(n)))
    [] b \in {222, 223} -> Then(Taken(s, i, 2 * (b - 221)), LAMBDA n, j : ReadObject(s, f, j, Unsigned(n)))

\* parse_msgpack_internal
ReadMsgpack(s, f, i) ==
  LET b == Next1(s, i)
  IN  CASE b = EOF -> Throws(110)
        [] b \in 0..127 \cup 202..211 \cup 224..255 -> MsgpackNumber(s, i + 1, b)
        [] b \in 128..159 \cup 220..223 -> MsgpackContainer(s, f, i + 1, b)
        [] b \in 160..191 \cup 217..219 ->
             Then(ReadMsgpackString(s, i), LAMBDA v, j : Got([string |-> v], j))
        [] b = 192 -> Got(Nothing, i + 1)
        [] b \in {194, 195} -> Got([boolean |-> b = 195], i + 1)
        [] b \in 196..201 \cup 212..216 -> MsgpackBlob(s, i + 1, b)
        [] OTHER -> Throws(112)   \* 193
-----------------------------------------------------------------------------
(* UBJSON and BJData *)

\* get_ignore_noop
RECURSIVE Noops(_, _)
Noops(s, i) == IF Next1(s, i) = Mark["N"] THEN Noops(s, i + 1) ELSE i

\* The entries of IntegerMarks for a byte: one or none.
IntegerType(b, f) == SelectSeq(IntegerMarks, LAMBDA m : Mark[m[1]] = b /\ (m[4] => f.bjdata))

UbjsonNumber(s, i, f, type) ==
  Then(Taken(s, i, type[2]), LAMBDA n, j :
    LET big == Ordered(n, f.bjdata) IN Got(IF type[3] THEN Signed(big) ELSE Unsigned(big), j))

\* The product of two size_t, byte by byte from the last.
Times(x, y) ==
  LET column(k) == FoldLeft(LAMBDA sum, m : sum + x[10 - m] * y[9 - (k - m)], 0, [m \in 1..k |-> m])
      place(r, k) == LET n == column(k) + r.carry
                     IN  [bytes |-> <<n % 256>> \o r.bytes, carry |-> n \div 256]
  IN  Unsigned(FoldLeft(place, [bytes |-> <<>>, carry |-> 0], [k \in 1..8 |-> k]).bytes)

Zero == Unsigned(<<0>>)

\* The size that dimensions make: one dimension, or one row, is no ndarray.
NdarrayOf(dims, at) ==
  LET n == Len(dims)
      product[k \in 0..n] == IF k = 0 THEN Unsigned(<<1>>) ELSE Times(product[k - 1], dims[k])
      plain == n = 1 \/ (n = 2 /\ dims[1] = Unsigned(<<1>>))
  IN  CASE n = 0 -> [value |-> Zero, dims |-> <<>>, at |-> at]
        [] plain -> [value |-> dims[n], dims |-> <<>>, at |-> at]
        [] Zero \in ToSet(dims) -> [value |-> Zero, dims |-> <<>>, at |-> at]
        [] \E k \in 1..n : product[k] \in {Zero, Npos} -> Throws(408)
        [] OTHER -> [value |-> product[n], dims |-> dims, at |-> at]

RECURSIVE UbjsonDims(_, _, _)
RECURSIVE UbjsonSizeValue(_, _, _, _, _)
RECURSIVE UbjsonSizeType(_, _, _, _)

\* get_ubjson_size_value: prefix 0 has it read the marker first.
UbjsonSizeAt(s, i, f, marker, type, nested) ==
  CASE type # <<>> -> Then(UbjsonNumber(s, i, f, type[1]), LAMBDA n, j :
                        IF IsNegative(n) THEN Throws(113) ELSE [value |-> n, dims |-> <<>>, at |-> j])
    [] marker = Mark["["] /\ f.bjdata /\ ~ nested -> Then(UbjsonDims(s, i, f), NdarrayOf)
    [] OTHER -> Throws(113)

UbjsonSizeValue(s, i, f, prefix, nested) ==
  IF prefix # 0 THEN UbjsonSizeAt(s, i, f, prefix, IntegerType(prefix, f), nested)
  ELSE LET j == Noops(s, i)
       IN  UbjsonSizeAt(s, j + 1, f, Next1(s, j), IntegerType(Next1(s, j), f), nested)

BjdOptimizedTypeMarkers == {Mark[c] : c \in {"F", "H", "N", "S", "T", "Z", "[", "{"}}

\* get_ubjson_size_type.  Without a size the last byte read is the next one
\* still to be looked at: it is left unconsumed.
NoSize(i, type) == [value |-> Npos, dims |-> <<>>, at |-> i, type |-> type]
Sized(r, type, allowed) ==
  IF Failed(r) THEN r ELSE IF r.dims # <<>> /\ ~ allowed THEN Throws(112)
  ELSE IF r.value = Npos THEN NoSize(r.at - 1, type)
  ELSE [value |-> r.value, dims |-> r.dims, at |-> r.at, type |-> type]

UbjsonSizeType(s, i, f, inside) ==
  LET j == Noops(s, i)
      type == Next1(s, j + 1)
      k == Noops(s, j + 2)
  IN  CASE Next1(s, j) = Mark["$"] ->
             CASE f.bjdata /\ type \in BjdOptimizedTypeMarkers -> Throws(112)
               [] type = EOF -> Throws(110)
               [] Next1(s, k) # Mark["#"] -> Throws(IF Next1(s, k) = EOF THEN 110 ELSE 112)
               [] OTHER -> Sized(UbjsonSizeValue(s, k + 1, f, 0, FALSE), type, ~ inside)
        [] Next1(s, j) = Mark["#"] -> Sized(UbjsonSizeValue(s, j + 1, f, 0, FALSE), 0, FALSE)
        [] OTHER -> NoSize(j, 0)

\* Where the next marker is, behind what was read.
AtMarker(s, r) == IF Failed(r) THEN r ELSE Got(r.value, Noops(s, r.at))

\* get_ubjson_ndarray_size: the dimensions, n of them or up to ']'.
RECURSIVE Dims(_, _, _, _, _)
Dims(s, f, n, type, r) ==
  IF Failed(r) \/ n = 0 THEN r
  ELSE Dims(s, f, n - 1, type, WithItem(r, UbjsonSizeValue(s, r.at, f, type, TRUE)))

RECURSIVE DimsToEnd(_, _, _)
DimsToEnd(s, f, r) ==
  IF Failed(r) THEN r ELSE IF Next1(s, r.at) = Mark["]"] THEN Got(r.value, r.at + 1)
  ELSE DimsToEnd(s, f, AtMarker(s, WithItem(r, UbjsonSizeValue(s, r.at + 1, f, Next1(s, r.at), TRUE))))

DimsOf(s, f, r) ==
  IF Failed(r) THEN r ELSE IF r.value = Npos THEN DimsToEnd(s, f, Got(<<>>, r.at))
  ELSE Dims(s, f, Count(r.value), r.type, Got(<<>>, r.at))

UbjsonDims(s, i, f) == DimsOf(s, f, UbjsonSizeType(s, i, f, TRUE))

\* get_ubjson_string.  A negative size is none.
UbjsonString(s, i, f) ==
  LET type == IntegerType(Next1(s, i), f)
  IN  CASE Next1(s, i) = EOF -> Throws(110)
        [] type = <<>> -> Throws(113)
        [] OTHER -> Then(UbjsonNumber(s, i + 1, f, type[1]), LAMBDA n, j :
                           Taken(s, j, IF IsNegative(n) THEN 0 ELSE Count(n)))

\* strtoull and strtoll: at most 20 digits as nine bytes in two's complement.
Strtoll(digits, minus) ==
  LET place(b, r) == LET n == 10 * b + r.carry
                     IN  [bytes |-> <<n % 256>> \o r.bytes, carry |-> n \div 256]
      step(x, d) == FoldRight(place, x, [bytes |-> <<>>, carry |-> IF minus THEN 48 - d ELSE d - 48]).bytes
  IN  FoldLeft(step, Zero, digits)

\* get_ubjson_high_precision_number: the lexer scans one number, then the end.
\* A zero ends its input.  What double strtod makes of a text is left open.
HighPrecision(text) ==
  LET end == SelectInSeq(text, LAMBDA c : c = 0)
      whole == IF end = 0 THEN text ELSE SubSeq(text, 1, end - 1)
      bom == <<239, 187, 191>>
      number == Grammar!Trim(IF IsPrefix(bom, whole) THEN SubSeq(whole, 4, Len(whole)) ELSE whole)
      digits == Grammar!Unsigned(number)
      minus == digits # number
      x == Strtoll(digits, minus)
      integer == Grammar!IsWhole(digits) /\ Len(digits) <= 20
  IN  CASE ~ Grammar!IsFloat(number) -> Throws(115)
        [] integer /\ ~ minus /\ FitsUnsigned(x, 8) -> [unsigned |-> x]
        [] integer /\ minus /\ FitsSigned(x, 8)     -> [integer |-> x]
        [] OTHER -> [strtod |-> number]

RECURSIVE UbjsonValue(_, _, _, _)
RECURSIVE UbjsonElement(_, _, _, _)

\* An element: of the type given, or of the type that its marker says.
UbjsonElement(s, i, f, type) ==
  IF type # 0 THEN UbjsonValue(s, i, f, type)
  ELSE LET j == Noops(s, i) IN UbjsonValue(s, j + 1, f, Next1(s, j))

RECURSIVE UbjsonItems(_, _, _, _, _)
UbjsonItems(s, f, n, type, r) ==
  IF Failed(r) \/ n = 0 THEN r
  ELSE UbjsonItems(s, f, n - 1, type, WithItem(r, UbjsonElement(s, r.at, f, type)))

RECURSIVE UbjsonItemsToEnd(_, _, _)
UbjsonItemsToEnd(s, f, r) ==
  IF Failed(r) THEN r ELSE IF Next1(s, r.at) = Mark["]"] THEN Got(r.value, r.at + 1)
  ELSE UbjsonItemsToEnd(s, f, AtMarker(s, WithItem(r, UbjsonValue(s, r.at + 1, f, Next1(s, r.at)))))

UbjsonPair(s, f, type, r) ==
  WithPair(r, UbjsonString(s, r.at, f), LAMBDA k, i : UbjsonElement(s, i, f, type))

RECURSIVE UbjsonPairs(_, _, _, _, _)
UbjsonPairs(s, f, n, type, r) ==
  IF Failed(r) \/ n = 0 THEN r ELSE UbjsonPairs(s, f, n - 1, type, UbjsonPair(s, f, type, r))

RECURSIVE UbjsonPairsToEnd(_, _, _)
UbjsonPairsToEnd(s, f, r) ==
  IF Failed(r) THEN r ELSE IF Next1(s, r.at) = Mark["}"] THEN Got(r.value, r.at + 1)
  ELSE UbjsonPairsToEnd(s, f, AtMarker(s, UbjsonPair(s, f, 0, r)))

\* bjd_types_map
NdarrayName(type) == {name \in DOMAIN BjdataTypes : Mark[BjdataTypes[name]] = type}

\* An ndarray becomes an object of three arrays.
ReadNdarray(s, r, f) ==
  LET name == CHOOSE n \in NdarrayName(r.type) : TRUE
      type == IF r.type = Mark["C"] THEN Mark["U"] ELSE r.type
      object(data) == (SizeKey :> [array |-> [k \in DOMAIN r.dims |-> [unsigned |-> r.dims[k]]]])
                      @@ (TypeKey :> [string |-> name]) @@ (DataKey :> data)
  IN  IF NdarrayName(r.type) = {} THEN Throws(112)
      ELSE IF TooLong(r.value, MaxArray) THEN Throws(408)
      ELSE Then(UbjsonItems(s, f, Count(r.value), type, Got(<<>>, r.at)), LAMBDA v, j :
             Got([object |-> object([array |-> v])], j))

\* get_ubjson_array
ArrayOfSize(s, f, r) ==
  CASE Failed(r)      -> r
    [] r.dims # <<>>  -> ReadNdarray(s, r, f)
    [] r.value = Npos -> Finished(UbjsonItemsToEnd(s, f, Got(<<>>, r.at)), "array")
    [] TooLong(r.value, MaxArray) -> Throws(408)
    [] r.type = Mark["N"] -> Got([array |-> <<>>], r.at)
    [] OTHER -> Finished(UbjsonItems(s, f, Count(r.value), r.type, Got(<<>>, r.at)), "array")

UbjsonReadArray(s, i, f) == ArrayOfSize(s, f, UbjsonSizeType(s, i, f, FALSE))

\* get_ubjson_object
ObjectOfSize(s, f, r) ==
  CASE Failed(r)      -> r
    [] r.dims # <<>>  -> Throws(112)
    [] r.value = Npos -> Finished(UbjsonPairsToEnd(s, f, Got(<<>>, r.at)), "object")
    [] TooLong(r.value, MaxObject) -> Throws(408)
    [] OTHER -> Finished(UbjsonPairs(s, f, Count(r.value), r.type, Got(<<>>, r.at)), "object")

UbjsonReadObject(s, i, f) == ObjectOfSize(s, f, UbjsonSizeType(s, i, f, FALSE))

UbjsonFloat(s, i, f, w) ==
  Then(Taken(s, i, w), LAMBDA n, j :
    LET big == Ordered(n, f.bjdata)
    IN  Got([float |-> CASE w = 2 -> FromHalf(big) [] w = 4 -> FromFloat(big) [] w = 8 -> big], j))

UbjsonChar(s, i) ==
  Then(Taken(s, i, 1), LAMBDA c, j : IF c[1] > 127 THEN Throws(113) ELSE Got([string |-> c], j))

UbjsonHighPrecision(s, i, f) ==
  Then(UbjsonSizeValue(s, i, f, 0, TRUE), LAMBDA n, j :
    Then(Taken(s, j, Count(n)), LAMBDA text, k :
      LET v == HighPrecision(text) IN IF Failed(v) THEN v ELSE Got(v, k)))

\* get_ubjson_value: the marker is consumed.
UbjsonValue(s, i, f, marker) ==
  LET is(c) == marker = Mark[c]
      type == IntegerType(marker, f)
  IN  CASE marker = EOF -> Throws(110)
        [] type # <<>>  -> Then(UbjsonNumber(s, i, f, type[1]), LAMBDA n, j :
                             Got(IF type[1][3] THEN [integer |-> n] ELSE [unsigned |-> n], j))
        [] is("T") \/ is("F") -> Got([boolean |-> is("T")], i)
        [] is("Z") -> Got(Nothing, i)
        [] is("h") /\ f.bjdata -> UbjsonFloat(s, i, f, 2)
        [] is("d") -> UbjsonFloat(s, i, f, 4)
        [] is("D") -> UbjsonFloat(s, i, f, 8)
        [] is("H") -> UbjsonHighPrecision(s, i, f)
        [] is("C") -> UbjsonChar(s, i)
        [] is("S") -> Then(UbjsonString(s, i, f), LAMBDA v, j : Got([string |-> v], j))
        [] is("[") -> UbjsonReadArray(s, i, f)
        [] is("{") -> UbjsonReadObject(s, i, f)
        [] OTHER   -> Throws(112)
-----------------------------------------------------------------------------
(* BSON *)

\* get_number<std::int32_t, true>
LittleSigned(s, i, n) == Then(Taken(s, i, n), LAMBDA b, j : Got(Signed(Reverse(b)), j))

\* get_bson_cstr
CString(s, i) ==
  IF \A k \in (i + 1)..Len(s) : s[k] # 0 THEN Throws(110)
  ELSE LET end == CHOOSE k \in (i + 1)..Len(s) : s[k] = 0 /\ \A m \in (i + 1)..(k - 1) : s[m] # 0
       IN  Got(SubSeq(s, i + 1, end - 1), end)

\* get_bson_string: the byte behind the string is not looked at.
BsonReadString(s, i) ==
  Then(LittleSigned(s, i, 4), LAMBDA n, j :
    IF IsNegative(n) \/ n = Zero THEN Throws(112)
    ELSE Then(Taken(s, j, Count(n) - 1), LAMBDA v, k :
           IF k = Len(s) THEN Discarded ELSE Got([string |-> v], k + 1)))

\* get_bson_binary
BsonReadBinary(s, i) ==
  Then(LittleSigned(s, i, 4), LAMBDA n, j :
    IF IsNegative(n) THEN Throws(112)
    ELSE Then(Taken(s, j, 1), LAMBDA type, k :
           Then(Taken(s, k, Count(n)), LAMBDA v, m :
             Got([binary |-> v, subtype |-> Unsigned(type)], m))))

RECURSIVE BsonDocument(_, _, _)

\* parse_bson_element_internal.  A boolean at the end of the input is true.
BsonReadElement(s, i, type) ==
  CASE type = 1  -> Then(Taken(s, i, 8), LAMBDA n, j : Got([float |-> Reverse(n)], j))
    [] type = 2  -> BsonReadString(s, i)
    [] type = 3  -> BsonDocument(s, i, FALSE)
    [] type = 4  -> BsonDocument(s, i, TRUE)
    [] type = 5  -> BsonReadBinary(s, i)
    [] type = 8  -> Got([boolean |-> Next1(s, i) # 0], i + 1)
    [] type = 10 -> Got(Nothing, i)
    [] type = 16 -> Then(LittleSigned(s, i, 4), LAMBDA n, j : Got([integer |-> n], j))
    [] type = 18 -> Then(LittleSigned(s, i, 8), LAMBDA n, j : Got([integer |-> n], j))
    [] OTHER     -> Throws(114)

\* parse_bson_element_list: the keys of an array are dropped.
RECURSIVE BsonList(_, _, _)
BsonList(s, array, r) ==
  LET type == Next1(s, r.at)
      key == CString(s, r.at + 1)
      element(k, i) == BsonReadElement(s, i, type)
  IN  CASE Failed(r)  -> r
        [] type = 0   -> Got(r.value, r.at + 1)
        [] type = EOF -> Throws(110)
        [] array      -> BsonList(s, array, WithItem(r, Then(key, element)))
        [] OTHER      -> BsonList(s, array, WithPair(r, key, element))

\* parse_bson_internal and parse_bson_array.  The size of a document is not used.
BsonDocument(s, i, array) ==
  Then(Taken(s, i, 4), LAMBDA size, j :
    Finished(BsonList(s, array, Got(<<>>, j)), IF array THEN "array" ELSE "object"))
-----------------------------------------------------------------------------
Read(s, f, i) ==
  CASE f.name = "cbor"    -> ReadCbor(s, f, i)
    [] f.name = "msgpack" -> ReadMsgpack(s, f, i)
    [] f.name = "bson"    -> BsonDocument(s, i, FALSE)
    [] f.name \in {"ubjson", "bjdata"} -> UbjsonElement(s, i, f, 0)

ReadKey(s, f, i) == IF f.name = "cbor" THEN CborBytes(s, i, 3) ELSE ReadMsgpackString(s, i)

LenientParsed(s, f) ==  \* mutant: what comes behind the value is not looked at
  Then(Read(s, f, 0), LAMBDA v, i : [value |-> v])

\* sax_parse, and so from_cbor and the others: all bytes must have been used.
Parsed(s, f) ==
  Then(Read(s, f, 0), LAMBDA v, i :
    IF (IF f.name \in {"ubjson", "bjdata"} THEN Noops(s, i) ELSE i) < Len(s)
    THEN Throws(110) ELSE [value |-> v])
=============================================================================
