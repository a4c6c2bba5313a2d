------------------------------ MODULE JsonValue -------------------------------
(***************************************************************************)
(* A basic_json value is a record with one field, named for its value_t;   *)
(* an object_t is a function from keys.  Characters are bytes.  A number   *)
(* of the two integer types is its value; a floating-point number is the   *)
(* decimal it was read from, with so few digits that no double rounds it.  *)
(*                                                                         *)
(* serializer::dump without indentation is modelled by what it writes.     *)
(***************************************************************************)
EXTENDS Integers, Sequences, FiniteSets, SequencesExt

CONSTANTS
  MaxUnsigned,   \* the largest number_unsigned_t
  MinInteger,    \* the smallest number_integer_t
  MaxMagnitude,  \* digits of the largest number_float_t
  MaxExp         \* digits10 of number_float_t

ASSUME NumberAssumption ==
  /\ MaxUnsigned \in Nat /\ MinInteger \in Int \ Nat
  /\ MaxMagnitude \in Nat \ {0} /\ MaxExp \in Nat \ {0}

MinExp == -4   \* kMinExp

Byte == 0..255

Upper == " !\"#$%&'()*+,-./0123456789:;<=>?@ABCDEFGHIJKLMNOPQRSTUVWXYZ[\\]^_"
Lower == "abcdefghijklmnopqrstuvwxyz{|}~"

\* The bytes of a text of printable ASCII characters.
Bytes(s) ==
  [i \in 1..Len(s) |->
     CHOOSE c \in 32..126 : \/ c < 96 /\ SubSeq(Upper, c - 31, c - 31) = SubSeq(s, i, i)
                            \/ c > 96 /\ SubSeq(Lower, c - 96, c - 96) = SubSeq(s, i, i)]

NullText == Bytes("null")
TrueText == Bytes("true")
FalseText == Bytes("false")

Quote == 34
Backslash == 92
Digits == 48..57

Nothing == [null |-> TRUE]
IsObject(v) == "object" \in DOMAIN v
IsArray(v) == "array" \in DOMAIN v
IsString(v) == "string" \in DOMAIN v

\* An exception instead of a result, by its number.
Throws(n) == [throws |-> n]
Failed(r) == "throws" \in DOMAIN r

\* The order of std::map<std::string, _>.
Before(a, b) ==
  \E i \in 1..Len(b) :
    /\ Len(a) >= i - 1
    /\ SubSeq(a, 1, i - 1) = SubSeq(b, 1, i - 1)
    /\ Len(a) >= i => a[i] < b[i]

Sorted(keys, k) ==
  SelectSeq(keys, LAMBDA l : Before(l, k)) \o <<k>> \o SelectSeq(keys, LAMBDA l : Before(k, l))
Keys(object) == FoldSet(LAMBDA k, keys : Sorted(keys, k), <<>>, DOMAIN object)
-----------------------------------------------------------------------------
(* Numbers *)

\* dump_integer and std::to_string of a size_t.
Decimal[n \in Nat] == IF n < 10 THEN <<48 + n>> ELSE Append(Decimal[n \div 10], 48 + (n % 10))

DumpInteger(n) == IF n < 0 THEN <<45>> \o Decimal[-n] ELSE Decimal[n]

\* strtoull of digits, as far as it does not overflow.
Natural(digits) == FoldLeft(LAMBDA n, d : 10 * n + d - 48, 0, digits)

\* strtoll of digits with or without a minus sign.
Integer(text) == IF Head(text) = 45 THEN - Natural(Tail(text)) ELSE Natural(text)

\* A number text as strtod splits it: a sign, digits around the decimal point
\* and an exponent.
Pieces(text) ==
  LET sign == IF Head(text) = 45 THEN 1 ELSE 0
      e == SelectInSeq(text, LAMBDA c : c \in {69, 101})
      mantissa == SubSeq(text, sign + 1, IF e = 0 THEN Len(text) ELSE e - 1)
      point == SelectInSeq(mantissa, LAMBDA c : c = 46)
      exponent == IF e = 0 THEN <<48>> ELSE SubSeq(text, e + 1, Len(text))
  IN  [sign     |-> sign,
       digits   |-> SelectSeq(mantissa, LAMBDA c : c # 46),
       whole    |-> IF point = 0 THEN Len(mantissa) ELSE point - 1,
       exponent |-> Integer(IF Head(exponent) = 43 THEN Tail(exponent) ELSE exponent)]

\* A double by its significant digits, the first of them point places before
\* the decimal point; zero has none.
Float(text) ==
  LET p == Pieces(text)
      heavy == {i \in DOMAIN p.digits : p.digits[i] # 48}
      first == CHOOSE i \in heavy : \A j \in heavy : i <= j
      last  == CHOOSE i \in heavy : \A j \in heavy : i >= j
  IN  IF heavy = {} THEN [sign |-> p.sign, digits |-> <<>>, point |-> 0]
      ELSE [sign   |-> p.sign,
            digits |-> SubSeq(p.digits, first, last),
            point  |-> p.whole + p.exponent - (first - 1)]

\* A double without its fraction.
Truncated(f) ==
  LET n == Natural([i \in 1..f.point |-> IF i \in DOMAIN f.digits THEN f.digits[i] ELSE 48])
  IN  IF f.sign = 1 THEN -n ELSE n

\* append_exponent
Exponent(e) ==
  LET digits == Decimal[IF e < 0 THEN -e ELSE e]
  IN  <<IF e < 0 THEN 45 ELSE 43>> \o (IF Len(digits) = 1 THEN <<48>> ELSE <<>>) \o digits

\* format_buffer: 0.d * 10^n.
FormatBuffer(d, n) ==
  LET k == Len(d)
      zeros(m) == [i \in 1..m |-> 48]
  IN  CASE k <= n /\ n <= MaxExp           -> d \o zeros(n - k) \o <<46, 48>>
        [] 0 < n /\ n < k /\ n <= MaxExp   -> SubSeq(d, 1, n) \o <<46>> \o SubSeq(d, n + 1, k)
        [] MinExp < n /\ n <= 0            -> <<48, 46>> \o zeros(-n) \o d
        [] OTHER -> <<d[1]>> \o (IF k = 1 THEN <<>> ELSE <<46>> \o Tail(d))
                    \o <<101>> \o Exponent(n - 1)

\* to_chars; grisu2 finds the significant digits of the text it came from.
DumpFloat(f) ==
  (IF f.sign = 1 THEN <<45>> ELSE <<>>)
  \o (IF f.digits = <<>> THEN <<48, 46, 48>> ELSE FormatBuffer(f.digits, f.point))
-----------------------------------------------------------------------------
(* Strings *)

\* The byte classes of the table utf8d.
ClassOf(b) ==
  CASE b \in 0..127            -> 0
    [] b \in 128..143          -> 1
    [] b \in 144..159          -> 9
    [] b \in 160..191          -> 7
    [] b \in 194..223          -> 2
    [] b = 224                 -> 10
    [] b \in 225..239 \ {237}  -> 3
    [] b = 237                 -> 4
    [] b = 240                 -> 11
    [] b \in 241..243          -> 6
    [] b = 244                 -> 5
    [] OTHER                   -> 8

Accept == 0
Reject == 1

\* State, class, next state.  Everything else is rejected.
Moves ==
  {<<0, 0, 0>>, <<0, 2, 2>>, <<0, 3, 3>>, <<0, 4, 5>>, <<0, 5, 8>>, <<0, 6, 7>>,
   <<0, 10, 4>>, <<0, 11, 6>>,
   <<2, 1, 0>>, <<2, 7, 0>>, <<2, 9, 0>>,
   <<3, 1, 2>>, <<3, 7, 2>>, <<3, 9, 2>>,
   <<4, 7, 2>>, <<5, 1, 2>>, <<5, 9, 2>>,
   <<6, 7, 3>>, <<6, 9, 3>>, <<7, 1, 3>>, <<7, 7, 3>>, <<7, 9, 3>>, <<8, 1, 3>>}

Decode(state, byte) ==
  LET to == {m[3] : m \in {x \in Moves : x[1] = state /\ x[2] = ClassOf(byte)}}
  IN  IF to = {} THEN Reject ELSE CHOOSE s \in to : TRUE

\* What dump_escaped writes for a code point of one byte.
HexDigit(n) == IF n < 10 THEN 48 + n ELSE 87 + n

EscapedButQuotes(b) ==  \* mutant: quotes in a string are left as they are
  IF b = Quote THEN <<b>>
  ELSE IF b < 32 THEN <<Backslash, 117, 48, 48, 48 + b \div 16, HexDigit(b % 16)>>
  ELSE IF b = Backslash THEN <<b, b>> ELSE <<b>>

Escaped(b) ==
  CASE b = 8         -> <<Backslash, 98>>
    [] b = 9         -> <<Backslash, 116>>
    [] b = 10        -> <<Backslash, 110>>
    [] b = 12        -> <<Backslash, 102>>
    [] b = 13        -> <<Backslash, 114>>
    [] b \in {Quote, Backslash} -> <<Backslash, b>>
    [] OTHER         -> IF b < 32
                        THEN <<Backslash, 117, 48, 48, 48 + b \div 16, HexDigit(b % 16)>>
                        ELSE <<b>>

\* dump_escaped: the text written so far and the state of the decoder.
DumpByte(done, b) ==
  [text  |-> done.text \o (IF done.state = Accept THEN Escaped(b) ELSE <<b>>),
   state |-> IF done.state = Reject THEN Reject ELSE Decode(done.state, b)]

DumpEscaped(s) == FoldLeft(DumpByte, [text |-> <<>>, state |-> Accept], s)

Quoted(s) == <<Quote>> \o DumpEscaped(s).text \o <<Quote>>
-----------------------------------------------------------------------------
(* Values *)

Separated(texts) ==
  FlattenSeq([i \in DOMAIN texts |-> IF i = 1 THEN texts[i] ELSE <<44>> \o texts[i]])

RECURSIVE Dump(_)
Dump(v) ==
  CASE IsObject(v) ->
         LET keys == Keys(v.object)
         IN  <<123>>
             \o Separated([i \in DOMAIN keys |->
                             Quoted(keys[i]) \o <<58>> \o Dump(v.object[keys[i]])])
             \o <<125>>
    [] IsArray(v) -> <<91>> \o Separated([i \in DOMAIN v.array |-> Dump(v.array[i])]) \o <<93>>
    [] IsString(v)             -> Quoted(v.string)
    [] "integer" \in DOMAIN v  -> DumpInteger(v.integer)
    [] "float" \in DOMAIN v    -> DumpFloat(v.float)
    [] "boolean" \in DOMAIN v  -> IF v.boolean THEN TrueText ELSE FalseText
    [] OTHER                   -> NullText

\* type_error.316: some text in it is not UTF-8.
RECURSIVE DumpThrows(_)
DumpThrows(v) ==
  \/ IsObject(v) /\ \E k \in DOMAIN v.object :
       DumpEscaped(k).state # Accept \/ DumpThrows(v.object[k])
  \/ IsArray(v) /\ \E i \in DOMAIN v.array : DumpThrows(v.array[i])
  \/ IsString(v) /\ DumpEscaped(v.string).state # Accept
=============================================================================
