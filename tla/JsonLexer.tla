------------------------------ MODULE JsonLexer -------------------------------
(***************************************************************************)
(* lexer::scan on an istream: a step reads one character with get, and     *)
(* perhaps ungets it.  A place is a point of scan_string, scan_number and  *)
(* so on that waits for the next character; "token" is the return.         *)
(* Comments are off and the decimal point is that of the "C" locale;       *)
(* messages and token_string, which only they use, are left out.           *)
(***************************************************************************)
EXTENDS JsonValue

CONSTANT Inputs   \* the contents of files

ASSUME InputAssumption == Inputs \subseteq Seq(Byte)

EOF == -1

VARIABLES
  input,         \* the file
  taken,         \* characters sbumpc has given
  current, next_unget,
  position,      \* [total, column, lines]
  at,
  token,         \* what scan returns
  token_buffer,
  number_type,
  expected,      \* sets of characters a literal or a UTF-8 sequence goes on with
  codepoint, digitsLeft,  \* get_codepoint
  codepoint1     \* a high surrogate that waits for its other half, or 0

scratch == <<number_type, expected, codepoint, digitsLeft, codepoint1>>
lexerVars == <<input, taken, current, next_unget, position, at, token, token_buffer, scratch>>

NumberPlaces == {"minus", "zero", "any1", "decimal1", "decimal2", "exponent", "sign", "any2"}
Places == NumberPlaces \cup {"bom", "bom2", "bom3", "blank", "literal", "string", "escape",
                             "hex", "low", "low2", "utf8", "token"}

LexerInit ==
  /\ input \in Inputs
  /\ taken = 0
  /\ current = EOF
  /\ next_unget = FALSE
  /\ position = [total |-> 0, column |-> 0, lines |-> 0]
  /\ at = "bom"
  /\ token = "uninitialized"
  /\ token_buffer = <<>>
  /\ number_type = "value_unsigned"
  /\ expected = <<>>
  /\ codepoint = 0
  /\ digitsLeft = 0
  /\ codepoint1 = 0
-----------------------------------------------------------------------------
(* Input *)

\* What get returns.
Given ==
  CASE next_unget -> current
    [] ~ next_unget /\ taken < Len(input) -> input[taken + 1]
    [] OTHER -> EOF

ForwardKeepsColumn(p) ==  \* mutant: a line end does not reset the column
  [total  |-> p.total + 1,
   column |-> p.column + 1,
   lines  |-> IF Given = 10 THEN p.lines + 1 ELSE p.lines]

Forward(p) ==
  [total  |-> p.total + 1,
   column |-> IF Given = 10 THEN 0 ELSE p.column + 1,
   lines  |-> IF Given = 10 THEN p.lines + 1 ELSE p.lines]

\* The column of an ungotten line end is lost.
Backward(p) ==
  [total  |-> p.total - 1,
   column |-> IF p.column = 0 THEN 0 ELSE p.column - 1,
   lines  |-> IF p.column = 0 /\ p.lines > 0 THEN p.lines - 1 ELSE p.lines]

Take ==
  /\ current' = Given
  /\ taken' = IF next_unget \/ Given = EOF THEN taken ELSE taken + 1
  /\ UNCHANGED input

Get ==
  /\ Take
  /\ next_unget' = FALSE
  /\ position' = Forward(position)

GetAndUnget ==
  /\ Take
  /\ next_unget' = TRUE
  /\ position' = Backward(Forward(position))

Goto(p) == at' = p /\ UNCHANGED token
Return(t) == at' = "token" /\ token' = t
Fail == Return("parse_error")

Add(bytes) == token_buffer' = token_buffer \o bytes
Keep == UNCHANGED token_buffer
-----------------------------------------------------------------------------
(* skip_bom, skip_whitespace and the first character of a token *)

NoBom ==
  /\ at = "bom"
  /\ Given # 239
  /\ GetAndUnget
  /\ Goto("blank")
  /\ Keep /\ UNCHANGED scratch

Bom(p, c, next) ==
  /\ at = p
  /\ (p = "bom") => Given = c
  /\ Get
  /\ IF Given = c THEN Goto(next) ELSE Fail
  /\ Keep /\ UNCHANGED scratch

SkipBom == NoBom \/ Bom("bom", 239, "bom2") \/ Bom("bom2", 187, "bom3") \/ Bom("bom3", 191, "blank")

SkipWhitespace ==
  /\ at = "blank"
  /\ Given \in {9, 10, 13, 32}
  /\ Get
  /\ Goto("blank")
  /\ Keep /\ UNCHANGED scratch

Structural ==
  {<<91, "begin_array">>, <<93, "end_array">>, <<123, "begin_object">>, <<125, "end_object">>,
   <<58, "name_separator">>, <<44, "value_separator">>, <<0, "end_of_input">>,
   <<EOF, "end_of_input">>}

ScanStructural ==
  /\ at = "blank"
  /\ \E s \in Structural : s[1] = Given /\ Return(s[2])
  /\ Get
  /\ Keep /\ UNCHANGED scratch

Literals ==
  {[text |-> TrueText, token |-> "literal_true"],
   [text |-> FalseText, token |-> "literal_false"],
   [text |-> NullText, token |-> "literal_null"]}

Singly(bytes) == [i \in DOMAIN bytes |-> {bytes[i]}]

BeginLiteral ==
  /\ at = "blank"
  /\ \E l \in Literals : /\ Given = Head(l.text)
                         /\ expected' = Singly(Tail(l.text))
                         /\ token' = l.token
  /\ Get
  /\ at' = "literal"
  /\ Keep /\ UNCHANGED <<number_type, codepoint, digitsLeft, codepoint1>>

\* scan_literal: token is the value to return.
ScanLiteral ==
  /\ at = "literal"
  /\ Get
  /\ IF Given \notin Head(expected) THEN Fail
     ELSE IF Len(expected) = 1 THEN Return(token) ELSE Goto("literal")
  /\ expected' = Tail(expected)
  /\ Keep /\ UNCHANGED <<number_type, codepoint, digitsLeft, codepoint1>>

BeginString ==
  /\ at = "blank"
  /\ Given = Quote
  /\ Get
  /\ token_buffer' = <<>>
  /\ Goto("string")
  /\ UNCHANGED scratch

Unexpected ==
  /\ at = "blank"
  /\ Given \notin {9, 10, 13, 32, Quote, 45} \cup Digits
  /\ \A s \in Structural : s[1] # Given
  /\ \A l \in Literals : Head(l.text) # Given
  /\ Get
  /\ Fail
  /\ Keep /\ UNCHANGED scratch
-----------------------------------------------------------------------------
(* scan_string *)

Control == 0..31
Ascii == 32..127 \ {Quote, Backslash}

ContinuationsLoose(b) ==  \* mutant: three bytes may encode a surrogate
  CASE b \in 194..223 -> <<128..191>>
    [] b = 224 -> <<160..191, 128..191>>
    [] b \in 225..239 -> <<128..191, 128..191>>
    [] b = 240 -> <<144..191, 128..191, 128..191>>
    [] b \in 241..243 -> <<128..191, 128..191, 128..191>>
    [] b = 244 -> <<128..143, 128..191, 128..191>>
    [] OTHER -> <<>>

\* The continuation bytes that scan_string asks for after a lead byte.
Continuations(b) ==
  CASE b \in 194..223 -> <<128..191>>
    [] b = 224 -> <<160..191, 128..191>>
    [] b \in 225..239 \ {237} -> <<128..191, 128..191>>
    [] b = 237 -> <<128..159, 128..191>>
    [] b = 240 -> <<144..191, 128..191, 128..191>>
    [] b \in 241..243 -> <<128..191, 128..191, 128..191>>
    [] b = 244 -> <<128..143, 128..191, 128..191>>
    [] OTHER -> <<>>

Leads == 194..244
IllFormed == Byte \ (0..127 \cup Leads)

ScanString ==
  /\ at = "string"
  /\ Get
  /\ \/ Given = Quote /\ Return("value_string") /\ Keep /\ UNCHANGED scratch
     \/ Given = Backslash /\ Goto("escape") /\ Keep /\ UNCHANGED scratch
     \/ Given \in Ascii /\ Goto("string") /\ Add(<<Given>>) /\ UNCHANGED scratch
     \/ /\ Given \in Leads
        /\ Goto("utf8")
        /\ Add(<<Given>>)
        /\ expected' = Continuations(Given)
        /\ UNCHANGED <<number_type, codepoint, digitsLeft, codepoint1>>
     \/ /\ Given \in Control \cup IllFormed \cup {EOF}
        /\ Fail
        /\ Keep /\ UNCHANGED scratch

\* next_byte_in_range
NextByte ==
  /\ at = "utf8"
  /\ Get
  /\ IF Given \notin Head(expected) THEN Fail /\ Keep
     ELSE Goto(IF Len(expected) = 1 THEN "string" ELSE "utf8") /\ Add(<<Given>>)
  /\ expected' = Tail(expected)
  /\ UNCHANGED <<number_type, codepoint, digitsLeft, codepoint1>>

Escapes ==
  {<<Quote, 34>>, <<Backslash, 92>>, <<47, 47>>, <<98, 8>>, <<102, 12>>, <<110, 10>>,
   <<114, 13>>, <<116, 9>>}

ScanEscape ==
  /\ at = "escape"
  /\ Get
  /\ \/ \E e \in Escapes : Given = e[1] /\ Add(<<e[2]>>) /\ Goto("string") /\ UNCHANGED scratch
     \/ /\ Given = 117
        /\ Goto("hex")
        /\ codepoint' = 0 /\ digitsLeft' = 4 /\ codepoint1' = 0
        /\ Keep /\ UNCHANGED <<number_type, expected>>
     \/ /\ Given # 117 /\ \A e \in Escapes : Given # e[1]
        /\ Fail
        /\ Keep /\ UNCHANGED scratch

HexDigitValue(c) ==
  CASE c \in 48..57  -> c - 48
    [] c \in 65..70  -> c - 55
    [] c \in 97..102 -> c - 87
    [] OTHER         -> -1

IsHigh(c) == c \in 55296..56319   \* D800..DBFF
IsLow(c) == c \in 56320..57343    \* DC00..DFFF

\* The sum of scan_string; it fits in its 32 bits.
Combined(high, low) == high * 1024 + low - 56613888

\* The bytes that scan_string adds for a code point.
Encoded(c) ==
  IF c < 128 THEN <<c>>
  ELSE IF c <= 2047 THEN <<192 + c \div 64, 128 + (c % 64)>>
  ELSE IF c <= 65535
       THEN <<224 + c \div 4096, 128 + ((c \div 64) % 64), 128 + (c % 64)>>
  ELSE <<240 + c \div 262144, 128 + ((c \div 4096) % 64), 128 + ((c \div 64) % 64),
         128 + (c % 64)>>

\* All four digits are read.
EndCodepoint(c) ==
  IF codepoint1 # 0
  THEN /\ IF IsLow(c) THEN Goto("string") /\ Add(Encoded(Combined(codepoint1, c)))
                      ELSE Fail /\ Keep
       /\ codepoint1' = 0
  ELSE /\ \/ IsHigh(c) /\ Goto("low") /\ Keep
          \/ IsLow(c) /\ Fail /\ Keep
          \/ ~ IsHigh(c) /\ ~ IsLow(c) /\ Goto("string") /\ Add(Encoded(c))
       /\ codepoint1' = IF IsHigh(c) THEN c ELSE 0

\* get_codepoint
ScanHex ==
  /\ at = "hex"
  /\ Get
  /\ LET d == HexDigitValue(Given)
         c == 16 * codepoint + d
     IN  IF d < 0 THEN Fail /\ Keep /\ UNCHANGED <<codepoint, digitsLeft, codepoint1>>
         ELSE /\ codepoint' = c
              /\ digitsLeft' = digitsLeft - 1
              /\ IF digitsLeft > 1 THEN Goto("hex") /\ Keep /\ UNCHANGED codepoint1
                                   ELSE EndCodepoint(c)
  /\ UNCHANGED <<number_type, expected>>

\* A backslash and a u before the low surrogate.
ScanLow ==
  /\ at \in {"low", "low2"}
  /\ Get
  /\ \/ at = "low" /\ Given = Backslash /\ Goto("low2") /\ UNCHANGED <<codepoint, digitsLeft>>
     \/ at = "low2" /\ Given = 117 /\ Goto("hex") /\ codepoint' = 0 /\ digitsLeft' = 4
     \/ /\ Given # (IF at = "low" THEN Backslash ELSE 117)
        /\ Fail
        /\ UNCHANGED <<codepoint, digitsLeft>>
  /\ Keep /\ UNCHANGED <<number_type, expected, codepoint1>>
-----------------------------------------------------------------------------
(* scan_number *)

NumberClass(c) ==
  CASE c = 48 -> "0" [] c \in 49..57 -> "1-9" [] c \in {69, 101} -> "e"
    [] c = 43 -> "+" [] c = 45 -> "-" [] c = 46 -> "." [] OTHER -> "other"

BeforeFraction ==
  {<<"blank", "-", "minus">>, <<"blank", "0", "zero">>, <<"blank", "1-9", "any1">>,
   <<"minus", "0", "zero">>, <<"minus", "1-9", "any1">>,
   <<"zero", ".", "decimal1">>, <<"zero", "e", "exponent">>,
   <<"any1", "0", "any1">>, <<"any1", "1-9", "any1">>, <<"any1", ".", "decimal1">>,
   <<"any1", "e", "exponent">>}

FractionAndExponent ==
  {<<"decimal1", "0", "decimal2">>, <<"decimal1", "1-9", "decimal2">>,
   <<"decimal2", "0", "decimal2">>, <<"decimal2", "1-9", "decimal2">>,
   <<"decimal2", "e", "exponent">>,
   <<"exponent", "+", "sign">>, <<"exponent", "-", "sign">>,
   <<"exponent", "0", "any2">>, <<"exponent", "1-9", "any2">>,
   <<"sign", "0", "any2">>, <<"sign", "1-9", "any2">>,
   <<"any2", "0", "any2">>, <<"any2", "1-9", "any2">>}

NumberGoes == BeforeFraction \cup FractionAndExponent

\* The type that a label sets.
TypeAt(place) ==
  CASE place = "minus" -> "value_integer"
    [] place \in {"decimal1", "exponent"} -> "value_float"
    [] at = "blank" -> "value_unsigned"
    [] OTHER -> number_type

GoesOn == \E g \in NumberGoes : g[1] = at /\ g[2] = NumberClass(Given)

ScanNumber ==
  /\ at \in NumberPlaces \cup {"blank"}
  /\ \E g \in NumberGoes :
       /\ g[1] = at /\ g[2] = NumberClass(Given)
       /\ Goto(g[3])
       /\ number_type' = TypeAt(g[3])
  /\ token_buffer' = IF at = "blank" THEN <<Given>> ELSE Append(token_buffer, Given)
  /\ Get
  /\ UNCHANGED <<expected, codepoint, digitsLeft, codepoint1>>

\* strtoull and strtoll; a number they can not represent is a double.
NumberToken(type, text) ==
  CASE type = "value_unsigned" /\ Natural(text) <= MaxUnsigned -> "value_unsigned"
    [] type = "value_integer" /\ Integer(text) >= MinInteger   -> "value_integer"
    [] OTHER -> "value_float"

NumberDone ==
  /\ at \in {"zero", "any1", "decimal2", "any2"}
  /\ ~ GoesOn
  /\ GetAndUnget
  /\ Return(NumberToken(number_type, token_buffer))
  /\ Keep /\ UNCHANGED scratch

NumberFails ==
  /\ at \in {"minus", "decimal1", "exponent", "sign"}
  /\ ~ GoesOn
  /\ Get
  /\ Fail
  /\ Keep /\ UNCHANGED scratch
-----------------------------------------------------------------------------
Scan ==
  \/ SkipBom \/ SkipWhitespace \/ ScanStructural \/ BeginLiteral \/ ScanLiteral
  \/ BeginString \/ ScanString \/ NextByte \/ ScanEscape \/ ScanHex \/ ScanLow
  \/ ScanNumber \/ NumberDone \/ NumberFails \/ Unexpected
=============================================================================
