----------------------------- MODULE JsonGrammar ------------------------------
(***************************************************************************)
(* The reference for the reader: what a text denotes by the grammar of     *)
(* RFC 8259, which scan_string and scan_number name in their comments.     *)
(* The texts are split declaratively; none of it follows the code.         *)
(*                                                                         *)
(* Denoted(s) is the set of the values of s: one, or none if s is no JSON  *)
(* text or has a number no double can hold.                                *)
(***************************************************************************)
EXTENDS JsonValue

Blank == {9, 10, 13, 32}

Solid(s, i) == s[i] \notin Blank

Trim(s) ==
  IF \A i \in DOMAIN s : ~ Solid(s, i) THEN <<>>
  ELSE SubSeq(s, CHOOSE i \in DOMAIN s : Solid(s, i) /\ \A j \in 1..(i - 1) : ~ Solid(s, j),
                 CHOOSE i \in DOMAIN s : Solid(s, i) /\ \A j \in (i + 1)..Len(s) : ~ Solid(s, j))

Upto(s, n) == SubSeq(s, 1, n)
Behind(s, n) == SubSeq(s, n + 1, Len(s))
-----------------------------------------------------------------------------
(* Numbers *)

AllDigits(s) == s # <<>> /\ \A i \in DOMAIN s : s[i] \in Digits

IsWhole(s) == AllDigits(s) /\ (Head(s) = 48 => Len(s) = 1)
IsFraction(s) == s # <<>> /\ Head(s) = 46 /\ AllDigits(Tail(s))
IsExponent(s) ==
  /\ s # <<>> /\ Head(s) \in {69, 101}
  /\ \/ AllDigits(Tail(s))
     \/ Len(s) > 2 /\ s[2] \in {43, 45} /\ AllDigits(Behind(s, 2))

Unsigned(s) == IF s # <<>> /\ Head(s) = 45 THEN Tail(s) ELSE s

IsFloat(s) ==
  LET u == Unsigned(s)
  IN  \E i \in DOMAIN u :
        /\ IsWhole(Upto(u, i))
        /\ \E j \in i..Len(u) :
             /\ j > i => IsFraction(SubSeq(u, i + 1, j))
             /\ j < Len(u) => IsExponent(Behind(u, j))

Numbers(s) ==
  IF IsWhole(Unsigned(s)) /\ Integer(s) \in MinInteger..MaxUnsigned
  THEN {[integer |-> Integer(s)]}
  ELSE IF IsFloat(s) /\ Float(s).point <= MaxMagnitude THEN {[float |-> Float(s)]} ELSE {}
-----------------------------------------------------------------------------
(* Strings *)

Surrogates == 55296..57343

Utf8(c) ==
  CASE c < 128   -> <<c>>
    [] c \in 128..2047 -> <<192 + c \div 64, 128 + (c % 64)>>
    [] c \in 2048..65535 ->
         <<224 + c \div 4096, 128 + ((c \div 64) % 64), 128 + (c % 64)>>
    [] OTHER -> <<240 + c \div 262144, 128 + ((c \div 4096) % 64),
                  128 + ((c \div 64) % 64), 128 + (c % 64)>>

\* The number that the bytes of a character carry.
Carried(s) ==
  LET lead == CASE Len(s) = 1 -> s[1] [] Len(s) = 2 -> s[1] - 192
                [] Len(s) = 3 -> s[1] - 224 [] OTHER -> s[1] - 240
  IN  FoldLeft(LAMBDA n, b : 64 * n + b - 128, lead, Tail(s))

IsCharacter(s) ==
  /\ Len(s) \in 1..4
  /\ Len(s) > 1 => Head(s) > 127
  /\ Carried(s) \in 32..1114111
  /\ Carried(s) \notin Surrogates \cup {Quote, Backslash}
  /\ Utf8(Carried(s)) = s

ShortEscapes == Bytes("\"\\/bfnrt")
Meanings == <<34, 92, 47, 8, 12, 10, 13, 9>>

HexValue(b) ==
  CASE b \in 48..57  -> b - 48
    [] b \in 65..70  -> b - 55
    [] b \in 97..102 -> b - 87
    [] OTHER         -> -1

IsUnit(s) ==
  /\ Len(s) = 6 /\ s[1] = Backslash /\ s[2] = 117
  /\ \A i \in 3..6 : HexValue(s[i]) >= 0
Unit(s) == FoldLeft(LAMBDA n, b : 16 * n + HexValue(b), 0, Behind(s, 2))

IsPair(s) ==
  /\ Len(s) = 12 /\ IsUnit(Upto(s, 6)) /\ IsUnit(Behind(s, 6))
  /\ Unit(Upto(s, 6)) \in 55296..56319
  /\ Unit(Behind(s, 6)) \in 56320..57343

\* The bytes that a piece of a string stands for, if it is one character.
Character(s) ==
  CASE IsCharacter(s) -> {s}
    [] Len(s) = 2 /\ s[1] = Backslash ->
         {<<Meanings[i]>> : i \in {k \in DOMAIN Meanings : ShortEscapes[k] = s[2]}}
    [] IsUnit(s) -> IF Unit(s) \in Surrogates THEN {} ELSE {Utf8(Unit(s))}
    [] IsPair(s) ->
         {Utf8(65536 + 1024 * (Unit(Upto(s, 6)) - 55296) + Unit(Behind(s, 6)) - 56320)}
    [] OTHER -> {}

RECURSIVE Characters(_)
Characters(s) ==
  IF s = <<>> THEN {<<>>}
  ELSE UNION {{c \o r : c \in Character(Upto(s, n)), r \in Characters(Behind(s, n))} :
                n \in {k \in {1, 2, 3, 4, 6, 12} : k <= Len(s) /\ Character(Upto(s, k)) # {}}}

Strings(s) ==
  IF Len(s) >= 2 /\ Head(s) = Quote /\ Last(s) = Quote
  THEN Characters(SubSeq(s, 2, Len(s) - 1)) ELSE {}
-----------------------------------------------------------------------------
(* Values *)

Inside(s) == Trim(SubSeq(s, 2, Len(s) - 1))
Enclosed(s, open, close) == Len(s) >= 2 /\ Head(s) = open /\ Last(s) = close
Marks(s, c) == {i \in DOMAIN s : s[i] = c}

\* Where a key is given twice the last value counts.
ObjectOf(members) ==
  LET last(k) == CHOOSE i \in DOMAIN members :
                   /\ members[i][1] = k
                   /\ \A j \in DOMAIN members : members[j][1] = k => j <= i
  IN  [k \in {members[i][1] : i \in DOMAIN members} |-> members[last(k)][2]]

RECURSIVE Denoted(_), Elements(_), Members(_)

Elements(s) ==
  {<<v>> : v \in Denoted(s)}
  \cup UNION {LET first == Denoted(Upto(s, i - 1))
              IN  IF first = {} THEN {}
                  ELSE {<<v>> \o r : v \in first, r \in Elements(Behind(s, i))} :
                i \in Marks(s, 44)}

Member(s) ==
  UNION {LET keys == Strings(Trim(Upto(s, i - 1)))
         IN  IF keys = {} THEN {}
             ELSE {<<k, v>> : k \in keys, v \in Denoted(Behind(s, i))} :
           i \in Marks(s, 58)}

Members(s) ==
  {<<m>> : m \in Member(s)}
  \cup UNION {LET first == Member(Upto(s, i - 1))
              IN  IF first = {} THEN {}
                  ELSE {<<m>> \o r : m \in first, r \in Members(Behind(s, i))} :
                i \in Marks(s, 44)}

Denoted(text) ==
  LET s == Trim(text)
  IN  CASE s = <<>> -> {}
        [] s = NullText -> {Nothing}
        [] s = TrueText -> {[boolean |-> TRUE]}
        [] s = FalseText -> {[boolean |-> FALSE]}
        [] Enclosed(s, 91, 93) ->
             IF Inside(s) = <<>> THEN {[array |-> <<>>]}
             ELSE {[array |-> vs] : vs \in Elements(Inside(s))}
        [] Enclosed(s, 123, 125) ->
             IF Inside(s) = <<>> THEN {[object |-> <<>>]}
             ELSE {[object |-> ObjectOf(ms)] : ms \in Members(Inside(s))}
        [] Head(s) = Quote -> {[string |-> t] : t \in Strings(s)}
        [] OTHER -> Numbers(s)

\* The reader drops a byte order mark and takes NUL for the end of the input.
Reads(input) ==
  LET bom == <<239, 187, 191>>
      text == IF IsPrefix(bom, input) THEN Behind(input, 3) ELSE input
      nul == SelectInSeq(text, LAMBDA b : b = 0)
  IN  Denoted(IF nul = 0 THEN text ELSE Upto(text, nul - 1))
=============================================================================
