------------------------------ MODULE JsonBinary ------------------------------
(***************************************************************************)
(* to_cbor, to_msgpack, to_ubjson, to_bjdata, to_bson and their from_*: a  *)
(* value is written, the bytes are read, and then a part of them or one    *)
(* byte more.  Bytes of other origin are read, written again and so on.    *)
(***************************************************************************)
EXTENDS JsonReader

CONSTANTS
  Tasks,     \* what is to be written: [value, format]
  Streams,   \* what is to be read: [bytes, format]
  Trailers,  \* bytes put behind others
  CutEdge    \* a long text is cut only this near to its ends

VARIABLES
  value,     \* the basic_json written
  format,
  bytes,     \* the output of the writer, or the input of the reader
  origin,    \* where these come from: "writer", "stream" or "damaged"
  stage,     \* "value": to be written; "bytes": to be read; "done"
  result     \* what the last call returned or threw

binaryVars == <<value, format, bytes, origin, stage, result>>

BinaryInit ==
  /\ \/ \E t \in Tasks :
          value = t.value /\ format = t.format /\ bytes = <<>> /\ origin = "writer" /\ stage = "value"
     \/ \E t \in Streams :
          value = Nothing /\ format = t.format /\ bytes = t.bytes /\ origin = "stream" /\ stage = "bytes"
  /\ result = [value |-> Nothing]

Write ==
  /\ stage = "value"
  /\ result' = Written(value, format)
  /\ stage' = IF Failed(result') THEN "done" ELSE "bytes"
  /\ bytes' = IF Failed(result') THEN bytes ELSE result'.bytes
  /\ origin' = "writer"
  /\ UNCHANGED <<value, format>>

ReadBack ==
  /\ stage = "bytes"
  /\ result' = Parsed(bytes, format)
  /\ stage' = "done"
  /\ UNCHANGED <<value, format, bytes, origin>>

\* The bytes of a value are damaged, and read again.
Damage(damaged) ==
  /\ stage = "done" /\ origin # "damaged" /\ ~ Failed(result)
  /\ bytes' = damaged
  /\ origin' = "damaged" /\ stage' = "bytes"
  /\ UNCHANGED <<value, format, result>>

Cut == \E n \in 0..(Len(bytes) - 1) :
         /\ n <= CutEdge \/ n >= Len(bytes) - CutEdge
         /\ Damage(SubSeq(bytes, 1, n))

Extend == \E b \in Trailers : Damage(Append(bytes, b))

\* The model has no bits for what strtod made of a text.
RECURSIVE Known(_)
Known(v) ==
  CASE IsArray(v)  -> \A i \in DOMAIN v.array : Known(v.array[i])
    [] IsObject(v) -> \A k \in DOMAIN v.object : Known(v.object[k])
    [] OTHER       -> "strtod" \notin DOMAIN v

WriteAgain ==
  /\ stage = "done" /\ origin = "stream" /\ ~ Failed(result) /\ Known(result.value)
  /\ value' = result.value
  /\ stage' = "value"
  /\ UNCHANGED <<format, bytes, origin, result>>

BinaryNext == Write \/ ReadBack \/ Cut \/ Extend \/ WriteAgain

BinarySpec == BinaryInit /\ [][BinaryNext]_binaryVars
-----------------------------------------------------------------------------
(* What a format keeps of a value *)

\* The numbers of an ndarray, a row of characters for one dimension.
NdarrayRow(v) ==
  LET char == v.object[TypeKey].string = Bytes("char")
      data == v.object[DataKey].array
  IN  [array |-> [i \in DOMAIN data |-> IF char THEN [string |-> Low(data[i].unsigned, 1)] ELSE data[i]]]

IsRow(sizes) ==
  \/ Len(sizes) < 2 \/ (Len(sizes) = 2 /\ sizes[1] = [unsigned |-> Unsigned(<<1>>)])
  \/ [unsigned |-> Zero] \in ToSet(sizes)

Kept(subtype, f) ==
  CASE f.name = "cbor" -> IF f.tags = "store" THEN subtype ELSE <<>>
    [] f.name = "bson" -> IF subtype = <<>> THEN Zero ELSE Unsigned(Low(subtype, 1))
    [] OTHER -> IF subtype = <<>> THEN <<>> ELSE Unsigned(Low(subtype, 1))

RECURSIVE Expected(_, _)
Expected(v, f) ==
  CASE f.name = "bjdata" /\ IsNdarray(v) ->
         IF IsRow(v.object[SizeKey].array) THEN NdarrayRow(v) ELSE v
    [] IsArray(v)  -> [array |-> [i \in DOMAIN v.array |-> Expected(v.array[i], f)]]
    [] IsObject(v) -> [object |-> [k \in DOMAIN v.object |-> Expected(v.object[k], f)]]
    [] IsBinary(v) ->
         IF f.name \in {"ubjson", "bjdata"}
         THEN [array |-> [i \in DOMAIN v.binary |-> [unsigned |-> Unsigned(<<v.binary[i]>>)]]]
         ELSE [v EXCEPT !.subtype = Kept(@, f)]
    [] OTHER -> v

\* Two values are the same by operator==, or both are NaN.
Number(v) == IF IsInteger(v) THEN v.integer ELSE v.unsigned
IsWhole(v) == IsInteger(v) \/ IsUnsigned(v)

RECURSIVE Same(_, _)
Same(a, b) ==
  CASE IsWhole(a) /\ IsWhole(b)   -> Number(a) = Number(b)
    [] IsFloat(a) /\ IsFloat(b)   -> a.float = b.float \/ (IsNaN(a.float) /\ IsNaN(b.float))
    [] IsArray(a) /\ IsArray(b)   -> /\ Len(a.array) = Len(b.array)
                                     /\ \A i \in DOMAIN a.array : Same(a.array[i], b.array[i])
    [] IsObject(a) /\ IsObject(b) -> /\ DOMAIN a.object = DOMAIN b.object
                                     /\ \A k \in DOMAIN a.object : Same(a.object[k], b.object[k])
    [] DOMAIN a = DOMAIN b /\ ~ IsWhole(a) /\ ~ IsFloat(a) -> a = b
    [] OTHER -> FALSE

\* Bytes with a subtype cannot be read when tags are errors, nor can a row of
\* characters that are not ASCII.
RECURSIVE Unreadable(_, _)
Unreadable(v, f) ==
  CASE f.name = "bjdata" /\ IsNdarray(v) ->
         /\ IsRow(v.object[SizeKey].array) /\ v.object[TypeKey].string = Bytes("char")
         /\ \E i \in DOMAIN v.object[DataKey].array : Number(v.object[DataKey].array[i])[9] > 127
    [] IsArray(v)  -> \E i \in DOMAIN v.array : Unreadable(v.array[i], f)
    [] IsObject(v) -> \E k \in DOMAIN v.object : Unreadable(v.object[k], f)
    [] IsBinary(v) -> f.name = "cbor" /\ f.tags = "error" /\ v.subtype # <<>>
    [] OTHER       -> FALSE
-----------------------------------------------------------------------------
(* Properties *)

\* What a writer writes, the reader of the format reads: the same value, but for
\* what the format has no place for.
WrittenReadsBack ==
  stage = "done" /\ origin = "writer" /\ bytes # <<>> =>
    IF Unreadable(value, format) THEN Failed(result)
    ELSE ~ Failed(result) /\ Same(result.value, Expected(value, format))

\* No part of what can be read can be read, and nothing with a byte behind it
\* but the no-ops of UBJSON and BJData.
DamagedIsRefused ==
  stage = "done" /\ origin = "damaged" =>
    Failed(result) \/ (format.name \in {"ubjson", "bjdata"} /\ Last(bytes) = Mark["N"])

\* The sizes that the BSON writer computes before it writes are those of what it
\* then writes; its own reader does not look at them.
SizesExact ==
  stage = "bytes" /\ origin = "writer" /\ format.name = "bson" =>
    Signed(Reverse(SubSeq(bytes, 1, 4))) = SizeBytes(Len(bytes))
=============================================================================
