------------------------------ MODULE MCJsonData ------------------------------
(***************************************************************************)
(* Inputs for JsonPatch and JsonBinary, which one run checks: a behaviour  *)
(* is one of either.                                                       *)
(***************************************************************************)
EXTENDS JsonPatch, JsonBinary

MCMin == -1000

Arr(s) == [array |-> s]
Obj(o) == [object |-> o]
-----------------------------------------------------------------------------
(* Documents and patches *)

One == [integer |-> 1]
X == Text(Bytes("x"))
A == Bytes("a")
T == Bytes("~1")
Z == Bytes("0")
S == Bytes("!")   \* in a flattened pointer before any digit, and before a slash
Obj1(k, v) == Obj(k :> v)
Obj2(k, v, l, w) == Obj((k :> v) @@ (l :> w))

\* 1.0 and 0.5
Half(point) == [float |-> [sign |-> 0, digits |-> IF point = 1 THEN <<49>> ELSE <<53>>, point |-> point]]

Flats ==
  {Nothing, One, X, [boolean |-> TRUE], Half(1), Half(0), Arr(<<>>), Obj(<<>>)}

Nested ==
  {Arr(<<One>>), Arr(<<X, One>>), Arr(<<One, X, One>>), Arr(<<Arr(<<>>), X>>),
   Arr(<<One, X, Nothing, X>>), Arr([i \in 1..11 |-> IF i = 3 THEN X ELSE One]),
   Obj1(A, One), Obj1(Z, X), Obj1(T, X), Obj1(<<>>, One),
   Obj2(A, X, Z, One), Obj2(A, Nothing, T, One), Obj2(S, One, Z, X),
   Obj1(A, Arr(<<One, X>>)), Obj1(A, Obj2(T, One, Z, X)), Obj2(A, Arr(<<X>>), Z, Obj1(A, One)),
   Arr(<<Obj1(A, One), Obj2(A, X, Z, Nothing)>>), Obj1(A, Arr(<<Arr(<<One, X>>), X>>)),
   Obj2(S, Obj1(A, One), Z, X), Obj1(A, Obj2(S, One, Z, X))}

Documents == Flats \cup Nested

RECURSIVE NoNulls(_)
NoNulls(v) ==
  IF IsObject(v) THEN \A k \in DOMAIN v.object : NoNulls(v.object[k]) ELSE v # Nothing

\* The merge patch of RFC 7396 that makes b of a.
RECURSIVE MergeOf(_, _)
MergeOf(a, b) ==
  IF ~ IsObject(b) THEN b
  ELSE LET old == IF IsObject(a) THEN a.object ELSE <<>>
           changed == {k \in DOMAIN b.object : k \notin DOMAIN old \/ old[k] # b.object[k]}
           gone == DOMAIN old \ DOMAIN b.object
           from(k) == IF k \in DOMAIN old THEN old[k] ELSE Nothing
       IN  Obj([k \in changed \cup gone |->
                  IF k \in changed THEN MergeOf(from(k), b.object[k]) ELSE Nothing])

DiffCalls ==
  {[source |-> a, call |-> "patch_inplace", argument |-> Arr(Diff(a, b, <<>>)), target |-> {b}] :
     a \in Documents, b \in Documents}

MergeCalls ==
  {[source |-> a, call |-> "merge_patch", argument |-> MergeOf(a, b), target |-> {b}] :
     a \in Documents, b \in {d \in Documents : NoNulls(d)}}

Paths ==
  {<<>>} \cup {Bytes(t) : t \in {"/a", "/a/0", "/a/1", "/a/-", "/0", "/1", "/-", "/a/~01", "/a/0/1",
     "/9"}}
BadPaths == {Bytes(t) : t \in {"a", "/~", "/01", "/b1", "/"}}
AnyPaths == Paths \cup BadPaths

MCOperations ==
  {OperationWith(op, p, v) : op \in {AddOp, ReplaceOp, TestOp}, p \in AnyPaths, v \in {X, Arr(<<One>>)}}
  \cup {Operation(op, p) : op \in {RemoveOp, ReplaceOp, TestOp, AddOp, CopyOp}, p \in AnyPaths}
  \cup {WithKey(Operation(op, p), FromKey, Text(from)) :
          op \in {MoveOp, CopyOp}, p \in Paths, from \in AnyPaths}
  \cup {One, Obj(<<>>), Obj1(OpKey, One), Obj1(OpKey, Text(AddOp)), Operation(Bytes("ad"), <<>>)}

Patched ==
  {Nothing, X, Arr(<<X, One>>), Arr(<<Obj1(A, One), X>>), Obj1(A, Arr(<<One, X>>)),
   Obj1(A, Obj2(T, One, Z, X)), Obj2(A, X, Z, One), Obj1(A, Nothing), Obj1(A, X),
   Obj1(A, Arr(<<Arr(<<One, X>>), X>>))}

\* Two operations, the second of which meets what the first has left.
PatchCalls ==
  {[source |-> a, call |-> "patch_inplace", argument |-> Arr(<<op, second>>), target |-> {}] :
     a \in Patched, op \in MCOperations,
     second \in {Operation(RemoveOp, Bytes("/a/0")), OperationWith(AddOp, Bytes("/a/0"), X)}}
  \cup {[source |-> Nothing, call |-> "patch_inplace", argument |-> One, target |-> {}]}

MCCalls == DiffCalls \cup MergeCalls \cup PatchCalls

MCPointers ==
  {<<>>, <<A>>, <<Z>>, <<T>>, <<S>>, <<Dash>>, <<<<>>>>, <<A, Z>>, <<A, T>>, <<A, Dash>>, <<A, <<>>>>,
   <<Z, A>>, <<A, Z, Bytes("1")>>, <<Bytes("2"), A>>, <<Bytes("~0"), Bytes("a/b~")>>}
  \cup {<<Bytes(t)>> : t \in {"1", "10", "01", "1x"}}
-----------------------------------------------------------------------------
(* Values to write *)

Cbor(tags) == [name |-> "cbor", tags |-> tags]
Msgpack == [name |-> "msgpack"]
Bson == [name |-> "bson"]
Ub(name, count, type) == [name |-> name, bjdata |-> name = "bjdata", count |-> count, type |-> type]
Ubjson == Ub("ubjson", FALSE, FALSE)
Bjdata == Ub("bjdata", TRUE, TRUE)

AnyFormats ==
  {Cbor("error"), Cbor("store"), Msgpack}
  \cup {Ub(n, t[1], t[2]) : n \in {"ubjson", "bjdata"}, t \in {<<FALSE, FALSE>>, <<TRUE, FALSE>>,
     <<TRUE, TRUE>>}}

\* One below, at and above the boundaries between two widths.
Edges ==
  {SizeBytes(n) : n \in {0, 15, 16, 23, 24, 31, 32, 33, 127, 128, 255, 256, 32767, 32768, 65535, 65536}}
  \cup {Unsigned(x) : x \in {<<127, 255, 255, 255>>, <<128, 0, 0, 0>>, Fill(255, 4), <<1, 0, 0, 0, 0>>,
                             <<127>> \o Fill(255, 7)}}
Larger == {Unsigned(<<128>> \o Fill(0, 7)), Unsigned(Fill(255, 8))}

\* Halves, floats and doubles: zeros, ones, the limits of the floats with and
\* without a leading 1, a double between two floats, infinities and NaNs.
Doubles ==
  {x \o Fill(0, 8 - Len(x)) : x \in
     {<<>>, <<128>>, <<63, 240>>, <<191, 241, 0, 0, 32>>, <<191, 241, 0, 0, 16>>,
      <<63, 185, 153, 153, 153, 153, 153, 154>>,
      <<71, 239, 255, 255, 224>>, <<71, 239, 255, 255, 240>>, <<71, 240>>,
      <<56, 16>>, <<56>>, <<54, 160>>, <<54, 144>>, <<55, 8>>, <<56, 15, 255, 255, 192>>,
      <<56, 15, 255, 255, 224>>, <<0, 0, 0, 0, 0, 0, 0, 1>>,
      <<127, 240>>, <<255, 240>>, <<127, 248>>, <<255, 248, 0, 0, 0, 0, 0, 1>>}}

Lengths == {0, 1, 2, 4, 8, 15, 16, 23, 24, 31, 32, 127, 128, 255, 256}

Scalars ==
  {[integer |-> x] : x \in Edges \cup {Complement(x) : x \in Edges}}
  \cup {[unsigned |-> x] : x \in Edges \cup Larger}
  \cup {[float |-> x] : x \in Doubles}
  \cup {Text(Fill(97, n)) : n \in Lengths} \cup {Text(<<0, 255, 78>>)}
  \cup {[binary |-> Fill(78, n), subtype |-> t] : n \in Lengths, t \in {<<>>, SizeBytes(5)}}
  \cup {[binary |-> <<1>>, subtype |-> Unsigned(t)] :
          t \in {<<0>>, <<200>>, <<1, 0>>, <<1, 0, 0>>, <<1, 0, 0, 0, 0>>}}
  \cup {[boolean |-> b] : b \in BOOLEAN} \cup {Nothing}

I(n) == [integer |-> SizeBytes(n)]
U(n) == [unsigned |-> SizeBytes(n)]
D(first) == [float |-> first \o Fill(0, 8 - Len(first))]
Yes == [boolean |-> TRUE]
No == [boolean |-> FALSE]
Huge64 == [unsigned |-> Unsigned(Fill(255, 8))]

Lists ==
  {Arr([i \in 1..n |-> I(i)]) : n \in {15, 16, 23, 24}}
  \cup {Arr(s) : s \in
         {<<>>, <<I(1), I(200)>>, <<U(200), U(255)>>, <<Nothing, Nothing>>, <<Yes, Yes>>, <<Yes, No>>,
          <<Text(<<97>>), Text(<<>>)>>, <<Huge64, Huge64>>, <<Arr(<<I(1)>>), Arr(<<>>)>>,
          <<[binary |-> <<78, 1>>, subtype |-> <<>>], Arr(<<Nothing>>)>>,
          <<D(<<63, 240>>), D(<<>>)>>, <<Obj(<<>>), Obj(<<>> :> I(1))>>}}

Objects ==
  {Obj([k \in {Bytes("k") \o Decimal[i] : i \in 1..n} |-> I(3)]) : n \in {15, 16, 24}}
  \cup {Obj(o) : o \in
         {<<>>, A :> Nothing, (A :> I(1)) @@ (<<98>> :> I(2)), (A :> I(1)) @@ (<<78>> :> I(300)),
          <<0, 97>> :> I(1), A :> Arr(<<I(1), Obj(<<>>), Text(<<98>>)>>),
             A :> Arr([i \in 1..11 |-> I(i)])}}

Nd(type, sizes, data) ==
  Obj((TypeKey :> Text(Bytes(type))) @@ (SizeKey :> Arr(sizes)) @@ (DataKey :> Arr(data)))

Ndarrays ==
  {Nd("int8", <<U(1), U(2)>>, <<I(1), I(2)>>), Nd("uint8", <<U(2), U(2)>>, <<U(1), U(2), U(3),
     U(255)>>), Nd("int16", <<U(3)>>, <<I(1), I(2), I(300)>>),
   Nd("char", <<U(2)>>, <<U(97), U(98)>>), Nd("char", <<U(2)>>, <<U(97), U(200)>>),
   Nd("uint8", <<>>, <<>>), Nd("uint8", <<U(0), U(2)>>, <<>>), Nd("uint8", <<U(2), U(2)>>, <<U(1)>>),
   Nd("bool", <<U(1)>>, <<U(1)>>),
   Obj((TypeKey :> I(1)) @@ (SizeKey :> Arr(<<>>)) @@ (DataKey :> Arr(<<>>)))}
  \cup {Nd(x[1], <<U(2), U(1)>>, x[2]) : x \in
         {<<"int8", <<I(1), [integer |-> Complement(SizeBytes(0))]>>>>, <<"char", <<U(97), U(200)>>>>,
          <<"double", <<D(<<>>), D(<<63, 240>>)>>>>, <<"single", <<D(<<>>), D(<<63, 240>>)>>>>,
          <<"uint16", <<U(1), U(65535)>>>>, <<"uint32", <<U(1), U(65536)>>>>, <<"uint64", <<U(1),
             Huge64>>>>,
          <<"int32", <<I(1), I(65536)>>>>, <<"int64", <<I(1), I(65536)>>>>}}

AnyValues == Scalars \cup Lists \cup Objects \cup Ndarrays

MCTasks ==
  {[value |-> v, format |-> f] : v \in AnyValues, f \in AnyFormats}
  \cup {[value |-> Obj(A :> v), format |-> Bson] : v \in AnyValues}
  \cup {[value |-> v, format |-> Bson] : v \in Objects \cup {Nothing, Arr(<<>>)}}
-----------------------------------------------------------------------------
(* Bytes to read *)

\* Every byte, alone and with another behind it.
Short ==
  {<<b>> : b \in Byte} \cup {<<b, c>> : b \in Byte, c \in {0, 1, 23, 35, 64, 97, 128, 255}}

CborStreams ==
  {<<159, 1, 2, 255>>, <<159, 255>>, <<159, 159, 1, 255, 255>>, <<191, 97, 97, 1, 97, 98, 2, 255>>,
     <<191, 97, 97, 255>>,
   <<191, 1, 1, 255>>, <<127, 97, 97, 98, 98, 99, 255>>, <<127, 127, 97, 97, 255, 255>>, <<127, 65,
      97, 255>>, <<127, 97>>,
   <<95, 65, 97, 95, 66, 98, 99, 255, 255>>, <<95, 97, 97, 255>>, <<152, 1, 5>>, <<153, 0, 1, 5>>,
      <<154, 0, 0, 0, 1, 5>>,
   <<155, 0, 0, 0, 0, 0, 0, 0, 1, 5>>, <<155>> \o Fill(255, 8) \o <<5, 255>>, <<155, 8>> \o Fill(0,
      7), <<155, 7>> \o Fill(255, 7),
   <<187, 1>> \o Fill(153, 7), <<187, 1>> \o Fill(153, 6) \o <<154>>, <<187>> \o Fill(255,
      8) \o <<97, 97, 1, 255>>, <<155, 0, 0, 0, 1, 0, 0, 0, 0, 1>>,
   <<184, 1, 97, 97, 5>>, <<185, 0, 1, 97, 97, 5>>, <<186, 0, 0, 0, 1, 97, 97, 5>>, <<162, 97, 97,
      5, 97, 97, 6>>,
   <<162, 120, 1, 97, 5, 121, 0, 1, 98, 6>>, <<123, 0, 0, 0, 0, 0, 0, 0, 1, 97>>, <<122, 0, 0, 0, 1,
      97>>, <<123>> \o Fill(255, 8) \o <<97>>,
   <<91, 0, 0, 0, 0, 0, 0, 0, 1, 97>>, <<90, 0, 0, 0, 1, 97>>, <<89, 0, 1, 97>>, <<59,
      128>> \o Fill(0, 7), <<59>> \o Fill(255, 8), <<59, 127>> \o Fill(255, 7),
   <<58, 255, 255, 255, 255>>, <<216, 5, 65, 97>>, <<217, 1, 0, 65, 97>>, <<218, 1, 0, 0, 0, 65,
      97>>, <<219, 1, 0, 0, 0, 0, 0, 0, 0, 65, 97>>, <<216, 5, 97, 97>>, <<216, 5, 1>>,
   <<198, 1>>, <<198, 216, 5, 65, 97>>, <<129, 216, 5, 65, 97>>, <<216>>, <<216, 5>>, <<217, 1>>}
  \cup {<<249, h, l>> : h \in {0, 3, 4, 60, 123, 124, 125, 128, 188, 252, 254}, l \in {0, 1, 255}}
  \cup {<<250>> \o b : b \in {<<127, 128, 0, 0>>, <<127, 128, 0, 1>>, <<255, 192, 0, 0>>, <<0, 0, 0,
     1>>, <<0, 128, 0, 0>>, <<127, 127, 255, 255>>, <<128, 0, 0, 0>>}}
  \cup {<<251, 127, 240, 0, 0, 0, 0, 0, 1>>}

MsgpackStreams ==
  {<<220, 0, 1, 5>>, <<221, 0, 0, 0, 1, 5>>, <<222, 0, 1, 161, 97, 5>>, <<223, 0, 0, 0, 1, 161, 97,
     5>>, <<130, 161, 97, 1, 161, 97, 2>>,
   <<129, 1, 1>>, <<129, 217, 1, 97, 5>>, <<218, 0, 1, 97>>, <<219, 0, 0, 0, 1, 97>>, <<197, 0, 1,
      97>>, <<198, 0, 0, 0, 1, 97>>,
   <<199, 1, 200, 97>>, <<200, 0, 1, 5, 97>>, <<201, 0, 0, 0, 1, 5, 97>>, <<212, 128, 97>>, <<221,
      255, 255, 255, 255, 5>>, <<223, 255, 255, 255, 255>>,
   <<207>> \o Fill(255, 8), <<211>> \o Fill(255, 8), <<211, 128>> \o Fill(0, 7), <<202, 127, 128, 0,
      1>>, <<203, 127, 240, 0, 0, 0, 0, 0, 1>>, <<206, 0, 0, 0, 1>>, <<210, 0, 0, 0, 1>>}

Dollar(type, size, data) == Bytes("[$") \o type \o <<35>> \o size \o data

UbjsonStreams ==
  {Bytes(t) : t \in {"N", "NZ", "[NZNTN]", "[", "[]", "{}", "{", "[$", "[$U", "[$U#", "[$UU#",
     "[#U", "[#Z", "[#", "{#", "{$Z#", "[$N#", "Hi", "[[]", "[T]", "{T}"}}
  \cup {Bytes("{i") \o <<1, 97>> \o Bytes("NZ}"), Bytes("{i") \o <<1, 97>> \o Bytes("ZNi") \o <<1,
     97>> \o Bytes("T}"), Bytes("Si") \o <<255>>, Bytes("SL") \o Low(Complement(SizeBytes(0)), 8),
        Bytes("Sl") \o <<0, 0, 0, 1, 97>>, Bytes("Sl") \o <<1, 0, 0, 0, 97>>, Bytes("SI") \o <<0, 1,
           97>>, Bytes("Su") \o <<1, 0, 97>>, Bytes("Sm") \o <<1, 0, 0, 0, 97>>, Bytes("SM") \o <<1,
           0, 0, 0, 0, 0, 0, 0, 97>>,
        Bytes("[#i") \o <<255>>, Bytes("[#i") \o <<2, 90, 78, 90>>,
           Bytes("[#L") \o <<127>> \o Fill(255, 7), Bytes("[#L") \o Fill(255, 7) \o <<127>>,
           Bytes("[#L") \o Fill(255, 8), Bytes("[#M") \o Fill(255, 8), Bytes("[#M") \o Fill(255,
           8) \o <<93>>,
        Bytes("{#M") \o Fill(255, 7) \o <<1>>, Bytes("{#L") \o <<2>> \o Fill(0, 7),
           Bytes("[$Z#i") \o <<3>>, Bytes("[$N#i") \o <<3>>, Bytes("{$N#i") \o <<1, 105, 1, 97>>,
           Bytes("{$Z#i") \o <<1, 105, 1, 97>>,
        Bytes("{#i") \o <<2, 105, 1, 97, 90, 105, 1, 97, 84>>,
           Bytes("[$") \o <<0>> \o Bytes("#i") \o <<1, 90>>, Bytes("C") \o <<97>>,
           Bytes("C") \o <<200>>, Bytes("[$C#i") \o <<2, 97, 98>>,
        Bytes("h") \o <<0, 60>>, Bytes("h") \o <<60, 0>>, Bytes("d") \o <<0, 0, 128, 63>>,
           Bytes("d") \o <<63, 128, 0, 0>>, Bytes("[$#i") \o <<1, 90>>}
  \cup {Bytes("Hi") \o <<Len(Bytes(t))>> \o Bytes(t) : t \in {"12", "-12", "0", "-0", "01", "1.5",
     " 12 ", "1 2", "abc", "", "-", "18446744073709551615", "18446744073709551616",
     "-9223372036854775808", "-9223372036854775809", "99999999999999999999",
     "100000000000000000000"}}
  \cup {Bytes("Hi") \o <<4, 49, 50, 0, 120>>, Bytes("Hi") \o <<5, 239, 187, 191, 49, 50>>,
     Bytes("H[") \o <<105, 1, 93, 49>>}
  \cup {Dollar(<<t>>, d, <<1, 2, 3, 4>>) : t \in {Mark["U"], Mark["i"], Mark["C"], 120, 0},
          d \in {Bytes("[]"), Bytes("[i") \o <<4>> \o Bytes("]"), Bytes("[i") \o <<2, 105,
             2>> \o Bytes("]"), Bytes("[i") \o <<1, 105, 4>> \o Bytes("]"), Bytes("[$i#i") \o <<2,
             2, 2>>, Bytes("[#i") \o <<2, 105, 2, 105, 2>>,
                 Bytes("[i") \o <<2, 78, 105, 2>> \o Bytes("]"), Bytes("[i") \o <<0, 105,
                    2>> \o Bytes("]"), Bytes("[[i") \o <<2>> \o Bytes("]]"),
                    Bytes("[$i#[i") \o <<2>> \o Bytes("]") \o <<2, 2>>, Bytes("[$i#[i") \o <<2, 105,
                    1>> \o Bytes("]") \o <<2, 2>>,
                 Bytes("[") \o <<0, 105, 4, 93>>, Bytes("[") \o <<0, 93>>, Bytes("[m") \o <<0, 0, 0,
                    128, 109, 0, 0, 0, 128, 105, 4, 93>>, Bytes("[m") \o <<0, 0, 0, 128, 109, 0, 0,
                    0, 64, 93>>, Bytes("[M") \o Fill(255, 8) \o <<105, 1, 93>>,
                    Bytes("[M") \o Fill(255, 8) \o <<93>>,
                 Bytes("[i") \o <<255, 93>>, Bytes("[#M") \o Fill(255, 8), Bytes("[i") \o <<2, 105>>}}
  \cup {Bytes("{$U#[i") \o <<2, 105, 2, 93>>, Bytes("{$U#[i") \o <<1, 93, 105, 1, 97, 5>>,
     Bytes("[#[i") \o <<2, 93, 90, 90>>, Bytes("[#[i") \o <<2, 105, 2, 93>>}

BsonStreams ==
  {<<5, 0, 0, 0, 0>>, <<0, 0, 0, 0, 0>>, <<1, 2, 3>>} \cup
  {<<0, 0, 0, 0>> \o e \o <<0>> : e \in {
     <<8, 97, 0, 2>>, <<8, 97, 0, 1, 8, 97, 0, 0>>, <<2, 97, 0, 0, 0, 0, 0>>, <<2, 97, 0, 1, 0, 0,
        0, 5>>, <<2, 97, 0, 2, 0, 0, 0, 97>>, <<2, 97, 0, 2, 0, 0, 0>>, <<2, 97, 0, 255, 255, 255,
        255>>,
     <<5, 97, 0, 1, 0, 0, 0, 7, 97>>, <<5, 97, 0, 255, 255, 255, 255, 7>>, <<3, 97, 0, 9, 9, 9, 9,
        0>>, <<4, 97, 0, 9, 9, 9, 9, 10, 120, 0, 10, 0, 0>>, <<16, 97, 0, 255, 255, 255, 255>>,
        <<18, 97, 0, 1, 0, 0, 0, 0, 0, 0, 128>>,
     <<7, 97, 0>>, <<10, 97>>, <<1, 97, 0>> \o Fill(1, 8)}}
   \cup {<<0, 0, 0, 0, 8, 97, 0>>, <<0, 0, 0, 0, 2, 97, 0, 2, 0, 0, 0, 97>>}

MCStreams ==
  {[bytes |-> b, format |-> f] : b \in Short, f \in {Cbor("error"), Msgpack, Ubjson, Bjdata}}
  \cup {[bytes |-> b, format |-> Cbor(t)] : b \in CborStreams, t \in {"error", "ignore", "store"}}
  \cup {[bytes |-> b, format |-> Msgpack] : b \in MsgpackStreams}
  \cup {[bytes |-> b, format |-> f] : b \in UbjsonStreams, f \in {Ubjson, Bjdata}}
  \cup {[bytes |-> b, format |-> Bson] : b \in BsonStreams}
-----------------------------------------------------------------------------
NoPatch ==
  /\ doc = Nothing /\ source = Nothing /\ argument = Nothing
  /\ call = "idle" /\ target = {} /\ error = 0

NoBytes ==
  /\ value = Nothing /\ result = [value |-> Nothing] /\ format = Msgpack
  /\ bytes = <<>> /\ origin = "stream" /\ stage = "none"

DataInit == (PatchInit /\ NoBytes) \/ (BinaryInit /\ NoPatch)

DataNext ==
  \/ PatchNext /\ UNCHANGED binaryVars
  \/ BinaryNext /\ UNCHANGED patchVars

DataSpec == DataInit /\ [][DataNext]_<<patchVars, binaryVars>>
=============================================================================
