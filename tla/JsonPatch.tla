------------------------------ MODULE JsonPatch -------------------------------
(***************************************************************************)
(* JSON pointers and the operations that change a document through them:   *)
(* json_pointer, basic_json::patch_inplace, diff, merge_patch, flatten and *)
(* unflatten.  A call that throws gives the number of its exception.       *)
(*                                                                         *)
(* One step of the state machine is one turn of the loop of patch_inplace, *)
(* or a call of merge_patch.                                               *)
(***************************************************************************)
EXTENDS JsonValue

CONSTANTS
  Calls,      \* the calls made: [source, call, argument, target]
  Pointers    \* reference tokens of the pointers tried on every document

VARIABLES
  doc,        \* *this
  call,       \* "patch_inplace", "merge_patch" or "none": the call has returned
  argument,   \* merge_patch's, or what is left of json_patch
  error,      \* number of the exception thrown, 0 for none
  source,     \* the document the call started from
  target      \* the documents it may end in; {} if any

patchVars == <<doc, call, argument, error, source, target>>

\* JSON_ASSERT(false) ends a program built without NDEBUG.
Aborts == Throws(-1)
-----------------------------------------------------------------------------
(* Reference tokens *)

Slash == <<47>>
Tilde == <<126>>
Dash == <<45>>

RECURSIVE Replaced(_, _, _)
Replaced(s, f, t) ==
  IF Len(s) < Len(f) THEN s
  ELSE IF IsPrefix(f, s) THEN t \o Replaced(SubSeq(s, Len(f) + 1, Len(s)), f, t)
  ELSE <<Head(s)>> \o Replaced(Tail(s), f, t)

EscapeSlashFirst(s) ==  \* mutant: the two replacements are swapped
  Replaced(Replaced(s, Slash, <<126, 49>>), Tilde, <<126, 48>>)

Escape(s) == Replaced(Replaced(s, Tilde, <<126, 48>>), Slash, <<126, 49>>)

Unescape(s) == Replaced(Replaced(s, <<126, 49>>, Slash), <<126, 48>>, Tilde)

\* to_string
PointerText(tokens) == FlattenSeq([i \in DOMAIN tokens |-> Slash \o Escape(tokens[i])])

\* split: the pointer of a text.
Pointer(text) ==
  LET slashes == SetToSortSeq({i \in DOMAIN text : text[i] = 47}, <)
      end(i) == IF i = Len(slashes) THEN Len(text) ELSE slashes[i + 1] - 1
      raw == [i \in DOMAIN slashes |-> SubSeq(text, slashes[i] + 1, end(i))]
      bad(s) == \E i \in DOMAIN s : s[i] = 126 /\ (i = Len(s) \/ s[i + 1] \notin {48, 49})
  IN  CASE text = <<>>                   -> [tokens |-> <<>>]
        [] Head(text) # 47               -> Throws(107)
        [] \E i \in DOMAIN raw : bad(raw[i]) -> Throws(108)
        [] OTHER -> [tokens |-> [i \in DOMAIN raw |-> Unescape(raw[i])]]

\* array_index; tokens here have too few digits for 410.
ArrayIndex(s) ==
  CASE Len(s) > 1 /\ s[1] = 48          -> Throws(106)
    [] Len(s) > 1 /\ s[1] \notin 49..57 -> Throws(109)
    [] s = <<>> \/ \E i \in DOMAIN s : s[i] \notin Digits -> Throws(404)
    [] OTHER -> [index |-> Natural(s)]
-----------------------------------------------------------------------------
(* Element access *)

\* at(idx) and at(key).
AtIndex(v, i) ==
  IF ~ IsArray(v) THEN Throws(304)
  ELSE IF i >= Len(v.array) THEN Throws(401) ELSE v.array[i + 1]

AtKey(v, key) ==
  IF ~ IsObject(v) THEN Throws(304)
  ELSE IF key \notin DOMAIN v.object THEN Throws(403) ELSE v.object[key]

\* operator[](idx) and operator[](key), assigned to.
WithIndex(v, i, x) ==
  LET old == IF IsArray(v) THEN v.array ELSE <<>>
      size == IF i < Len(old) THEN Len(old) ELSE i + 1
  IN  [array |-> [k \in 1..size |-> CASE k = i + 1     -> x
                                      [] k <= Len(old) -> old[k]
                                      [] OTHER         -> Nothing]]

WithKey(v, key, x) ==
  [object |-> (key :> x) @@ (IF IsObject(v) THEN v.object ELSE <<>>)]

\* What these two operators find there, or create.
ItemAt(v, i) == IF IsArray(v) /\ i < Len(v.array) THEN v.array[i + 1] ELSE Nothing
ValueAt(v, key) == IF IsObject(v) /\ key \in DOMAIN v.object THEN v.object[key] ELSE Nothing

\* insert and erase in an array.
InsertLate(v, i, x) ==  \* mutant: the new value is put behind the position
  [array |-> InsertAt(v.array, (IF i < Len(v.array) THEN i + 1 ELSE i) + 1, x)]
Insert(v, i, x) == [array |-> InsertAt(v.array, i + 1, x)]

EraseIndex(v, i) ==
  IF i >= Len(v.array) THEN Throws(401) ELSE [array |-> RemoveAt(v.array, i + 1)]

EraseKey(v, key) == [object |-> [k \in DOMAIN v.object \ {key} |-> v.object[k]]]
-----------------------------------------------------------------------------
(* Resolving a pointer *)

\* One turn of the loop of get_checked.
Resolve(v, token) ==
  CASE IsObject(v) -> AtKey(v, token)
    [] IsArray(v)  -> IF token = Dash THEN Throws(402)
                      ELSE IF Failed(ArrayIndex(token)) THEN ArrayIndex(token)
                      ELSE AtIndex(v, ArrayIndex(token).index)
    [] OTHER       -> Throws(404)

\* at(ptr)
At(v, tokens) ==
  FoldLeft(LAMBDA r, token : IF Failed(r) THEN r ELSE Resolve(r, token), v, tokens)

\* v with x in the place that at(ptr) refers to.
RECURSIVE Put(_, _, _)
Put(v, tokens, x) ==
  IF tokens = <<>> THEN x
  ELSE LET token == Head(tokens)
       IN  IF IsObject(v) THEN WithKey(v, token, Put(v.object[token], Tail(tokens), x))
           ELSE LET i == ArrayIndex(token).index
                IN  WithIndex(v, i, Put(v.array[i + 1], Tail(tokens), x))

\* contains(ptr).  An empty token is looked up as an index of an array.
RECURSIVE Found(_, _)
ContainsItem(v, tokens) ==
  LET token == Head(tokens)
      index == ArrayIndex(token)
  IN  CASE token = Dash -> [found |-> FALSE]
        [] Len(token) = 1 /\ token[1] \notin Digits -> [found |-> FALSE]
        [] Len(token) > 1 /\ ~ (token[1] \in 49..57 /\ \A i \in 2..Len(token) : token[i] \in Digits)
             -> [found |-> FALSE]
        [] Failed(index) -> index
        [] index.index >= Len(v.array) -> [found |-> FALSE]
        [] OTHER -> Found(v.array[index.index + 1], Tail(tokens))
Found(v, tokens) ==
  IF tokens = <<>> THEN [found |-> TRUE]
  ELSE CASE IsObject(v) -> IF Head(tokens) \notin DOMAIN v.object THEN [found |-> FALSE]
                           ELSE Found(v.object[Head(tokens)], Tail(tokens))
         [] IsArray(v)  -> ContainsItem(v, tokens)
         [] OTHER       -> [found |-> FALSE]

\* operator[](ptr) = x by get_unchecked.  What it creates on its way stays when
\* a later token makes it throw.
RECURSIVE Subscript(_, _, _)
Subscript(v, tokens, x) ==
  IF tokens = <<>> THEN [value |-> x, error |-> 0]
  ELSE
    LET token == Head(tokens)
        numeric == \A i \in DOMAIN token : token[i] \in Digits
        here == IF v # Nothing THEN v
                ELSE IF numeric \/ token = Dash THEN [array |-> <<>>] ELSE [object |-> <<>>]
        index == IF token = Dash THEN [index |-> Len(here.array)] ELSE ArrayIndex(token)
        below(child) == Subscript(child, Tail(tokens), x)
    IN  CASE IsObject(here) ->
               LET r == below(ValueAt(here, token))
               IN  [r EXCEPT !.value = WithKey(here, token, @)]
          [] IsArray(here) ->
               IF Failed(index) THEN [value |-> here, error |-> index.throws]
               ELSE LET r == below(ItemAt(here, index.index))
                    IN  [r EXCEPT !.value = WithIndex(here, index.index, @)]
          [] OTHER -> [value |-> here, error |-> 404]
-----------------------------------------------------------------------------
(* flatten and unflatten *)

RECURSIVE Flat(_, _)

FlatUnescaped(text, v) ==  \* mutant: keys are put into the pointers as they are
  IF IsObject(v) /\ DOMAIN v.object # {}
  THEN FoldLeft(LAMBDA m, k : m @@ Flat(text \o Slash \o k, v.object[k]), <<>>, Keys(v.object))
  ELSE text :> v

Flat(text, v) ==
  CASE IsArray(v) /\ v.array # <<>> ->
         FoldLeft(LAMBDA m, i : m @@ Flat(text \o Slash \o Decimal[i - 1], v.array[i]),
                  <<>>, [i \in DOMAIN v.array |-> i])
    [] IsObject(v) /\ DOMAIN v.object # {} ->
         FoldLeft(LAMBDA m, k : m @@ Flat(text \o Slash \o Escape(k), v.object[k]),
                  <<>>, Keys(v.object))
    [] IsArray(v) \/ IsObject(v) -> text :> Nothing
    [] OTHER -> text :> v

Flatten(v) == [object |-> Flat(<<>>, v)]

\* get_and_create(v) = x
RECURSIVE Create(_, _, _)
Create(v, tokens, x) ==
  IF tokens = <<>> THEN x
  ELSE
    LET token == Head(tokens)
        item(i) == LET r == Create(ItemAt(v, i), Tail(tokens), x)
                   IN  IF Failed(r) THEN r ELSE WithIndex(v, i, r)
        member == LET r == Create(ValueAt(v, token), Tail(tokens), x)
                  IN  IF Failed(r) THEN r ELSE WithKey(v, token, r)
    IN  CASE v = Nothing  -> IF token = <<48>> THEN item(0) ELSE member
          [] IsObject(v)  -> member
          [] IsArray(v)   -> IF Failed(ArrayIndex(token)) THEN ArrayIndex(token)
                             ELSE item(ArrayIndex(token).index)
          [] OTHER        -> Throws(313)

Unflatten(v) ==
  LET add(result, key) ==
        CASE Failed(result) -> result
          [] IsArray(v.object[key]) \/ IsObject(v.object[key]) -> Throws(315)
          [] Failed(Pointer(key)) -> Pointer(key)
          [] OTHER -> Create(result, Pointer(key).tokens, v.object[key])
  IN  IF ~ IsObject(v) THEN Throws(314) ELSE FoldLeft(add, Nothing, Keys(v.object))
-----------------------------------------------------------------------------
(* Comparison and diff *)

\* operator==: numbers are equal whatever their types.
EqualNumbers(a, b) ==
  LET zero(f) == f.digits = <<>>
      whole(n, f) == Len(f.digits) <= f.point /\ Truncated(f) = n
  IN  CASE "integer" \in DOMAIN a /\ "integer" \in DOMAIN b -> a.integer = b.integer
        [] "float" \in DOMAIN a /\ "float" \in DOMAIN b ->
             a.float = b.float \/ (zero(a.float) /\ zero(b.float))
        [] "integer" \in DOMAIN a -> whole(a.integer, b.float) \/ (a.integer = 0 /\ zero(b.float))
        [] OTHER -> whole(b.integer, a.float) \/ (b.integer = 0 /\ zero(a.float))

IsNumber(v) == DOMAIN v \in {{"integer"}, {"float"}}

RECURSIVE Equal(_, _)
Equal(a, b) ==
  CASE IsNumber(a) /\ IsNumber(b) -> EqualNumbers(a, b)
    [] DOMAIN a # DOMAIN b -> FALSE
    [] IsArray(a)  -> /\ Len(a.array) = Len(b.array)
                      /\ \A i \in DOMAIN a.array : Equal(a.array[i], b.array[i])
    [] IsObject(a) -> /\ DOMAIN a.object = DOMAIN b.object
                      /\ \A k \in DOMAIN a.object : Equal(a.object[k], b.object[k])
    [] OTHER -> a = b

OpKey == Bytes("op")
PathKey == Bytes("path")
FromKey == Bytes("from")
ValueKey == Bytes("value")
AddOp == Bytes("add")
RemoveOp == Bytes("remove")
ReplaceOp == Bytes("replace")
MoveOp == Bytes("move")
CopyOp == Bytes("copy")
TestOp == Bytes("test")

Text(bytes) == [string |-> bytes]

\* The operations that diff writes.
Operation(op, path) == [object |-> (OpKey :> Text(op)) @@ (PathKey :> Text(path))]
OperationWith(op, path, x) == WithKey(Operation(op, path), ValueKey, x)

RECURSIVE Diff(_, _, _)

DiffArraysForward(a, b, path) ==  \* mutant: what is too much is removed from the front
  LET item(i) == path \o Slash \o Decimal[i]
      shared == IF Len(a) < Len(b) THEN Len(a) ELSE Len(b)
  IN  FlattenSeq([i \in 1..shared |-> Diff(a[i], b[i], item(i - 1))])
      \o [i \in 1..(Len(a) - shared) |-> Operation(RemoveOp, item(shared + i - 1))]
      \o [i \in 1..(Len(b) - shared) |-> OperationWith(AddOp, item(shared + i - 1), b[shared + i])]

DiffArrays(a, b, path) ==
  LET item(i) == path \o Slash \o Decimal[i]
      shared == IF Len(a) < Len(b) THEN Len(a) ELSE Len(b)
  IN  FlattenSeq([i \in 1..shared |-> Diff(a[i], b[i], item(i - 1))])
      \o [i \in 1..(Len(a) - shared) |-> Operation(RemoveOp, item(Len(a) - i))]
      \o [i \in 1..(Len(b) - shared) |-> OperationWith(AddOp, path \o Slash \o Dash, b[shared + i])]

DiffObjects(a, b, path) ==
  LET at(key) == path \o Slash \o Escape(key)
      old(key) == IF key \in DOMAIN b THEN Diff(a[key], b[key], at(key))
                  ELSE <<Operation(RemoveOp, at(key))>>
      new == SelectSeq(Keys(b), LAMBDA key : key \notin DOMAIN a)
  IN  FlattenSeq([i \in DOMAIN Keys(a) |-> old(Keys(a)[i])])
      \o [i \in DOMAIN new |-> OperationWith(AddOp, at(new[i]), b[new[i]])]

Diff(a, b, path) ==
  CASE Equal(a, b) -> <<>>
    [] IsArray(a) /\ IsArray(b)   -> DiffArrays(a.array, b.array, path)
    [] IsObject(a) /\ IsObject(b) -> DiffObjects(a.object, b.object, path)
    [] OTHER -> <<OperationWith(ReplaceOp, path, b)>>

\* merge_patch
RECURSIVE Merged(_, _)
Merged(v, patch) ==
  IF ~ IsObject(patch) THEN patch
  ELSE LET given == DOMAIN patch.object
           old == IF IsObject(v) THEN DOMAIN v.object ELSE {}
           erased == {k \in given : patch.object[k] = Nothing}
       IN  [object |-> [k \in (old \cup given) \ erased |->
              IF k \in given THEN Merged(ValueAt(v, k), patch.object[k]) ELSE v.object[k]]]
-----------------------------------------------------------------------------
(* The operations of a patch: the document after one and what it throws. *)

Outcome(v, e) == [doc |-> v, error |-> e]

Changed(v, path, parent) ==
  IF Failed(parent) THEN Outcome(v, parent.throws) ELSE Outcome(Put(v, path, parent), 0)

\* operation_add.  The value of the first token is looked up before, and throws
\* what the look-up of the parent would.
AddedIn(parent, last, x) ==
  CASE Failed(parent) -> parent
    [] IsArray(parent) ->
         IF last = Dash THEN Insert(parent, Len(parent.array), x)
         ELSE IF Failed(ArrayIndex(last)) THEN ArrayIndex(last)
         ELSE IF ArrayIndex(last).index > Len(parent.array) THEN Throws(401)
         ELSE Insert(parent, ArrayIndex(last).index, x)
    [] IsObject(parent) \/ parent = Nothing -> WithKey(parent, last, x)
    [] OTHER -> Aborts

OperationAdd(v, tokens, x) ==
  IF tokens = <<>> THEN Outcome(x, 0)
  ELSE Changed(v, Front(tokens), AddedIn(At(v, Front(tokens)), Last(tokens), x))

\* operation_remove: nothing is removed from, and nothing thrown for, a parent
\* that is neither an object nor an array.
ErasedIn(parent, last) ==
  CASE Failed(parent)   -> parent
    [] IsObject(parent) -> IF last \in DOMAIN parent.object THEN EraseKey(parent, last)
                           ELSE Throws(403)
    [] IsArray(parent)  -> IF Failed(ArrayIndex(last)) THEN ArrayIndex(last)
                           ELSE EraseIndex(parent, ArrayIndex(last).index)
    [] OTHER            -> parent

OperationRemove(v, tokens) ==
  IF tokens = <<>> THEN Outcome(v, 405)
  ELSE Changed(v, Front(tokens), ErasedIn(At(v, Front(tokens)), Last(tokens)))

\* get_value
Member(operation, key, string) ==
  IF key \notin DOMAIN operation.object THEN Throws(105)
  ELSE IF string /\ ~ IsString(operation.object[key]) THEN Throws(105)
  ELSE operation.object[key]

\* The pointer that the member key holds.
PointerIn(operation, key) ==
  LET text == Member(operation, key, TRUE)
  IN  IF Failed(text) THEN text ELSE Pointer(text.string)

\* C++11 leaves open which side of = and == is evaluated first, so which of two
\* exceptions is thrown.
Thrown(rs) == {r.throws : r \in {x \in rs : Failed(x)}}

\* What becomes of v when a value is added that may not be there.
AddOutcome(v, tokens, x) == IF Failed(x) THEN Outcome(v, x.throws) ELSE OperationAdd(v, tokens, x)

ReplaceOutcomes(v, tokens, there, x) ==
  IF Thrown({there, x}) = {} THEN {Outcome(Put(v, tokens, x), 0)}
  ELSE {Outcome(v, e) : e \in Thrown({there, x})}

TestOutcomes(v, there, x) ==
  IF Thrown({there, x}) = {} THEN {Outcome(v, IF Equal(there, x) THEN 0 ELSE 501)}
  ELSE {Outcome(v, IF e \in 400..499 THEN 501 ELSE e) : e \in Thrown({there, x})}

\* What is copied is there, so what is moved can be removed, unless it is the
\* whole document.
MoveOutcome(removed, tokens, x) ==
  IF removed.error # 0 THEN removed ELSE AddOutcome(removed.doc, tokens, x)
-----------------------------------------------------------------------------
PatchTypeOK ==
  /\ call \in {"patch_inplace", "merge_patch", "none"}
  /\ error \in {0, -1, 104, 105, 106, 107, 108, 109, 401, 402, 403, 404, 405, 501}
  /\ error # 0 => call = "none"

PatchInit ==
  /\ \E c \in Calls :
       /\ doc = c.source /\ source = c.source
       /\ call = c.call
       /\ argument = c.argument
       /\ target = c.target
  /\ error = 0

Ends(e) ==
  /\ call' = "none" /\ error' = e
  /\ UNCHANGED <<doc, argument, source, target>>

NotAPatch ==
  /\ call = "patch_inplace" /\ ~ IsArray(argument)
  /\ Ends(104)

Operations == {AddOp, RemoveOp, ReplaceOp, MoveOp, CopyOp, TestOp}

\* What the loop throws before it looks at the operation.
Malformed(val) ==
  IF ~ IsObject(val) THEN Throws(104)
  ELSE IF Failed(Member(val, OpKey, TRUE)) THEN Member(val, OpKey, TRUE)
  ELSE IF Failed(PointerIn(val, PathKey)) THEN PointerIn(val, PathKey)
  ELSE IF val.object[OpKey].string \notin Operations THEN Throws(105)
  ELSE Nothing

More == call = "patch_inplace" /\ IsArray(argument) /\ argument.array # <<>>

Current == Head(argument.array)

Refuse == More /\ Failed(Malformed(Current)) /\ Ends(Malformed(Current).throws)

Apply(op, outcomes) ==
  /\ More /\ ~ Failed(Malformed(Current)) /\ Current.object[OpKey].string = op
  /\ \E o \in outcomes : doc' = o.doc /\ error' = o.error
  /\ call' = IF error' = 0 THEN call ELSE "none"
  /\ argument' = IF error' = 0 THEN [array |-> Tail(argument.array)] ELSE argument
  /\ UNCHANGED <<source, target>>

Path == PointerIn(Current, PathKey).tokens
Value == Member(Current, ValueKey, FALSE)
From == PointerIn(Current, FromKey)
FromThere == IF Failed(From) THEN From ELSE At(doc, From.tokens)

Add == Apply(AddOp, {AddOutcome(doc, Path, Value)})
TakeAway == Apply(RemoveOp, {OperationRemove(doc, Path)})
Replace == Apply(ReplaceOp, ReplaceOutcomes(doc, Path, At(doc, Path), Value))
Test == Apply(TestOp, TestOutcomes(doc, At(doc, Path), Value))
Copy == Apply(CopyOp, {AddOutcome(doc, Path, FromThere)})
Move ==
  Apply(MoveOp, {IF Failed(FromThere) THEN Outcome(doc, FromThere.throws)
                 ELSE MoveOutcome(OperationRemove(doc, From.tokens), Path, FromThere)})

Done ==
  /\ call = "patch_inplace" /\ IsArray(argument) /\ argument.array = <<>>
  /\ Ends(0)

Merge ==
  /\ call = "merge_patch"
  /\ doc' = Merged(doc, argument)
  /\ call' = "none"
  /\ UNCHANGED <<argument, error, source, target>>

PatchNext ==
  NotAPatch \/ Refuse \/ Add \/ TakeAway \/ Replace \/ Move \/ Copy \/ Test \/ Done \/ Merge

PatchSpec == PatchInit /\ [][PatchNext]_patchVars
-----------------------------------------------------------------------------
(* Properties *)

\* A patch made by diff never throws and leaves the document it was made for; so
\* does a merge patch made by RFC 7396.
TargetReached ==
  target # {} =>
    /\ error = 0
    /\ call = "none" => \E t \in target : Equal(doc, t)

\* Where a value is that was added at a pointer: "-" is the end of the array.
Landed(v, tokens) ==
  IF tokens # <<>> /\ Last(tokens) = Dash /\ IsArray(At(v, Front(tokens)))
  THEN Append(Front(tokens), Decimal[Len(At(v, Front(tokens)).array)]) ELSE tokens

\* x is at place in new, and taking it out again gives back old.
AddedAt(old, new, place, x) ==
  LET replaced == place = <<>> \/ (IsObject(At(old, Front(place))) /\ ~ Failed(At(old, place)))
  IN  /\ At(new, place) = x
      /\ \/ IF replaced THEN Put(new, place, At(old, place)) = old
            ELSE OperationRemove(new, place) = Outcome(old, 0)
         \/ /\ place # <<>> /\ At(old, Front(place)) = Nothing
            /\ OperationRemove(new, place).doc = Put(old, Front(place), [object |-> <<>>])

AddedTo(old, new, tokens, x) == AddedAt(old, new, Landed(old, tokens), x)

\* Putting back what was taken out of old gives back old.  A place in a string,
\* a number or null is never there: the code lets it pass.
TakenFrom(old, new, tokens) ==
  IF Failed(At(old, tokens)) THEN new = old
  ELSE OperationAdd(new, tokens, At(old, tokens)) = Outcome(old, 0)

MovedTo(old, without, new, from, tokens) ==
  TakenFrom(old, without, from) /\ AddedTo(without, new, tokens, At(old, from))

\* An operation does to the place it names what RFC 6902 says and nothing else.
\* One that throws has done nothing, but for a move that lost what it took.
OperationExact(op) ==
  CASE error' # 0    -> doc' = doc \/ (op = MoveOp /\ ~ Failed(From) /\ TakenFrom(doc, doc', From.tokens))
    [] op \in {AddOp, CopyOp} -> AddedTo(doc, doc', Path, IF op = AddOp THEN Value ELSE FromThere)
    [] op = RemoveOp -> TakenFrom(doc, doc', Path)
    [] op = TestOp   -> doc' = doc /\ Equal(At(doc, Path), Value)
    [] op = ReplaceOp -> At(doc', Path) = Value /\ Put(doc', Path, At(doc, Path)) = doc
    [] op = MoveOp   -> MovedTo(doc, OperationRemove(doc, From.tokens).doc, doc', From.tokens, Path)

StepExact == More /\ ~ Failed(Malformed(Current)) => OperationExact(Current.object[OpKey].string)

PatchStepsExact == [][StepExact]_patchVars

\* A pointer is its text; contains(), at() and operator[] agree on what is where.
\* operator[] makes a place for what is not there, which at() then finds.
PointersAgree ==
  call = "none" => \A p \in Pointers :
    LET there == At(doc, p)
        found == Found(doc, p)
        placed(x) == Subscript(doc, p, x)
        mark == Text(<<33>>)
    IN  /\ Pointer(PointerText(p)) = [tokens |-> p]
        /\ Failed(found) \/ found.found = ~ Failed(there)
        /\ ~ Failed(there) => placed(there) = [value |-> doc, error |-> 0]
        /\ (placed(mark).error = 0 /\ (\A i \in DOMAIN p : p[i] # Dash)) => At(placed(mark).value, p) = mark

\* flatten and unflatten are inverse to each other, unless an object or an array
\* is empty, or an object would be taken for an array: its first member in the
\* order of the flattened pointers has the key "0".
RECURSIVE Reversible(_)
Reversible(v) ==
  CASE IsArray(v)  -> v.array # <<>> /\ \A i \in DOMAIN v.array : Reversible(v.array[i])
    [] IsObject(v) -> /\ DOMAIN v.object # {}
                      /\ \A k \in DOMAIN v.object : Reversible(v.object[k])
                      /\ Head(Pointer(Head(Keys(Flatten(v).object))).tokens) # <<48>>
    [] OTHER       -> TRUE

UnflattenInverts == call = "none" => (Reversible(doc) <=> Unflatten(Flatten(doc)) = doc)
=============================================================================
