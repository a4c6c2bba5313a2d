------------------------------ MODULE JsonParser ------------------------------
(***************************************************************************)
(* json::parse: the parser asks the lexer for tokens and drives            *)
(* json_sax_dom_parser, which builds the value.  A place is a point of     *)
(* sax_parse_internal where last_token, here token, is looked at.          *)
(*                                                                         *)
(* A pointer into the value is the path to it: keys and indices.           *)
(***************************************************************************)
EXTENDS JsonLexer, JsonGrammar

VARIABLES
  place,
  states,     \* TRUE for an array, FALSE for an object
  root,
  ref_stack,  \* paths of the arrays and objects under construction
  object_element,  \* path of the member whose value comes next
  error       \* id of the exception thrown, or 0

parserVars == <<place, states, root, ref_stack, object_element, error>>

Tokens == {"uninitialized", "parse_error", "begin_array", "end_array", "begin_object",
           "end_object", "name_separator", "value_separator", "end_of_input", "value_string",
           "value_unsigned", "value_integer", "value_float", "literal_true",
           "literal_false", "literal_null"}

ParserPlaces == {"value", "first item", "first key", "first colon", "key", "colon", "array",
                 "object", "strict", "done", "returned", "thrown"}

\* parser's constructor reads the first token.
ParserInit ==
  /\ LexerInit
  /\ place = "value"
  /\ states = <<>>
  /\ root = Nothing
  /\ ref_stack = <<>>
  /\ object_element = <<>>
  /\ error = 0

TypeOK ==
  /\ taken \in 0..Len(input)
  /\ current \in Byte \cup {EOF}
  /\ next_unget \in BOOLEAN
  /\ \A f \in DOMAIN position : position[f] \in 0..(Len(input) + 1)
  /\ at \in Places
  /\ token \in Tokens
  /\ \A i \in DOMAIN token_buffer : token_buffer[i] \in Byte
  /\ number_type \in {"value_unsigned", "value_integer", "value_float"}
  /\ \A i \in DOMAIN expected : expected[i] \subseteq Byte
  /\ codepoint \in 0..65535
  /\ digitsLeft \in 0..4
  /\ codepoint1 = 0 \/ IsHigh(codepoint1)
  /\ place \in ParserPlaces
  /\ \A i \in DOMAIN states : states[i] \in BOOLEAN
  /\ error \in {0, 101, 302, 305, 406}
  /\ (error # 0) = (place = "thrown")
-----------------------------------------------------------------------------
(* json_sax_dom_parser *)

RECURSIVE ValueAt(_, _), Put(_, _, _)

ValueAt(v, path) ==
  IF path = <<>> THEN v
  ELSE ValueAt(IF IsArray(v) THEN v.array[Head(path)] ELSE v.object[Head(path)], Tail(path))

Put(v, path, w) ==
  IF path = <<>> THEN w
  ELSE IF IsArray(v)
       THEN [array |-> [v.array EXCEPT ![Head(path)] = Put(@, Tail(path), w)]]
       ELSE [object |-> [v.object EXCEPT ![Head(path)] = Put(@, Tail(path), w)]]

Top == ValueAt(root, Last(ref_stack))

\* handle_value: where v goes, and the value with v in it.
Reference ==
  IF ref_stack = <<>> THEN <<>>
  ELSE IF IsArray(Top) THEN Append(Last(ref_stack), Len(Top.array) + 1)
  ELSE object_element

Handled(v) ==
  IF ref_stack # <<>> /\ IsArray(Top)
  THEN Put(root, Last(ref_stack), [array |-> Append(Top.array, v)])
  ELSE Put(root, Reference, v)

\* start_object and start_array
Start(v) ==
  /\ root' = Handled(v)
  /\ ref_stack' = Append(ref_stack, Reference)
  /\ UNCHANGED object_element

EndWithoutPop == UNCHANGED <<root, ref_stack, object_element>>  \* mutant

\* end_object and end_array
End == ref_stack' = Front(ref_stack) /\ UNCHANGED <<root, object_element>>

\* A key that is there keeps its value until the new one comes.
AddKey(key) ==
  /\ object_element' = Append(Last(ref_stack), key)
  /\ root' = IF key \in DOMAIN Top.object THEN root
             ELSE Put(root, Last(ref_stack),
                      [object |-> [k \in DOMAIN Top.object \cup {key} |->
                                     IF k = key THEN Nothing ELSE Top.object[k]]])
  /\ UNCHANGED ref_stack
-----------------------------------------------------------------------------
(* sax_parse_internal and parse *)

\* get_token calls scan; nothing happens until it has returned.
GetToken ==
  /\ at' = "blank"
  /\ UNCHANGED <<input, taken, current, next_unget, position, token, token_buffer, scratch>>

Await(p) == place' = p /\ GetToken /\ UNCHANGED error

Throw(id) ==
  /\ place' = "thrown"
  /\ error' = id
  /\ UNCHANGED <<lexerVars, states, root, ref_stack, object_element>>

\* After a value, with what is on the stack.
Evaluate(stack) ==
  /\ states' = stack
  /\ Await(IF stack = <<>> THEN "strict" ELSE IF Last(stack) THEN "array" ELSE "object")

Expected(p) ==
  CASE p = "value" -> {"begin_object", "begin_array", "value_string", "value_unsigned",
                       "value_integer", "value_float", "literal_true", "literal_false",
                       "literal_null"}
    [] p = "first item"              -> Tokens
    [] p = "first key"               -> {"end_object", "value_string"}
    [] p \in {"first colon", "colon"} -> {"name_separator"}
    [] p = "key"                     -> {"value_string"}
    [] p = "array"                   -> {"value_separator", "end_array"}
    [] p = "object"                  -> {"value_separator", "end_object"}
    [] p = "strict"                  -> {"end_of_input"}
    [] OTHER                         -> Tokens

UnexpectedToken ==
  /\ at = "token"
  /\ token \notin Expected(place)
  /\ Throw(101)

BeginStructure ==
  /\ at = "token" /\ place = "value"
  /\ \/ token = "begin_object" /\ Start([object |-> <<>>]) /\ Await("first key")
     \/ token = "begin_array" /\ Start([array |-> <<>>]) /\ Await("first item")
  /\ UNCHANGED states

\* std::isfinite
Overflows == token = "value_float" /\ Float(token_buffer).point > MaxMagnitude

TokenValue ==
  CASE token = "value_string" -> [string |-> token_buffer]
    [] token \in {"value_unsigned", "value_integer"} -> [integer |-> Integer(token_buffer)]
    [] token = "value_float"  -> [float |-> Float(token_buffer)]
    [] token \in {"literal_true", "literal_false"} -> [boolean |-> token = "literal_true"]
    [] OTHER                  -> Nothing

Primitive ==
  /\ at = "token" /\ place = "value"
  /\ token \in Expected("value") \ {"begin_object", "begin_array"}
  /\ IF Overflows THEN Throw(406)
     ELSE /\ root' = Handled(TokenValue)
          /\ UNCHANGED <<ref_stack, object_element>>
          /\ Evaluate(states)

EmptyStructure ==
  /\ at = "token"
  /\ <<place, token>> \in {<<"first key", "end_object">>, <<"first item", "end_array">>}
  /\ End
  /\ Evaluate(states)

\* The token is the first one of the value.
FirstItem ==
  /\ at = "token" /\ place = "first item" /\ token # "end_array"
  /\ states' = Append(states, TRUE)
  /\ place' = "value"
  /\ UNCHANGED <<lexerVars, root, ref_stack, object_element, error>>

Key ==
  /\ at = "token" /\ place \in {"first key", "key"} /\ token = "value_string"
  /\ AddKey(token_buffer)
  /\ Await(IF place = "key" THEN "colon" ELSE "first colon")
  /\ UNCHANGED states

Colon ==
  /\ at = "token" /\ place \in {"first colon", "colon"} /\ token = "name_separator"
  /\ states' = IF place = "colon" THEN states ELSE Append(states, FALSE)
  /\ Await("value")
  /\ UNCHANGED <<root, ref_stack, object_element>>

Comma ==
  /\ at = "token" /\ place \in {"array", "object"} /\ token = "value_separator"
  /\ Await(IF place = "array" THEN "value" ELSE "key")
  /\ UNCHANGED <<states, root, ref_stack, object_element>>

Close ==
  /\ at = "token"
  /\ <<place, token>> \in {<<"array", "end_array">>, <<"object", "end_object">>}
  /\ End
  /\ Evaluate(Front(states))

\* parse returns the value.
Finish ==
  /\ at = "token" /\ place = "strict" /\ token = "end_of_input"
  /\ place' = "done"
  /\ UNCHANGED <<lexerVars, states, root, ref_stack, object_element, error>>

Reading == place \notin {"done", "returned", "thrown"}

Parse ==
  /\ Reading
  /\ \/ Scan /\ UNCHANGED parserVars
     \/ UnexpectedToken \/ BeginStructure \/ Primitive \/ EmptyStructure \/ FirstItem
     \/ Key \/ Colon \/ Comma \/ Close \/ Finish
-----------------------------------------------------------------------------
(* Properties *)

\* Reading a file yields the one value that the grammar of RFC 8259 gives its
\* text, and throws if there is none: lexer, parser and SAX handler together
\* (json.hpp scan_string, scan_number, sax_parse_internal, json_sax_dom_parser).
ReadsTheGrammar ==
  /\ place \in {"done", "returned"} => Reads(input) = {root}
  /\ place = "thrown" /\ error \in {101, 406} => Reads(input) = {}

\* The position that a parse_error reports, after every get and every unget of
\* lexer: the characters read, the line ends among them and the characters since
\* the last one, an end of file counted as one.  A character that was ungotten
\* does not count; but where that is a line end, as after a number at the end of
\* its line, the column is lost: "[1 2" and a line end are refused at column 0.
Read == IF next_unget /\ current # EOF THEN taken - 1 ELSE taken
LineEnds == {i \in 1..Read : input[i] = 10}
LineStart == IF LineEnds = {} THEN 0 ELSE CHOOSE i \in LineEnds : \A j \in LineEnds : j <= i
AtEnd == IF current = EOF /\ ~ next_unget /\ at # "bom" THEN 1 ELSE 0

PositionExact ==
  position = [total  |-> Read + AtEnd,
              column |-> IF next_unget /\ current = 10 THEN 0 ELSE Read - LineStart + AtEnd,
              lines  |-> Cardinality(LineEnds)]

\* The parser's stack and the handler's stack of pointers are two records of one
\* nesting: they name the same arrays and objects, each the last entry of the one
\* around it, so that no pointer is to an element that a later emplace_back moves.
Kinds == [i \in DOMAIN ref_stack |-> IsArray(ValueAt(root, ref_stack[i]))]

StackAgrees ==
  /\ Kinds = CASE place \in {"first key", "first colon"} -> Append(states, FALSE)
               [] place = "first item" -> Append(states, TRUE)
               [] place = "thrown" -> Kinds
               [] OTHER -> states
  /\ \A i \in DOMAIN ref_stack :
       LET inner == ref_stack[i]
           outer == ref_stack[i - 1]
       IN  IF i = 1 THEN inner = <<>>
           ELSE /\ IsStrictPrefix(outer, inner)
                /\ Len(inner) = i - 1
                /\ Kinds[i - 1] => Last(inner) = Len(ValueAt(root, outer).array)
=============================================================================
