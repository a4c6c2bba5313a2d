----------------------------- MODULE MCEventsFile -----------------------------
(* Files for the model-checking runs of EventsFile. *)
EXTENDS EventsFile

\* Sequences of up to n pieces, one after the other.
Strung(pieces, n) ==
  {FlattenSeq(s) : s \in UNION {[1..k -> pieces] : k \in 0..n}}

Around(left, texts, right) == {left \o t \o right : t \in texts}

All(strings) == {Bytes(s) : s \in strings}

\* Nesting, separators, keys given twice, ends of lines.
Structures == Strung(All({"[", "]", "{", "}", ",", "\"k\":", "0"}), 4)
Arrays == Around(Bytes("["), Strung(All({"[", "]", "{}", ",", "1"}), 4), Bytes("]"))
Objects == Around(Bytes("{"), Strung(All({"\"k\"", ":", "[", "]", ",", "0"}), 4), <<125>>)
Twice == Around(Bytes("{\"k\":"), Strung(All({"{\"k\":", "}", ",\"k\":", ",\"l\":", "1"}), 4), <<125>>)

\* Every path through scan_number, with and without a line end behind it.
Numbers3 == Around(Bytes("1"), Strung(All({"0", ".", "e", "+", "-"}), 4), <<10>>)
Numbers4 == Strung(All({"0", "-", "9", ".", "E", "1"}), 4)
Limits == All({"63", "64", "255", "256", "-128", "-129", "1e9", "1e10", "-1e10", "0e99", "0.1e10", "99e8", "1e-7", "-12e-9", "0.00012", "123456.5", "12345678.0"})

\* Escapes, surrogates and sequences of UTF-8.
Escaped2 == Around(Bytes("\""), Strung({<<Backslash>>, <<Quote>>} \cup All({"u00", "41", "n", "7f"}), 4), <<Quote>>)
Surrogate2 ==
  Around(Bytes("\""), Strung(All({"\\ud8", "\\uDF", "00", "fF", "\\uE0", "\\u07", "\\"}), 4), <<Quote>>)
Ill == Around(<<Quote>>,
              Strung({<<b>> : b \in {127, 128, 143, 144, 159, 160, 191, 193, 31}}
                     \cup {<<b>> : b \in {194, 224, 237, 240, 244, 245}}, 3), <<Quote>>)
Wide == Around(<<Quote>>,
               {<<b, c, d, 128>> : b \in {240, 241, 243, 244}, c \in {127, 128, 143, 144, 191, 192},
                                   d \in {127, 128, 191, 192}}, <<Quote>>)

\* Numbers and strings before ends of lines, where parsing may stop.
Lines == Strung(All({"[1", " 2", ",", "\"", "{"}) \cup {<<10>>}, 4)

\* Literals, white space, byte order marks and NUL.
Words == Strung(All({"true", "fals", "e", "null", " "}) \cup {<<0>>, <<10>>}, 3)
Marks3 == Strung({<<239>>, <<187>>, <<191>>, <<49>>}, 4)

\* Whole files.
File(lists) == Around(Bytes("{\"channel_name\":\"p\",\"events\":"), lists, <<125>>)

Entry(name, date, info) ==
  Bytes("{\"event_name\":") \o name \o Bytes(",\"city\":\"c\",\"date_time\":") \o date
  \o Bytes(",\"description\":\"d\"") \o info \o <<125>>

Infos == {<<>>}
  \cup Around(Bytes(",\"general_information\":"),
              All({"{}", "{\"active\":true,\"x\":\"y\\n\"}", "{\"n\":[1,null,{\"k\":\"\\u00e9\\\"\"}]}",
                   "null", "[7,\"s\"]", "3"}), <<>>)

Dated ==
  {Entry(Bytes("\"b\""), d, <<>>) :
     d \in All({"7", "\"23/12\"", "true", "2.5", "100", "null"})}

Entries ==
  Dated \cup {Entry(n, d, i) : n \in All({"\"a\"", "1"}), d \in All({"7", "-3"}), i \in Infos}

Files ==
  File({<<91>> \o e \o <<93>> : e \in Entries}
       \cup {<<91>> \o e \o <<44>> \o f \o <<93>> :
               e \in {Entry(Bytes("\"a\""), Bytes("1"), <<>>)}, f \in Dated}
       \cup All({"[]", "null", "{}", "1", "[1]", "[null]", "{\"b\":[],\"a\":{}}"}))
  \cup All({"{\"events\":[]}", "{\"channel_name\":1}", "[]", "null", "{\"channel_name\":\"p\"}"})

MCMinInteger == -128

MCInputs ==
  UNION {Structures, Arrays, Objects, Twice, Numbers3, Numbers4, Limits, Lines, Escaped2, Surrogate2,
         Ill, Wide, Words, Marks3, Files}
=============================================================================
